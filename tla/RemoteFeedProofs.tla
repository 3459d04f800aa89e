-------------------------- MODULE RemoteFeedProofs --------------------------
(***************************************************************************)
(* Proofs about RemoteFeed: for any number of subscriptions, messages,     *)
(* streams and places in a queue, a gap notice outlasts the registrations  *)
(* of a reconnect, and every subscription keeps the promise of FeedPromise.*)
(***************************************************************************)
EXTENDS RemoteFeed, SequenceTheorems, TLAPS

-----------------------------------------------------------------------------
(* What is said of one queue.                                              *)

\* Its messages are in the order they were published, none twice ...
Sorted(q) ==
  \A i, j \in 1..Len(q) : i < j /\ q[i] # Gap /\ q[j] # Gap => q[i] < q[j]

\* ... and before those of a later queue.
Below(p, q) == \A m \in Messages(p), n \in Messages(q) : m < n

\* Each of its messages was published before all of `lost', or follows a gap.
Covered(q, lost) ==
  \A j \in 1..Len(q) :
    \/ q[j] = Gap
    \/ \A m \in lost : q[j] < m
    \/ \E i \in 1..Len(q) : i < j /\ q[i] = Gap

-----------------------------------------------------------------------------
(* The invariant, for one subscription.                                    *)

\* A stream that is not up or open holds nothing, at the edge and on the wire.
Streams ==
  /\ open => up
  /\ held # {} => open
  /\ \A s \in Subs : /\ ~up => wire[s] = <<>>
                     /\ s \notin held => equeue[s] = <<>>
                     /\ via[s] <= loop

\* What is on its way was published, and the edge queues no gap.
Numbered(s) ==
  /\ \A q \in {hand[s], queue[s], wire[s], equeue[s]} : Range(q) \subseteq 0..sent[s]
  /\ Gap \notin Range(equeue[s])

\* Before subscribe() is posted there is nothing, and after the end no queue.
Outside(s) ==
  /\ stage[s] \in {"out", "calling"} =>
       /\ sent[s] = 0 /\ ready[s] = 0 /\ s \notin held
       /\ hand[s] = <<>> /\ wire[s] = <<>>
  /\ s \notin Known => queue[s] = <<>> /\ untold[s] = {}

\* Until a reconnect registers it, the new stream has nothing for it.
Unheard(s) ==
  up /\ loop \notin finished /\ s \notin tried => s \notin held /\ wire[s] = <<>>

\* subscribe() is posted only once its own loop is done.
Posted(s) ==
  /\ stage[s] \in {"posting", "posted"} => via[s] \in finished
  /\ stage[s] = "posting" /\ via[s] = loop =>
       s \notin held /\ untold[s] = {} /\ wire[s] = <<>>

\* A subscription the running reconnect did not find was posted since.
Missed(s) ==
  s \in Known /\ up /\ loop \notin finished /\ ready[s] # loop =>
    stage[s] = "posting" /\ (s \notin tried => untold[s] = {})

\* A gap is pending that no delivery may tell before the loop is done.
GapWaits(s) ==
  \/ s \in owed
  \/ Gap \in Range(queue[s])
  \/ hand[s] # <<>> /\ Gap \in Range(Tail(hand[s]))
  \/ hand[s] # <<>> /\ Head(hand[s]) = Gap /\ awaits[s] = loop

Outlasts(s) ==
  s \in Known /\ up /\ loop \notin finished /\ ready[s] = loop => GapWaits(s)

\* What the edge sends next comes after a gap if anything is untold.
Noticed(s) ==
  s \in held \intersect Known /\ untold[s] # {} =>
    GapPending(s) \/ Gap \in Range(wire[s]) \/ s \in edropped

\* The four queues, in the order a message passes them.
Ordered(s) ==
  /\ Sorted(hand[s]) /\ Sorted(queue[s]) /\ Sorted(wire[s]) /\ Sorted(equeue[s])
  /\ Below(hand[s], queue[s]) /\ Below(hand[s], wire[s]) /\ Below(hand[s], equeue[s])
  /\ Below(queue[s], wire[s]) /\ Below(queue[s], equeue[s])
  /\ Below(wire[s], equeue[s])

\* A message that is heard next was published before all that nobody was told of.
Warned(s) ==
  /\ Covered(hand[s], untold[s])
  /\ Gap \in Range(hand[s]) \/ s \in owed \/ Covered(queue[s], untold[s])
  /\ GapPending(s) \/ Covered(wire[s], untold[s])
  /\ GapPending(s) \/ Gap \in Range(wire[s]) \/ s \in edropped
       \/ Covered(equeue[s], untold[s])

Placed(s)  == Numbered(s) /\ Outside(s) /\ Unheard(s) /\ Posted(s)
Gaps(s)    == Missed(s) /\ Outlasts(s) /\ Noticed(s)
Flow(s)    == s \in Known => Ordered(s) /\ Warned(s)

FeedInv ==
  /\ TypeOK /\ Streams
  /\ \A s \in Subs : Placed(s) /\ Gaps(s) /\ Flow(s)

-----------------------------------------------------------------------------
(* The queues.                                                             *)

LEMMA EmptyQueue ==
  /\ Range(<<>>) = {} /\ Sorted(<<>>)
  /\ \A lost : Covered(<<>>, lost)
BY DEF Range, Sorted, Covered

LEMMA InRange ==
  ASSUME NEW S, NEW q \in Seq(S)
  PROVE  /\ Range(q) \subseteq S
         /\ \A i \in 1..Len(q) : q[i] \in Range(q) /\ q[i] \in S
         /\ \A e \in Range(q) : \E i \in 1..Len(q) : q[i] = e
         /\ q = <<>> => Range(q) = {}
BY DEF Range

\* An item joins the end of a queue.
LEMMA Appended ==
  ASSUME NEW q \in Seq(Nat), NEW e \in Nat, NEW lost \in SUBSET Nat
  PROVE  /\ Append(q, e) # <<>>
         /\ Range(Append(q, e)) = Range(q) \union {e}
         /\ Sorted(q) /\ (e = Gap \/ \A m \in Messages(q) : m < e) => Sorted(Append(q, e))
         /\ /\ Covered(q, lost)
            /\ e = Gap \/ Gap \in Range(q) \/ \A m \in lost : e < m
            => Covered(Append(q, e), lost)
<1> DEFINE r == Append(q, e)
<1>1. /\ r \in Seq(Nat) /\ Len(r) = Len(q) + 1 /\ r[Len(r)] = e
      /\ \A i \in 1..Len(q) : r[i] = q[i]
      /\ Len(q) \in Nat
  OBVIOUS
<1> HIDE DEF r
<1>2. Range(r) = Range(q) \union {e}
  <2>1. \A x \in Range(r) : x \in Range(q) \union {e}
    <3> SUFFICES ASSUME NEW i \in 1..Len(r) PROVE r[i] \in Range(q) \union {e}
      BY <1>1, InRange
    <3>1. i \in 1..Len(q) \/ i = Len(r)
      BY <1>1
    <3> QED BY <1>1, <3>1, InRange
  <2>2. \A x \in Range(q) : x \in Range(r)
    BY <1>1, InRange
  <2>3. e \in Range(r)
    <3>1. Len(r) \in 1..Len(r)
      BY <1>1
    <3> QED BY <1>1, <3>1, InRange
  <2> QED BY <2>1, <2>2, <2>3
<1>3. ASSUME Sorted(q), e = Gap \/ \A m \in Messages(q) : m < e
      PROVE  Sorted(r)
  <2> SUFFICES ASSUME NEW i \in 1..Len(r), NEW j \in 1..Len(r), i < j, r[i] # Gap, r[j] # Gap
               PROVE  r[i] < r[j]
    BY DEF Sorted
  <2>1. i \in 1..Len(q) /\ (j \in 1..Len(q) \/ j = Len(r))
    <3>1. Len(q) \in Nat /\ Len(r) = Len(q) + 1
      BY <1>1
    <3> QED BY <3>1
  <2>2. q[i] \in Messages(q)
    BY <1>1, <2>1, InRange DEF Messages
  <2> QED BY <1>1, <1>3, <2>1, <2>2 DEF Sorted
<1>4. ASSUME Covered(q, lost), e = Gap \/ Gap \in Range(q) \/ \A m \in lost : e < m
      PROVE  Covered(r, lost)
  <2> SUFFICES ASSUME NEW j \in 1..Len(r)
               PROVE  \/ r[j] = Gap
                      \/ \A m \in lost : r[j] < m
                      \/ \E i \in 1..Len(r) : i < j /\ r[i] = Gap
    BY DEF Covered
  <2>1. CASE j \in 1..Len(q)
    <3>1. \A i \in 1..Len(q) : i \in 1..Len(r)
      BY <1>1
    <3> QED BY <1>1, <1>4, <2>1, <3>1 DEF Covered
  <2>2. CASE j = Len(r)
    <3>1. CASE Gap \in Range(q)
      <4>1. PICK i \in 1..Len(q) : q[i] = Gap
        BY <3>1, InRange
      <4>2. i \in 1..Len(r) /\ i < j /\ r[i] = Gap
        BY <1>1, <2>2, <4>1
      <4> QED BY <4>2
    <3> QED BY <1>1, <1>4, <2>2, <3>1
  <2> QED BY <1>1, <2>1, <2>2
<1>5. r # <<>>
  BY <1>1
<1> QED BY <1>2, <1>3, <1>4, <1>5 DEF r

\* The first item of a queue leaves it.
LEMMA Removed ==
  ASSUME NEW q \in Seq(Nat), q # <<>>, NEW lost \in SUBSET Nat
  PROVE  /\ Tail(q) \in Seq(Nat) /\ Len(Tail(q)) = Len(q) - 1
         /\ Head(q) \in Range(q)
         /\ Range(q) = {Head(q)} \union Range(Tail(q))
         /\ Sorted(q) => /\ Sorted(Tail(q))
                         /\ Head(q) # Gap => \A m \in Messages(Tail(q)) : Head(q) < m
         /\ Covered(q, lost) /\ Head(q) # Gap => /\ \A m \in lost : Head(q) < m
                                                 /\ Covered(Tail(q), lost)
<1> DEFINE r == Tail(q)
<1>1. /\ r \in Seq(Nat) /\ Len(r) = Len(q) - 1 /\ Len(q) \in Nat \ {0}
      /\ \A i \in 1..Len(r) : i + 1 \in 1..Len(q) /\ r[i] = q[i+1]
      /\ \A i \in 1..Len(q) : i # 1 => i - 1 \in 1..Len(r) /\ q[i] = r[i-1]
      /\ Head(q) = q[1] /\ 1 \in 1..Len(q)
  <2>1. /\ r \in Seq(Nat) /\ Len(r) = Len(q) - 1 /\ Len(q) \in Nat \ {0}
        /\ \A i \in 1..Len(r) : r[i] = q[i+1]
        /\ Head(q) = q[1]
    BY HeadTailProperties, EmptySeq
  <2> HIDE DEF r
  <2>2. ASSUME NEW i \in 1..Len(q), i # 1 PROVE i - 1 \in 1..Len(r) /\ q[i] = r[i-1]
    <3>1. i - 1 \in 1..Len(r) /\ (i - 1) + 1 = i
      BY <2>1, <2>2
    <3> QED BY <2>1, <3>1
  <2>3. ASSUME NEW i \in 1..Len(r) PROVE i + 1 \in 1..Len(q)
    BY <2>1
  <2>4. 1 \in 1..Len(q)
    BY <2>1
  <2> QED BY <2>1, <2>2, <2>3, <2>4, Zenon
<1> HIDE DEF r
<1>2. Head(q) \in Range(q) /\ Range(q) = {Head(q)} \union Range(r)
  <2>1. ASSUME NEW i \in 1..Len(q) PROVE q[i] \in {Head(q)} \union Range(r)
    <3>1. CASE i = 1
      BY <1>1, <3>1
    <3>2. CASE i # 1
      <4>1. i - 1 \in 1..Len(r) /\ q[i] = r[i-1]
        BY <1>1, <3>2
      <4> QED BY <1>1, <4>1, InRange
    <3> QED BY <3>1, <3>2
  <2>2. ASSUME NEW i \in 1..Len(r) PROVE r[i] \in Range(q)
    BY <1>1, InRange
  <2>3. \A x \in Range(q) : x \in {Head(q)} \union Range(r)
    BY <2>1, InRange
  <2>4. \A x \in Range(r) : x \in Range(q)
    <3>1. r \in Seq(Nat)
      BY <1>1
    <3> QED BY <3>1, <2>2, InRange
  <2> QED BY <1>1, <2>3, <2>4, InRange
<1>3. ASSUME Sorted(q)
      PROVE  Sorted(r) /\ (Head(q) # Gap => \A m \in Messages(r) : Head(q) < m)
  <2>1. Sorted(r)
    <3> SUFFICES ASSUME NEW i \in 1..Len(r), NEW j \in 1..Len(r), i < j, r[i] # Gap, r[j] # Gap
                 PROVE  r[i] < r[j]
      BY DEF Sorted
    <3>1. i + 1 \in 1..Len(q) /\ j + 1 \in 1..Len(q) /\ i + 1 < j + 1
      BY <1>1
    <3> QED BY <1>1, <1>3, <3>1 DEF Sorted
  <2>2. ASSUME Head(q) # Gap, NEW m \in Messages(r) PROVE Head(q) < m
    <3>1. PICK i \in 1..Len(r) : r[i] = m
      BY <1>1, InRange DEF Messages
    <3>2. 1 < i + 1 /\ q[i+1] = m /\ i + 1 \in 1..Len(q) /\ m # Gap
      BY <1>1, <3>1 DEF Messages
    <3> QED BY <1>1, <1>3, <2>2, <3>2 DEF Sorted
  <2> QED BY <2>1, <2>2
<1>4. ASSUME Covered(q, lost), Head(q) # Gap
      PROVE  (\A m \in lost : Head(q) < m) /\ Covered(r, lost)
  <2>1. \A m \in lost : Head(q) < m
    BY <1>1, <1>4 DEF Covered
  <2>2. ASSUME NEW j \in 1..Len(r)
        PROVE  \/ r[j] = Gap
               \/ \A m \in lost : r[j] < m
               \/ \E i \in 1..Len(r) : i < j /\ r[i] = Gap
    <3>1. j + 1 \in 1..Len(q) /\ r[j] = q[j+1]
      BY <1>1
    <3>2. ASSUME NEW i \in 1..Len(q), i < j + 1, q[i] = Gap
          PROVE  i - 1 \in 1..Len(r) /\ i - 1 < j /\ r[i-1] = Gap
      <4>1. i # 1
        BY <1>1, <1>4, <3>2
      <4>2. i - 1 \in 1..Len(r) /\ r[i-1] = Gap
        BY <1>1, <3>2, <4>1
      <4>3. i \in Nat /\ j \in Nat
        BY <1>1
      <4> QED BY <3>2, <4>2, <4>3
    <3> QED BY <1>4, <3>1, <3>2 DEF Covered
  <2> QED BY <2>1, <2>2 DEF Covered
<1> QED BY <1>1, <1>2, <1>3, <1>4 DEF r

\* More is lost, and no queued message was published after it.
LEMMA MoreLost ==
  ASSUME NEW q \in Seq(Nat), NEW lost \in SUBSET Nat, NEW more \in SUBSET Nat,
         Covered(q, lost), \A m \in Messages(q), n \in more : m < n
  PROVE  Covered(q, lost \union more)
BY InRange DEF Covered, Messages

LEMMA NothingLost == \A q : Covered(q, {})
BY DEF Covered

-----------------------------------------------------------------------------
(* Every variable keeps its type.                                          *)

LEMMA Typed ==
  ASSUME TypeOK, NEW s \in Subs
  PROVE  /\ hand[s] \in Seq(Nat) /\ queue[s] \in Seq(Nat)
         /\ wire[s] \in Seq(Nat) /\ equeue[s] \in Seq(Nat)
         /\ untold[s] \in SUBSET Nat /\ sent[s] \in Nat
<1>1. Items \subseteq Nat
  BY FeedAssumption DEF Items
<1>2. \A q \in Seq(Items) : q \in Seq(Nat)
  BY <1>1, SeqMonotonic
<1> QED BY <1>1, <1>2 DEF TypeOK, QueueTypeOK, Queues, SentTypeOK

LEMMA ItemQueues ==
  ASSUME NEW q \in Seq(Items)
  PROVE  /\ \A e \in Items : /\ Append(q, e) \in Seq(Items)
                             /\ Len(Append(q, e)) = Len(q) + 1
         /\ q # <<>> => /\ Tail(q) \in Seq(Items) /\ Len(Tail(q)) = Len(q) - 1
                        /\ Head(q) \in Items /\ Len(q) > 0
         /\ Len(q) \in Nat /\ Gap \in Items
         /\ <<>> \in Seq(Items) /\ Len(<<>>) = 0
<1>1. Gap \in Items
  BY FeedAssumption DEF Gap, Items
<1>2. q # <<>> => /\ Tail(q) \in Seq(Items) /\ Len(Tail(q)) = Len(q) - 1
                  /\ Head(q) \in Items /\ Len(q) > 0
  BY HeadTailProperties, EmptySeq
<1> QED BY <1>1, <1>2, AppendProperties, EmptySeq

\* What a write appends to the wire.
LEMMA Frames ==
  ASSUME NEW S, NEW q \in Seq(S), NEW h \in S, Gap \in S
  PROVE  /\ q \o (<<Gap>> \o <<h>>) = Append(Append(q, Gap), h)
         /\ (q \o <<Gap>>) \o <<h>> = Append(Append(q, Gap), h)
         /\ (q \o <<>>) \o <<h>> = Append(q, h)
         /\ <<Gap>> \o <<h>> = Append(<<Gap>>, h) /\ <<>> \o <<h>> = <<h>>
  BY ConcatEmptySeq, AppendIsConcat, EmptySeq

LEMMA QueueSet ==
  ASSUME NEW n \in Nat, NEW q \in Queues(n), NEW s \in Subs, NEW v \in Seq(Items), Len(v) <= n
  PROVE  [q EXCEPT ![s] = v] \in Queues(n)
BY DEF Queues

LEMMA QueueOf ==
  ASSUME NEW n \in Nat, NEW q \in Queues(n), NEW s \in Subs
  PROVE  /\ q[s] \in Seq(Items) /\ Len(q[s]) <= n /\ Len(q[s]) \in Nat
         /\ q[s] # <<>> => Head(q[s]) \in Items
         /\ <<>> \in Seq(Items) /\ Len(<<>>) = 0 /\ Gap \in Items
BY ItemQueues DEF Queues

LEMMA QueueCut ==
  ASSUME NEW n \in Nat, NEW q \in Queues(n), NEW s \in Subs, q[s] # <<>>
  PROVE  [q EXCEPT ![s] = Tail(q[s])] \in Queues(n)
<1>1. Tail(q[s]) \in Seq(Items) /\ Len(Tail(q[s])) <= n
  BY QueueOf, ItemQueues
<1> QED BY <1>1, QueueSet

LEMMA QueueCleared ==
  ASSUME NEW n \in Nat, NEW q \in Queues(n), NEW s \in Subs
  PROVE  [q EXCEPT ![s] = <<>>] \in Queues(n)
<1>1. <<>> \in Seq(Items) /\ Len(<<>>) <= n
  BY QueueOf
<1> QED BY <1>1, QueueSet

LEMMA QueuePut ==
  ASSUME NEW n \in Nat, NEW q \in Queues(n), NEW s \in Subs, NEW e \in Items, Len(q[s]) < n
  PROVE  [q EXCEPT ![s] = Append(q[s], e)] \in Queues(n)
<1>1. Append(q[s], e) \in Seq(Items) /\ Len(Append(q[s], e)) <= n
  BY QueueOf, ItemQueues
<1> QED BY <1>1, QueueSet

\* The frames of one write, and the items of one delivery.
LEMMA Written ==
  ASSUME QueueTypeOK, NEW s \in Subs, Write(s)
  PROVE  /\ wire' = [wire EXCEPT ![s] = wire'[s]]
         /\ Head(equeue[s]) \in Items
         /\ s \in edropped => wire'[s] = Append(Append(wire[s], Gap), Head(equeue[s]))
         /\ s \notin edropped => wire'[s] = Append(wire[s], Head(equeue[s]))
<1>1. /\ wire[s] \in Seq(Items) /\ Head(equeue[s]) \in Items /\ Gap \in Items
  BY ItemQueues DEF QueueTypeOK, Queues, Write
<1>2. /\ s \in edropped => wire'[s] = (wire[s] \o <<Gap>>) \o <<Head(equeue[s])>>
      /\ s \notin edropped => wire'[s] = (wire[s] \o <<>>) \o <<Head(equeue[s])>>
      /\ wire' = [wire EXCEPT ![s] = wire'[s]]
  BY DEF QueueTypeOK, Queues, Write
<1> QED BY <1>1, <1>2, Frames

LEMMA Taken ==
  ASSUME QueueTypeOK, NEW s \in Subs, Take(s)
  PROVE  /\ hand' = [hand EXCEPT ![s] = hand'[s]]
         /\ Head(queue[s]) \in Items
         /\ s \in owed => hand'[s] = Append(<<Gap>>, Head(queue[s]))
         /\ s \notin owed => hand'[s] = <<Head(queue[s])>>
<1>1. Head(queue[s]) \in Items /\ Gap \in Items
  BY ItemQueues DEF QueueTypeOK, Queues, Take
<1>2. /\ s \in owed => hand'[s] = <<Gap>> \o <<Head(queue[s])>>
      /\ s \notin owed => hand'[s] = <<>> \o <<Head(queue[s])>>
      /\ hand' = [hand EXCEPT ![s] = hand'[s]]
  BY DEF QueueTypeOK, Queues, Take
<1> QED BY <1>1, <1>2, Frames

\* The steps that one subscription, one loop or the streams take.
LEMMA QueueTypeStep ==
  ASSUME FeedInv, [Next]_vars
  PROVE  QueueTypeOK'
<1>1. /\ equeue \in Queues(MaxQueued) /\ wire \in Queues(MaxFrames + 1)
      /\ queue \in Queues(MaxQueued)  /\ hand \in Queues(2)
  BY DEF FeedInv, TypeOK, QueueTypeOK
<1>2. MaxQueued \in Nat /\ MaxFrames + 1 \in Nat /\ 2 \in Nat /\ MaxQueued > 0
  BY FeedAssumption
<1> USE <1>1, <1>2 DEF QueueTypeOK
<1>3. CASE UNCHANGED vars
  BY <1>3 DEF vars, local, edge
<1>4. ASSUME NEW s \in Subs,
             \/ Subscribe(s) \/ PostSubscribe(s) \/ SubscribedAtEdge(s) \/ SubscribeDone(s)
             \/ Register(s)
      PROVE  QueueTypeOK'
  BY <1>4 DEF Subscribe, PostSubscribe, SubscribedAtEdge, SubscribeDone, Register, edge, local
<1>5. ASSUME NEW s \in Subs, SubscribeFails(s) \/ Unsubscribe(s)
      PROVE  QueueTypeOK'
  <2>1. queue' = [queue EXCEPT ![s] = <<>>] /\ UNCHANGED <<equeue, wire, hand>>
    BY <1>5 DEF SubscribeFails, Unsubscribe, Forgotten, edge
  <2>2. queue' \in Queues(MaxQueued)
    BY <2>1, QueueCleared
  <2> QED BY <2>1, <2>2
<1>6. ASSUME NEW s \in Subs, PostClose(s)
      PROVE  QueueTypeOK'
  <2>1. /\ equeue' = [equeue EXCEPT ![s] = <<>>] \/ equeue' = equeue
        /\ UNCHANGED <<queue, wire, hand>>
    BY <1>6 DEF PostClose
  <2>2. equeue' \in Queues(MaxQueued)
    BY <2>1, QueueCleared
  <2> QED BY <2>1, <2>2
<1>7. ASSUME NEW s \in Subs, Publish(s)
      PROVE  QueueTypeOK'
  <2>1. sent[s] \in Items /\ MaxSent \in Nat
    BY FeedAssumption DEF FeedInv, TypeOK, SentTypeOK
  <2>2. sent[s] + 1 \in Items
    BY <1>7, <2>1 DEF Items, Publish
  <2>3. /\ \/ equeue' = [equeue EXCEPT ![s] = Append(equeue[s], sent[s] + 1)]
              /\ Len(equeue[s]) < MaxQueued
           \/ equeue' = equeue
        /\ UNCHANGED <<queue, wire, hand>>
    BY <1>7 DEF Publish, local
  <2>4. equeue' \in Queues(MaxQueued)
    BY <2>2, <2>3, QueuePut
  <2> QED BY <2>3, <2>4
<1>8. ASSUME NEW s \in Subs, Write(s)
      PROVE  QueueTypeOK'
  <2>1. equeue' = [equeue EXCEPT ![s] = Tail(equeue[s])] /\ equeue[s] # <<>>
        /\ Len(wire[s]) < MaxFrames /\ UNCHANGED <<queue, hand>>
    BY <1>8 DEF Write, local
  <2>2. wire[s] \in Seq(Items) /\ Gap \in Items /\ Len(wire[s]) \in Nat
    BY QueueOf, ItemQueues
  <2>3. Append(wire[s], Gap) \in Seq(Items) /\ Len(Append(wire[s], Gap)) = Len(wire[s]) + 1
    BY <2>2, ItemQueues
  <2>4. wire'[s] \in Seq(Items) /\ Len(wire'[s]) <= MaxFrames + 1
    <3> DEFINE h == Head(equeue[s])
    <3>1. /\ h \in Items
          /\ wire'[s] = Append(wire[s], h) \/ wire'[s] = Append(Append(wire[s], Gap), h)
      BY <1>8, Written
    <3>2. /\ Append(wire[s], h) \in Seq(Items)
          /\ Len(Append(wire[s], h)) = Len(wire[s]) + 1
      BY <2>2, <3>1, ItemQueues
    <3>3. /\ Append(Append(wire[s], Gap), h) \in Seq(Items)
          /\ Len(Append(Append(wire[s], Gap), h)) = Len(wire[s]) + 2
      BY <2>2, <2>3, <3>1, ItemQueues
    <3> HIDE DEF h
    <3>4. MaxFrames \in Nat
      BY FeedAssumption
    <3>5. CASE wire'[s] = Append(wire[s], h)
      BY <2>1, <2>2, <3>2, <3>4, <3>5
    <3>6. CASE wire'[s] = Append(Append(wire[s], Gap), h)
      BY <2>1, <2>2, <3>3, <3>4, <3>6
    <3> QED BY <3>1, <3>5, <3>6
  <2>5. wire' \in Queues(MaxFrames + 1)
    <3>1. wire' = [wire EXCEPT ![s] = wire'[s]]
      BY <1>8, Written
    <3> QED BY <2>4, <3>1, QueueSet
  <2>6. equeue' \in Queues(MaxQueued)
    BY <2>1, QueueCut
  <2> QED BY <2>1, <2>5, <2>6
<1>9. ASSUME NEW s \in Subs, Receive(s)
      PROVE  QueueTypeOK'
  <2>1. /\ wire' = [wire EXCEPT ![s] = Tail(wire[s])] /\ wire[s] # <<>>
        /\ UNCHANGED <<equeue, hand>>
        /\ queue' = [t \in Subs |-> IF t \in {s} \intersect Known /\ Len(queue[t]) < MaxQueued
                                    THEN Append(queue[t], Head(wire[s])) ELSE queue[t]]
    BY <1>9 DEF Receive, Told
  <2>2. Head(wire[s]) \in Items
    BY <2>1, QueueOf, ItemQueues
  <2>3. queue' = queue \/ /\ queue' = [queue EXCEPT ![s] = Append(queue[s], Head(wire[s]))]
                          /\ Len(queue[s]) < MaxQueued
    BY <2>1 DEF Queues
  <2>4. queue' \in Queues(MaxQueued)
    <3>1. Len(queue[s]) < MaxQueued
            => [queue EXCEPT ![s] = Append(queue[s], Head(wire[s]))] \in Queues(MaxQueued)
      BY <2>2, QueuePut
    <3> QED BY <2>3, <3>1
  <2>5. wire' \in Queues(MaxFrames + 1)
    BY <2>1, QueueCut
  <2> QED BY <2>1, <2>4, <2>5
<1>11. ASSUME NEW s \in Subs, Take(s)
      PROVE  QueueTypeOK'
  <2>1. /\ queue' = [queue EXCEPT ![s] = Tail(queue[s])] /\ queue[s] # <<>>
        /\ UNCHANGED <<equeue, wire>>
    BY <1>11 DEF Take, edge
  <2>2. hand'[s] \in Seq(Items) /\ Len(hand'[s]) <= 2
    <3> DEFINE h == Head(queue[s])
    <3>1. h \in Items /\ (hand'[s] = <<h>> \/ hand'[s] = Append(<<Gap>>, h))
      BY <1>11, Taken
    <3>2. Gap \in Items
      BY QueueOf
    <3> HIDE DEF h
    <3>3. <<h>> \in Seq(Items) /\ Len(<<h>>) = 1 /\ <<Gap>> \in Seq(Items) /\ Len(<<Gap>>) = 1
      BY <3>1, <3>2
    <3>4. Append(<<Gap>>, h) \in Seq(Items) /\ Len(Append(<<Gap>>, h)) = 2
      BY <3>1, <3>3, ItemQueues
    <3>5. CASE hand'[s] = <<h>>
      BY <3>3, <3>5
    <3>6. CASE hand'[s] = Append(<<Gap>>, h)
      BY <3>4, <3>6
    <3> QED BY <3>1, <3>5, <3>6
  <2>3. hand' \in Queues(2)
    <3>1. hand' = [hand EXCEPT ![s] = hand'[s]]
      BY <1>11, Taken
    <3> QED BY <2>2, <3>1, QueueSet
  <2>4. queue' \in Queues(MaxQueued)
    BY <2>1, QueueCut
  <2> QED BY <2>1, <2>3, <2>4
<1>12. ASSUME NEW s \in Subs, Deliver(s)
      PROVE  QueueTypeOK'
  <2>1. hand' = [hand EXCEPT ![s] = Tail(hand[s])] /\ hand[s] # <<>>
        /\ UNCHANGED <<equeue, wire, queue>>
    BY <1>12 DEF Deliver, edge
  <2>2. hand' \in Queues(2)
    BY <2>1, QueueCut
  <2> QED BY <2>1, <2>2
<1>13. ASSUME NEW k \in Loops, Finish(k)
      PROVE  QueueTypeOK'
  BY <1>13 DEF Finish, local, edge
<1>14. CASE Drop \/ Lost \/ Shutdown
  <2>1. \A n \in Nat : [t \in Subs |-> <<>>] \in Queues(n)
    BY EmptySeq DEF Queues
  <2> QED BY <1>14, <2>1 DEF Drop, Lost, Shutdown, EdgeGone, local
<1>15. CASE Open
  <2>1. \A t \in Subs : /\ queue[t] \in Seq(Items) /\ Len(queue[t]) <= MaxQueued
                        /\ Append(queue[t], Gap) \in Seq(Items)
                        /\ Len(queue[t]) < MaxQueued => Len(Append(queue[t], Gap)) <= MaxQueued
    <3> SUFFICES ASSUME NEW t \in Subs
                 PROVE  /\ queue[t] \in Seq(Items) /\ Len(queue[t]) <= MaxQueued
                        /\ Append(queue[t], Gap) \in Seq(Items)
                        /\ Len(queue[t]) < MaxQueued => Len(Append(queue[t], Gap)) <= MaxQueued
      OBVIOUS
    <3>1. queue[t] \in Seq(Items) /\ Gap \in Items /\ Len(queue[t]) <= MaxQueued
          /\ Len(queue[t]) \in Nat
      BY QueueOf
    <3> QED BY <3>1, ItemQueues
  <2>2. queue' \in Queues(MaxQueued)
    BY <1>15, <2>1 DEF Open, Told, Queues
  <2> QED BY <1>15, <2>2 DEF Open
<1> QED BY <1>3, <1>4, <1>5, <1>6, <1>7, <1>8, <1>9, <1>11, <1>12, <1>13, <1>14, <1>15 DEF Next

LEMMA StreamStep ==
  ASSUME FeedInv, [Next]_vars
  PROVE  StreamTypeOK' /\ Streams'
<1>1. /\ StreamTypeOK /\ Streams /\ via \in [Subs -> Loops]
      /\ wire \in [Subs -> Seq(Items)] /\ equeue \in [Subs -> Seq(Items)]
  BY DEF FeedInv, TypeOK, StageTypeOK, QueueTypeOK, Queues
<1>2. MaxLoops \in Nat \ {0} /\ Loops = 0..MaxLoops
  BY FeedAssumption DEF Loops
<1> USE <1>1, <1>2 DEF StreamTypeOK, Streams
<1>3. CASE UNCHANGED vars
  BY <1>3 DEF vars, client, local, edge
<1>4. ASSUME NEW s \in Subs, Subscribe(s) \/ PostSubscribe(s) \/ SubscribeDone(s)
      PROVE  StreamTypeOK' /\ Streams'
  <2>1. /\ UNCHANGED <<client, edge>>
        /\ \A t \in Subs : via'[t] \in {via[t], loop, 0}
    BY <1>4 DEF Subscribe, PostSubscribe, SubscribeDone
  <2>2. \A t \in Subs : via[t] <= loop /\ 0 <= loop /\ loop <= loop
    OBVIOUS
  <2>3. \A t \in Subs : via'[t] <= loop
    BY <2>1, <2>2
  <2> QED BY <2>1, <2>3 DEF client, edge
<1>5. ASSUME NEW s \in Subs, SubscribedAtEdge(s)
      PROVE  StreamTypeOK' /\ Streams'
  BY <1>5 DEF SubscribedAtEdge, client
<1>6. ASSUME NEW s \in Subs, SubscribeFails(s) \/ Unsubscribe(s)
      PROVE  StreamTypeOK' /\ Streams'
  <2>1. /\ UNCHANGED <<client, edge>>
        /\ \A t \in Subs : via'[t] \in {via[t], loop, 0}
    BY <1>6 DEF SubscribeFails, Unsubscribe
  <2>2. \A t \in Subs : via[t] <= loop /\ 0 <= loop /\ loop <= loop
    OBVIOUS
  <2>3. \A t \in Subs : via'[t] <= loop
    BY <2>1, <2>2
  <2> QED BY <2>1, <2>3 DEF client, edge
<1>7. ASSUME NEW s \in Subs, PostClose(s)
      PROVE  StreamTypeOK' /\ Streams'
  BY <1>7 DEF PostClose, client
<1>8. ASSUME NEW s \in Subs, Publish(s)
      PROVE  StreamTypeOK' /\ Streams'
  <2>1. /\ UNCHANGED <<client, local, open, held, wire>>
        /\ equeue' = equeue \/ (s \in held /\ \A t \in Subs \ {s} : equeue'[t] = equeue[t])
        /\ edropped' = edropped \/ (s \in held /\ edropped' = edropped \union {s})
    BY <1>8 DEF Publish
  <2> QED BY <2>1 DEF client, local
<1>9. ASSUME NEW s \in Subs, Write(s)
      PROVE  StreamTypeOK' /\ Streams'
  <2>1. /\ s \in held /\ UNCHANGED <<client, local, open, held>>
        /\ \A t \in Subs \ {s} : equeue'[t] = equeue[t]
        /\ edropped' = edropped \ {s}
    BY <1>9 DEF Write
  <2> QED BY <2>1 DEF client, local
<1>10. ASSUME NEW s \in Subs, Receive(s)
       PROVE  StreamTypeOK' /\ Streams'
  <2>1. up /\ UNCHANGED <<client, via, open, held, equeue, edropped>>
    BY <1>10 DEF Receive
  <2> QED BY <2>1 DEF client
<1>11. ASSUME NEW s \in Subs, Register(s)
       PROVE  StreamTypeOK' /\ Streams'
  BY <1>11 DEF Register, local, Known
<1>12. ASSUME NEW s \in Subs, Take(s) \/ Deliver(s)
       PROVE  StreamTypeOK' /\ Streams'
  <2>1. UNCHANGED <<client, via, edge>>
    BY <1>12 DEF Take, Deliver
  <2> QED BY <2>1 DEF client, edge
<1>13. ASSUME NEW k \in Loops, Finish(k)
       PROVE  StreamTypeOK' /\ Streams'
  BY <1>13 DEF Finish, edge, local
<1>14. CASE Drop
  BY <1>14 DEF Drop, EdgeGone, client, local
<1>17. CASE Lost
  <2>1. /\ up' = FALSE /\ loop' = loop + 1 /\ loop < MaxLoops /\ tried' = {}
        /\ open' = FALSE /\ held' = {} /\ edropped' = {}
        /\ equeue' = [s \in Subs |-> <<>>] /\ wire' = [s \in Subs |-> <<>>]
        /\ UNCHANGED <<closed, finished, via>>
    BY <1>17 DEF Lost, EdgeGone, local
  <2>2. loop' \in 1..MaxLoops /\ 1..loop \subseteq 1..loop' /\ loop <= loop'
    BY <2>1
  <2>3. \A s \in Subs : via'[s] <= loop'
    BY <2>1, <2>2
  <2> QED BY <2>1, <2>2, <2>3
<1>15. CASE Shutdown
  BY <1>15 DEF Shutdown, EdgeGone
<1>16. CASE Open
  BY <1>16 DEF Open
<1> QED BY <1>3, <1>4, <1>5, <1>6, <1>7, <1>8, <1>9, <1>10, <1>11, <1>12, <1>13, <1>14, <1>15,
           <1>16, <1>17 DEF Next

LEMMA StageTypeStep ==
  ASSUME FeedInv, [Next]_vars
  PROVE  StageTypeOK'
<1>1. StageTypeOK /\ StreamTypeOK
  BY DEF FeedInv, TypeOK
<1>2. 0 \in Loops /\ loop \in Loops
  BY FeedAssumption, <1>1 DEF Loops, StreamTypeOK
<1> USE <1>1, <1>2 DEF StageTypeOK, Known, Stages
<1>3. CASE UNCHANGED vars
  BY <1>3 DEF vars, local
<1>4. ASSUME NEW s \in Subs,
             Subscribe(s) \/ PostSubscribe(s) \/ SubscribeDone(s) \/ SubscribedAtEdge(s)
      PROVE  StageTypeOK'
  BY <1>4 DEF Subscribe, PostSubscribe, SubscribeDone, SubscribedAtEdge
<1>5. ASSUME NEW s \in Subs, SubscribeFails(s) \/ Unsubscribe(s) \/ PostClose(s)
      PROVE  StageTypeOK'
  BY <1>5 DEF SubscribeFails, Unsubscribe, PostClose, Forgotten
<1>6. ASSUME NEW s \in Subs, Publish(s) \/ Write(s) \/ Register(s)
      PROVE  StageTypeOK'
  BY <1>6 DEF Publish, Write, Register, local
<1>7. ASSUME NEW s \in Subs, Receive(s)
      PROVE  StageTypeOK'
  <2>1. /\ UNCHANGED <<stage, via, ready, awaits>>
        /\ \E S \in SUBSET Known : owed' = owed \union S
    BY <1>7 DEF Receive, Told
  <2> QED BY <2>1
<1>8. ASSUME NEW s \in Subs, Take(s) \/ Deliver(s)
      PROVE  StageTypeOK'
  <2>1. /\ UNCHANGED <<stage, via, ready>>
        /\ owed' = owed \/ owed' = owed \ {s}
        /\ \E l \in {ready[s], 0} : awaits' = [awaits EXCEPT ![s] = l]
    BY <1>8 DEF Take, Deliver, Awaited
  <2>2. \A l \in {ready[s], 0} : l \in Loops
    OBVIOUS
  <2>3. awaits' \in [Subs -> Loops]
    BY <2>1, <2>2
  <2> QED BY <2>1, <2>3
<1>9. ASSUME NEW k \in Loops, Finish(k)
      PROVE  StageTypeOK'
  BY <1>9 DEF Finish, local
<1>10. CASE Drop \/ Lost
  BY <1>10 DEF Drop, Lost, local
<1>11. CASE Open
  BY <1>11 DEF Open, Told
<1>12. CASE Shutdown
  BY <1>12 DEF Shutdown
<1> QED BY <1>3, <1>4, <1>5, <1>6, <1>7, <1>8, <1>9, <1>10, <1>11, <1>12 DEF Next

\* What is on its way was published, and the messages are numbered in turn.
LEMMA SentTypeStep ==
  ASSUME FeedInv, [Next]_vars
  PROVE  SentTypeOK'
<1>1. SentTypeOK /\ QueueTypeOK /\ \A s \in Subs : Numbered(s)
  BY DEF FeedInv, TypeOK, Placed
<1>2. MaxSent \in Nat /\ Items = 0..MaxSent
  BY FeedAssumption DEF Items
<1>3. \A s \in Subs : sent[s] \in Nat /\ sent[s] <= MaxSent
  BY <1>1, <1>2 DEF SentTypeOK
<1>4. \A s \in Subs :
        /\ Range(equeue[s]) \subseteq 1..sent[s]
        /\ Messages(wire[s]) \subseteq 1..sent[s]
        /\ wire[s] # <<>> => Head(wire[s]) \in 0..sent[s]
  <2> SUFFICES ASSUME NEW s \in Subs
               PROVE  /\ Range(equeue[s]) \subseteq 1..sent[s]
                      /\ Messages(wire[s]) \subseteq 1..sent[s]
                      /\ wire[s] # <<>> => Head(wire[s]) \in 0..sent[s]
    OBVIOUS
  <2>1. wire[s] \in Seq(Nat)
    BY Typed DEF FeedInv
  <2>2. wire[s] # <<>> => Head(wire[s]) \in Range(wire[s])
    BY <2>1, Removed
  <2>3. /\ Range(wire[s]) \subseteq 0..sent[s] /\ Range(equeue[s]) \subseteq 0..sent[s]
        /\ 0 \notin Range(equeue[s]) /\ sent[s] \in Nat
    BY <1>1, <1>3 DEF Numbered, Gap
  <2>4. Messages(wire[s]) \subseteq 1..sent[s] /\ Range(equeue[s]) \subseteq 1..sent[s]
    BY <2>3 DEF Messages, Gap
  <2> QED BY <2>2, <2>3, <2>4
<1> USE <1>1, <1>2 DEF SentTypeOK
<1>5. ASSUME UNCHANGED sent, \A s \in Subs : untold'[s] \subseteq 1..sent[s],
             untold' \in [Subs -> SUBSET Nat]
      PROVE  SentTypeOK'
  <2>1. \A s \in Subs : untold'[s] \subseteq Items
    BY <1>3, <1>5
  <2> QED BY <1>5, <2>1
<1>6. CASE UNCHANGED <<sent, untold>>
  BY <1>6
<1>7. ASSUME NEW s \in Subs, Publish(s)
      PROVE  SentTypeOK'
  <2>1. /\ sent' = [sent EXCEPT ![s] = sent[s] + 1] /\ sent[s] < MaxSent
        /\ \/ untold' = untold
           \/ untold' = [untold EXCEPT ![s] = untold[s] \union {sent[s] + 1}]
    BY <1>7 DEF Publish
  <2>2. sent[s] + 1 \in Items /\ sent[s] + 1 \in 1..(sent[s] + 1)
    BY <1>3, <2>1
  <2>3. \A t \in Subs : untold'[t] \subseteq 1..sent'[t] /\ untold'[t] \subseteq Items
    BY <1>3, <2>1, <2>2
  <2> QED BY <2>1, <2>2, <2>3
<1>8. ASSUME NEW s \in Subs, SubscribeFails(s) \/ Unsubscribe(s) \/ Deliver(s)
      PROVE  SentTypeOK'
  BY <1>8 DEF SubscribeFails, Unsubscribe, Forgotten, Deliver
<1>9. ASSUME NEW s \in Subs, Receive(s)
      PROVE  SentTypeOK'
  <2>1. /\ UNCHANGED sent
        /\ \/ untold' = untold
           \/ /\ untold' = [untold EXCEPT ![s] = untold[s] \union {Head(wire[s])}]
              /\ wire[s] # <<>> /\ Head(wire[s]) # Gap
    BY <1>9 DEF Receive
  <2>2. Head(wire[s]) # Gap /\ wire[s] # <<>> => Head(wire[s]) \in 1..sent[s]
    BY <1>3, <1>4 DEF Gap
  <2>3. \A t \in Subs : untold'[t] \subseteq 1..sent[t]
    BY <2>1, <2>2
  <2>4. untold' \in [Subs -> SUBSET Nat]
    BY <2>1, <2>2
  <2> QED BY <1>5, <2>1, <2>3, <2>4
<1>10. CASE Drop \/ Lost \/ Shutdown
  <2>1. /\ UNCHANGED sent
        /\ untold' = [s \in Subs |-> untold'[s]]
        /\ \A s \in Subs :
             untold'[s] \subseteq UNION {untold[s], Range(equeue[s]), Messages(wire[s])}
    BY <1>10 DEF Drop, Lost, Shutdown, Losing
  <2>2. \A s \in Subs : untold'[s] \subseteq 1..sent[s]
    BY <1>4, <2>1
  <2>3. \A s \in Subs : untold'[s] \subseteq Nat
    BY <2>2
  <2>4. untold' \in [Subs -> SUBSET Nat]
    BY <2>1, <2>3
  <2> QED BY <1>5, <2>1, <2>2, <2>4
<1> QED
  <2>1. CASE UNCHANGED vars
    BY <1>6, <2>1 DEF vars
  <2>2. ASSUME NEW s \in Subs,
               \/ Subscribe(s) \/ PostSubscribe(s) \/ SubscribedAtEdge(s) \/ SubscribeDone(s)
               \/ PostClose(s) \/ Write(s) \/ Register(s) \/ Take(s)
        PROVE  SentTypeOK'
    <3>1. UNCHANGED <<sent, untold>>
      BY <2>2 DEF Subscribe, PostSubscribe, SubscribedAtEdge, SubscribeDone, PostClose, Write,
         Register, Take
    <3> QED BY <1>6, <3>1
  <2>3. ASSUME NEW k \in Loops, Finish(k) PROVE SentTypeOK'
    BY <1>6, <2>3 DEF Finish
  <2>4. CASE Open
    BY <1>6, <2>4 DEF Open
  <2> QED BY <1>7, <1>8, <1>9, <1>10, <2>1, <2>2, <2>3, <2>4 DEF Next

LEMMA TypeStep ==
  ASSUME FeedInv, [Next]_vars
  PROVE  TypeOK' /\ Streams'
BY QueueTypeStep, StreamStep, StageTypeStep, SentTypeStep DEF TypeOK

-----------------------------------------------------------------------------
(* What a step leaves of each subscription.                                *)

InvAt(s) == Placed(s) /\ Gaps(s) /\ Flow(s)

\* A step of another subscription.
LEMMA Untouched ==
  ASSUME NEW s \in Subs, InvAt(s),
         stage'[s] = stage[s], via'[s] = via[s], ready'[s] = ready[s], awaits'[s] = awaits[s],
         queue'[s] = queue[s], hand'[s] = hand[s], wire'[s] = wire[s], equeue'[s] = equeue[s],
         sent'[s] = sent[s], untold'[s] = untold[s],
         s \in owed' <=> s \in owed, s \in held' <=> s \in held,
         s \in edropped' <=> s \in edropped, s \in tried' <=> s \in tried,
         UNCHANGED <<up, loop, finished>>
  PROVE  InvAt(s)'
<1>1. s \in Known' <=> s \in Known
  BY DEF Known
<1>2. GapPending(s)' <=> GapPending(s)
  BY DEF GapPending
<1>3. Placed(s)'
  BY <1>1 DEF InvAt, Placed, Numbered, Outside, Unheard, Posted
<1>4. Gaps(s)'
  BY <1>1, <1>2 DEF InvAt, Gaps, Missed, Outlasts, GapWaits, Noticed
<1>5. Flow(s)'
  BY <1>1, <1>2 DEF InvAt, Flow, Ordered, Warned
<1> QED BY <1>3, <1>4, <1>5 DEF InvAt

\* The queues of one subscription as before: what is said of them holds on.
LEMMA SameFlow ==
  ASSUME NEW s \in Subs, Flow(s), s \in Known' => s \in Known,
         queue'[s] = queue[s], hand'[s] = hand[s], wire'[s] = wire[s], equeue'[s] = equeue[s],
         untold'[s] = untold[s], s \in owed' <=> s \in owed, s \in edropped' <=> s \in edropped
  PROVE  Flow(s)'
BY DEF Flow, Ordered, Warned, GapPending

LEMMA SubscribeAt ==
  ASSUME FeedInv, NEW s \in Subs, Subscribe(s)
  PROVE  InvAt(s)'
<1>1. TypeOK /\ Streams /\ InvAt(s)
  BY DEF FeedInv, InvAt
<1>2. /\ stage[s] = "out" /\ stage'[s] = "calling"
      /\ UNCHANGED <<client, ready, queue, owed, hand, awaits, edge, sent, untold>>
  BY <1>1 DEF Subscribe, TypeOK, StageTypeOK
<1>3. s \notin Known /\ s \notin Known'
  BY <1>2 DEF Known
<1>4. Placed(s)'
  BY <1>1, <1>2, <1>3 DEF InvAt, Placed, Numbered, Outside, Unheard, Posted, client, edge
<1> QED BY <1>3, <1>4 DEF InvAt, Gaps, Flow, Missed, Outlasts, Noticed

LEMMA PostSubscribeAt ==
  ASSUME FeedInv, NEW s \in Subs, PostSubscribe(s)
  PROVE  InvAt(s)'
<1>1. TypeOK /\ Streams /\ InvAt(s)
  BY DEF FeedInv, InvAt
<1>2. /\ stage[s] = "calling" /\ stage'[s] = "posting" /\ via[s] \in finished
      /\ UNCHANGED <<client, via, ready, queue, owed, hand, awaits, edge, sent, untold>>
  BY <1>1 DEF PostSubscribe, TypeOK, StageTypeOK
<1>3. s \notin Known /\ s \in Known'
  BY <1>2 DEF Known
<1>4. /\ sent[s] = 0 /\ ready[s] = 0 /\ s \notin held /\ untold[s] = {}
      /\ hand[s] = <<>> /\ wire[s] = <<>> /\ queue[s] = <<>> /\ equeue[s] = <<>>
  BY <1>1, <1>2, <1>3 DEF InvAt, Placed, Outside, Streams
<1>5. loop # 0
  BY <1>1 DEF TypeOK, StreamTypeOK
<1>6. Placed(s)'
  BY <1>1, <1>2, <1>3, <1>4 DEF InvAt, Placed, Numbered, Outside, Unheard, Posted, client, edge
<1>7. Gaps(s)'
  BY <1>2, <1>4, <1>5 DEF Gaps, Missed, Outlasts, Noticed, client, edge
<1>8. Flow(s)'
  BY <1>2, <1>4, EmptyQueue DEF Flow, Ordered, Warned, Below, Messages, edge
<1> QED BY <1>6, <1>7, <1>8 DEF InvAt

LEMMA SubscribedAt ==
  ASSUME FeedInv, NEW s \in Subs, SubscribedAtEdge(s)
  PROVE  InvAt(s)'
<1>1. TypeOK /\ Streams /\ InvAt(s)
  BY DEF FeedInv, InvAt
<1>2. /\ stage[s] = "posting" /\ stage'[s] = "posted" /\ via[s] = loop
      /\ s \in held' /\ untold' = untold
      /\ UNCHANGED <<client, via, ready, queue, owed, hand, awaits, equeue, edropped, wire, sent>>
  BY <1>1 DEF SubscribedAtEdge, TypeOK, StageTypeOK
<1>3. s \in Known /\ s \in Known'
  BY <1>2 DEF Known
<1>4. loop \in finished /\ untold[s] = {}
  BY <1>1, <1>2 DEF InvAt, Placed, Posted
<1>5. Placed(s)'
  BY <1>1, <1>2, <1>3, <1>4 DEF InvAt, Placed, Numbered, Outside, Unheard, Posted, client
<1>6. Gaps(s)'
  BY <1>2, <1>4 DEF Gaps, Missed, Outlasts, Noticed, client
<1>7. Flow(s)'
  BY <1>1, <1>2, <1>3, SameFlow DEF InvAt
<1> QED BY <1>5, <1>6, <1>7 DEF InvAt

LEMMA SubscribeDoneAt ==
  ASSUME FeedInv, NEW s \in Subs, SubscribeDone(s)
  PROVE  InvAt(s)'
<1>1. TypeOK /\ Streams /\ InvAt(s)
  BY DEF FeedInv, InvAt
<1>2. /\ stage[s] = "posted" /\ stage'[s] = "in"
      /\ UNCHANGED <<client, ready, queue, owed, hand, awaits, edge, untold, sent>>
  BY <1>1 DEF SubscribeDone, TypeOK, StageTypeOK
<1>3. s \in Known /\ s \in Known'
  BY <1>2 DEF Known
<1>4. Placed(s)'
  BY <1>1, <1>2, <1>3 DEF InvAt, Placed, Numbered, Outside, Unheard, Posted, client, edge
<1>5. Gaps(s)'
  BY <1>1, <1>2, <1>3 DEF InvAt, Gaps, Missed, Outlasts, GapWaits, Noticed, GapPending, client, edge
<1>6. Flow(s)'
  BY <1>1, <1>2, <1>3, SameFlow DEF InvAt, edge
<1> QED BY <1>4, <1>5, <1>6 DEF InvAt

LEMMA ForgottenAt ==
  ASSUME FeedInv, NEW s \in Subs, SubscribeFails(s) \/ Unsubscribe(s)
  PROVE  InvAt(s)'
<1>1. TypeOK /\ Streams /\ InvAt(s)
  BY DEF FeedInv, InvAt
<1>2. /\ stage[s] \in {"posting", "posted", "in"} /\ stage'[s] = "leaving"
      /\ queue'[s] = <<>> /\ untold'[s] = {}
      /\ UNCHANGED <<client, ready, hand, awaits, edge, sent>>
  BY <1>1 DEF SubscribeFails, Unsubscribe, Forgotten, TypeOK, StageTypeOK, QueueTypeOK, Queues,
     SentTypeOK
<1>3. s \notin Known'
  BY <1>2 DEF Known
<1>4. Placed(s)'
  BY <1>1, <1>2, <1>3, EmptyQueue DEF InvAt, Placed, Numbered, Outside, Unheard, Posted, client,
     edge
<1> QED BY <1>3, <1>4 DEF InvAt, Gaps, Flow, Missed, Outlasts, Noticed

LEMMA PostCloseAt ==
  ASSUME FeedInv, NEW s \in Subs, PostClose(s)
  PROVE  InvAt(s)'
<1>1. TypeOK /\ Streams /\ InvAt(s)
  BY DEF FeedInv, InvAt
<1>2. /\ stage[s] = "leaving" /\ stage'[s] = "left"
      /\ s \in held' => s \in held
      /\ equeue'[s] \in {equeue[s], <<>>}
      /\ UNCHANGED <<client, ready, queue, owed, hand, awaits, wire, sent, untold>>
  BY <1>1 DEF PostClose, TypeOK, StageTypeOK, QueueTypeOK, Queues
<1>3. s \notin Known /\ s \notin Known'
  BY <1>2 DEF Known
<1>4. Placed(s)'
  BY <1>1, <1>2, <1>3, EmptyQueue DEF InvAt, Placed, Numbered, Outside, Unheard, Posted, client
<1> QED BY <1>3, <1>4 DEF InvAt, Gaps, Flow, Missed, Outlasts, Noticed

LEMMA RegisterAt ==
  ASSUME FeedInv, NEW s \in Subs, Register(s)
  PROVE  InvAt(s)'
<1>1. TypeOK /\ Streams /\ InvAt(s)
  BY DEF FeedInv, InvAt
<1>2. /\ up /\ loop \notin finished /\ s \in Known /\ s \notin tried /\ s \in tried'
      /\ UNCHANGED <<loop, up, finished, local, equeue, edropped, wire, sent, untold>>
  BY DEF Register
<1>3. s \in Known'
  BY <1>2 DEF Known, local
<1>4. stage[s] = "posting" => via[s] # loop
  BY <1>1, <1>2 DEF InvAt, Placed, Posted
<1>5. Placed(s)'
  BY <1>1, <1>2, <1>3, <1>4 DEF InvAt, Placed, Numbered, Outside, Unheard, Posted, local, Known
<1>6. GapWaits(s) => GapPending(s)
  <2>1. hand[s] # <<>> => Range(hand[s]) = {Head(hand[s])} \union Range(Tail(hand[s]))
    BY <1>1, Typed, Removed
  <2> QED BY <2>1 DEF GapWaits, GapPending
<1>7. untold[s] # {} => GapPending(s)
  BY <1>1, <1>2, <1>6 DEF InvAt, Gaps, Missed, Outlasts
<1>8. Gaps(s)'
  BY <1>1, <1>2, <1>3, <1>7 DEF InvAt, Gaps, Missed, Outlasts, GapWaits, Noticed, GapPending, local
<1>9. Flow(s)'
  BY <1>1, <1>2, <1>3, SameFlow DEF InvAt, local
<1> QED BY <1>5, <1>8, <1>9 DEF InvAt

LEMMA PublishAt ==
  ASSUME FeedInv, NEW s \in Subs, Publish(s)
  PROVE  InvAt(s)'
<1> DEFINE n == sent[s] + 1
<1>1. TypeOK /\ Streams /\ InvAt(s) /\ n \in Nat
  BY Typed DEF FeedInv, InvAt
<1>2. /\ s \in Known /\ s \in Known' /\ sent'[s] = n
      /\ UNCHANGED <<client, local, held, wire>>
      /\ s \in edropped => s \in edropped'
  BY <1>1 DEF Publish, TypeOK, SentTypeOK, Known, local
<1>3. \/ /\ s \in held /\ equeue'[s] = Append(equeue[s], n) /\ untold'[s] = untold[s]
      \/ /\ s \in held /\ s \in edropped'
         /\ equeue'[s] = equeue[s] /\ untold'[s] = untold[s] \union {n}
      \/ /\ stage[s] = "in" /\ equeue'[s] = equeue[s] /\ untold'[s] = untold[s] \union {n}
         /\ s \notin held
      \/ equeue'[s] = equeue[s] /\ untold'[s] = untold[s]
  BY <1>1 DEF Publish, TypeOK, QueueTypeOK, Queues, SentTypeOK
<1>4. /\ hand[s] \in Seq(Nat) /\ queue[s] \in Seq(Nat) /\ wire[s] \in Seq(Nat)
      /\ equeue[s] \in Seq(Nat) /\ untold[s] \in SUBSET Nat /\ sent[s] \in Nat
  BY <1>1, Typed
<1>5. \A q \in {hand[s], queue[s], wire[s], equeue[s]} : \A m \in Messages(q) : m < n
  <2>1. \A q \in {hand[s], queue[s], wire[s], equeue[s]} : Range(q) \subseteq 0..sent[s]
    BY <1>1 DEF InvAt, Placed, Numbered
  <2>2. \A m \in 0..sent[s] : m < n
    BY <1>4
  <2> QED BY <2>1, <2>2 DEF Messages
<1>6. /\ Range(Append(equeue[s], n)) = Range(equeue[s]) \union {n}
      /\ Sorted(equeue[s]) => Sorted(Append(equeue[s], n))
      /\ \A lost \in SUBSET Nat :
           Covered(equeue[s], lost) /\ (Gap \in Range(equeue[s]) \/ \A m \in lost : n < m)
             => Covered(Append(equeue[s], n), lost)
  BY <1>1, <1>4, <1>5, Appended
<1>7. \A q \in {hand[s], queue[s], wire[s], equeue[s]} :
        Covered(q, untold[s]) => Covered(q, untold[s] \union {n})
  BY <1>1, <1>4, <1>5, MoreLost
<1>8. 0..sent[s] \subseteq 0..n /\ n \in 0..n /\ n # Gap
  BY <1>1, <1>4 DEF Gap
<1> HIDE DEF n
<1>9. Numbered(s)'
  <2>1. Range(equeue'[s]) \subseteq Range(equeue[s]) \union {n}
    BY <1>3, <1>6
  <2> QED BY <1>1, <1>2, <1>8, <2>1 DEF InvAt, Placed, Numbered, local
<1>10. Placed(s)'
  BY <1>1, <1>2, <1>3, <1>9 DEF InvAt, Placed, Outside, Unheard, Posted, client, local, Known
<1>11. GapPending(s)' <=> GapPending(s)
  BY <1>2 DEF GapPending, local
<1>12. Gaps(s)'
  BY <1>1, <1>2, <1>3, <1>11 DEF InvAt, Placed, Unheard, Gaps, Missed, Outlasts, GapWaits,
     Noticed, client, local
<1>13. Ordered(s)'
  <2>1. Ordered(s)
    BY <1>1, <1>2 DEF InvAt, Flow
  <2>2. Messages(equeue'[s]) \subseteq Messages(equeue[s]) \union {n}
    BY <1>3, <1>6 DEF Messages
  <2>3. Sorted(equeue'[s])
    BY <1>3, <1>6, <2>1 DEF Ordered
  <2> QED BY <1>2, <1>5, <2>1, <2>2, <2>3 DEF Ordered, Below, local
<1>14. Warned(s)'
  <2>1. Warned(s)
    BY <1>1, <1>2 DEF InvAt, Flow
  <2>2. /\ Covered(hand[s], untold[s]) => Covered(hand[s], untold'[s])
        /\ Covered(queue[s], untold[s]) => Covered(queue[s], untold'[s])
        /\ Covered(wire[s], untold[s]) => Covered(wire[s], untold'[s])
        /\ Covered(equeue[s], untold[s]) => Covered(equeue[s], untold'[s])
    BY <1>3, <1>7
  <2>3. CASE equeue'[s] = equeue[s]
    BY <1>2, <1>11, <2>1, <2>2, <2>3 DEF Warned, local
  <2>4. CASE s \in held /\ equeue'[s] = Append(equeue[s], n) /\ untold'[s] = untold[s]
    <3>1. \/ GapPending(s) \/ Gap \in Range(wire[s]) \/ s \in edropped
          \/ untold[s] = {}
      BY <1>1, <1>2, <2>4 DEF InvAt, Gaps, Noticed
    <3>2. untold[s] = {} => Covered(equeue'[s], untold'[s])
      BY <2>4, NothingLost
    <3> QED BY <1>2, <1>11, <2>1, <2>2, <2>4, <3>1, <3>2 DEF Warned, local
  <2> QED BY <1>3, <2>3, <2>4
<1> QED BY <1>10, <1>12, <1>13, <1>14 DEF InvAt, Flow

LEMMA WriteAt ==
  ASSUME FeedInv, NEW s \in Subs, Write(s)
  PROVE  InvAt(s)'
<1> DEFINE h == Head(equeue[s])
<1>1. TypeOK /\ Streams /\ InvAt(s) /\ QueueTypeOK
  BY DEF FeedInv, InvAt, TypeOK
<1>2. /\ equeue[s] # <<>> /\ equeue'[s] = Tail(equeue[s])
      /\ s \in held /\ s \notin edropped'
      /\ UNCHANGED <<client, local, held, sent, untold>>
  BY <1>1 DEF Write, QueueTypeOK, Queues, Streams
<1>3. /\ s \in edropped => wire'[s] = Append(Append(wire[s], Gap), h)
      /\ s \notin edropped => wire'[s] = Append(wire[s], h)
  BY <1>1, Written
<1>4. /\ hand[s] \in Seq(Nat) /\ queue[s] \in Seq(Nat) /\ wire[s] \in Seq(Nat)
      /\ equeue[s] \in Seq(Nat) /\ untold[s] \in SUBSET Nat /\ sent[s] \in Nat /\ Gap \in Nat
  BY <1>1, Typed DEF Gap
<1>5. /\ Range(equeue[s]) = {h} \union Range(equeue'[s]) /\ h \in Nat
      /\ Sorted(equeue[s]) /\ h # Gap =>
           Sorted(equeue'[s]) /\ \A m \in Messages(equeue'[s]) : h < m
      /\ Covered(equeue[s], untold[s]) /\ h # Gap =>
           Covered(equeue'[s], untold[s]) /\ \A m \in untold[s] : h < m
  <2>1. h \in Range(equeue[s]) /\ Range(equeue[s]) \subseteq Nat
    BY <1>2, <1>4, Removed, InRange
  <2>2. /\ Range(equeue[s]) = {h} \union Range(Tail(equeue[s]))
        /\ Sorted(equeue[s]) => /\ Sorted(Tail(equeue[s]))
                                /\ h # Gap => \A m \in Messages(Tail(equeue[s])) : h < m
        /\ Covered(equeue[s], untold[s]) /\ h # Gap => /\ \A m \in untold[s] : h < m
                                                      /\ Covered(Tail(equeue[s]), untold[s])
    BY <1>2, <1>4, Removed
  <2> HIDE DEF h
  <2> QED BY <1>2, <2>1, <2>2
<1>6. h # Gap
  BY <1>1, <1>5 DEF InvAt, Placed, Numbered
<1> HIDE DEF h
<1>7. /\ Append(wire[s], Gap) \in Seq(Nat)
      /\ Range(Append(wire[s], Gap)) = Range(wire[s]) \union {Gap}
      /\ Sorted(wire[s]) => Sorted(Append(wire[s], Gap))
      /\ Covered(wire[s], untold[s]) => Covered(Append(wire[s], Gap), untold[s])
  <2>1. Append(wire[s], Gap) \in Seq(Nat)
    BY <1>4, AppendProperties
  <2>2. Range(Append(wire[s], Gap)) = Range(wire[s]) \union {Gap}
    BY <1>4, Appended
  <2>3. Sorted(wire[s]) => Sorted(Append(wire[s], Gap))
    BY <1>4, Appended
  <2>4. Covered(wire[s], untold[s]) => Covered(Append(wire[s], Gap), untold[s])
    BY <1>4, Appended
  <2> QED BY <2>1, <2>2, <2>3, <2>4
<1>8. /\ Range(wire'[s]) = Range(wire[s]) \union {h} \union (IF s \in edropped THEN {Gap} ELSE {})
      /\ Sorted(wire[s]) /\ (\A m \in Messages(wire[s]) : m < h) => Sorted(wire'[s])
      /\ /\ Covered(wire[s], untold[s])
         /\ s \in edropped \/ Gap \in Range(wire[s]) \/ \A m \in untold[s] : h < m
         => Covered(wire'[s], untold[s])
  <2>1. CASE s \in edropped
    <3>1. Messages(Append(wire[s], Gap)) = Messages(wire[s])
      BY <1>7 DEF Messages
    <3> DEFINE w == Append(wire[s], Gap)
    <3>2. w \in Seq(Nat) /\ wire'[s] = Append(w, h)
      BY <1>3, <1>7, <2>1
    <3>3. Gap \in Range(w)
      BY <1>7
    <3> HIDE DEF w
    <3>4. Range(wire'[s]) = Range(w) \union {h}
      BY <1>4, <1>5, <3>2, Appended
    <3>5. Sorted(w) /\ (\A m \in Messages(w) : m < h) => Sorted(wire'[s])
      BY <1>4, <1>5, <3>2, Appended
    <3>6. Covered(w, untold[s]) => Covered(wire'[s], untold[s])
      BY <1>4, <1>5, <3>2, <3>3, Appended
    <3> QED BY <1>7, <2>1, <3>1, <3>4, <3>5, <3>6 DEF w
  <2>2. CASE s \notin edropped
    BY <1>3, <1>4, <1>5, <2>2, Appended
  <2> QED BY <2>1, <2>2
<1>9. Known' = Known /\ (GapPending(s)' <=> GapPending(s))
  BY <1>2 DEF Known, local, GapPending
<1>10. Placed(s)'
  BY <1>1, <1>2, <1>5, <1>8, <1>9, <1>4 DEF InvAt, Placed, Numbered, Outside, Unheard, Posted,
     client, local, Gap
<1>11. Gaps(s)'
  BY <1>1, <1>2, <1>8, <1>9 DEF InvAt, Gaps, Missed, Outlasts, GapWaits, Noticed, client, local
<1>12. ASSUME s \in Known PROVE Ordered(s)'
  <2>1. Ordered(s)
    BY <1>1, <1>12 DEF InvAt, Flow
  <2>2. /\ Messages(wire'[s]) = Messages(wire[s]) \union {h}
        /\ Messages(equeue[s]) = Messages(equeue'[s]) \union {h}
    BY <1>5, <1>6, <1>8 DEF Messages
  <2>3. \A m \in Messages(wire[s]) : m < h
    BY <2>1, <2>2 DEF Ordered, Below
  <2>4. Sorted(wire'[s]) /\ Sorted(equeue'[s]) /\ \A m \in Messages(equeue'[s]) : h < m
    BY <1>5, <1>6, <1>8, <2>1, <2>3 DEF Ordered
  <2>5. Below(wire'[s], equeue'[s])
    BY <2>1, <2>2, <2>4 DEF Ordered, Below
  <2> QED BY <1>2, <2>1, <2>2, <2>4, <2>5 DEF Ordered, Below, local
<1>13. ASSUME s \in Known PROVE Warned(s)'
  <2>1. Warned(s)
    BY <1>1, <1>13 DEF InvAt, Flow
  <2>2. GapPending(s) \/ Covered(wire'[s], untold[s])
    BY <1>5, <1>6, <1>8, <2>1 DEF Warned
  <2>3. GapPending(s) \/ Gap \in Range(wire'[s]) \/ Covered(equeue'[s], untold[s])
    BY <1>5, <1>6, <1>8, <2>1 DEF Warned
  <2> QED BY <1>2, <1>9, <2>1, <2>2, <2>3 DEF Warned, local
<1> QED BY <1>9, <1>10, <1>11, <1>12, <1>13 DEF InvAt, Flow

LEMMA ReceiveAt ==
  ASSUME FeedInv, NEW s \in Subs, Receive(s)
  PROVE  InvAt(s)'
<1> DEFINE h == Head(wire[s])
<1>1. TypeOK /\ Streams /\ InvAt(s)
  BY DEF FeedInv, InvAt
<1>2. /\ up /\ wire[s] # <<>> /\ wire'[s] = Tail(wire[s])
      /\ UNCHANGED <<client, stage, via, ready, hand, awaits, open, held, equeue, edropped, sent>>
  BY <1>1 DEF Receive, TypeOK, QueueTypeOK, Queues
<1>3. \/ /\ s \notin Known
         /\ queue'[s] = queue[s] /\ untold'[s] = untold[s] /\ (s \in owed' <=> s \in owed)
      \/ /\ s \in Known /\ queue'[s] = Append(queue[s], h)
         /\ untold'[s] = untold[s] /\ (s \in owed' <=> s \in owed)
      \/ /\ s \in Known /\ queue'[s] = queue[s] /\ s \in owed'
         /\ untold'[s] = untold[s] \union ({h} \ {Gap})
  <2>1. /\ queue'[s] = IF s \in Known /\ Len(queue[s]) < MaxQueued
                       THEN Append(queue[s], h) ELSE queue[s]
        /\ owed' = owed \union {t \in {s} \intersect Known : Len(queue[t]) = MaxQueued}
        /\ untold'[s] = IF s \in Known /\ h # Gap /\ Len(queue[s]) = MaxQueued
                        THEN untold[s] \union {h} ELSE untold[s]
    BY <1>1 DEF Receive, Told, TypeOK, SentTypeOK
  <2>2. (Len(queue[s]) < MaxQueued /\ Len(queue[s]) # MaxQueued) \/ Len(queue[s]) = MaxQueued
    <3>1. queue \in Queues(MaxQueued) /\ MaxQueued \in Nat
      BY <1>1, FeedAssumption DEF TypeOK, QueueTypeOK
    <3>2. Len(queue[s]) <= MaxQueued /\ Len(queue[s]) \in Nat
      BY <3>1, QueueOf
    <3> QED BY <3>1, <3>2
  <2> HIDE DEF h
  <2> QED BY <2>1, <2>2
<1>4. /\ hand[s] \in Seq(Nat) /\ queue[s] \in Seq(Nat) /\ wire[s] \in Seq(Nat)
      /\ equeue[s] \in Seq(Nat) /\ untold[s] \in SUBSET Nat /\ sent[s] \in Nat
  BY <1>1, Typed
<1>5. /\ Range(wire[s]) = {h} \union Range(wire'[s]) /\ h \in Nat
      /\ Sorted(wire[s]) => /\ Sorted(wire'[s])
                            /\ h # Gap => \A m \in Messages(wire'[s]) : h < m
      /\ Covered(wire[s], untold[s]) /\ h # Gap => /\ \A m \in untold[s] : h < m
                                                   /\ Covered(wire'[s], untold[s])
  <2>1. h \in Range(wire[s]) /\ Range(wire[s]) \subseteq Nat
    BY <1>2, <1>4, Removed, InRange
  <2>2. /\ Range(wire[s]) = {h} \union Range(Tail(wire[s]))
        /\ Sorted(wire[s]) => /\ Sorted(Tail(wire[s]))
                              /\ h # Gap => \A m \in Messages(Tail(wire[s])) : h < m
        /\ Covered(wire[s], untold[s]) /\ h # Gap => /\ \A m \in untold[s] : h < m
                                                     /\ Covered(Tail(wire[s]), untold[s])
    BY <1>2, <1>4, Removed
  <2> HIDE DEF h
  <2> QED BY <1>2, <2>1, <2>2
<1> HIDE DEF h
<1>6. /\ Range(Append(queue[s], h)) = Range(queue[s]) \union {h}
      /\ Sorted(queue[s]) /\ (h = Gap \/ \A m \in Messages(queue[s]) : m < h)
           => Sorted(Append(queue[s], h))
      /\ /\ Covered(queue[s], untold[s])
         /\ h = Gap \/ Gap \in Range(queue[s]) \/ \A m \in untold[s] : h < m
         => Covered(Append(queue[s], h), untold[s])
  BY <1>4, <1>5, Appended
<1>7. s \in Known' <=> s \in Known
  BY <1>2 DEF Known
<1>8. /\ Range(queue'[s]) \subseteq Range(queue[s]) \union {h}
      /\ Range(queue[s]) \subseteq Range(queue'[s])
  BY <1>3, <1>6
<1>9. h \in 0..sent[s]
  BY <1>1, <1>5 DEF InvAt, Placed, Numbered
<1>10. Placed(s)'
  <2>1. Numbered(s)'
    BY <1>1, <1>2, <1>5, <1>8, <1>9 DEF InvAt, Placed, Numbered
  <2> QED BY <1>1, <1>2, <1>3, <1>7, <2>1 DEF InvAt, Placed, Outside, Unheard, Posted, client, Known
<1>11. /\ GapPending(s) => GapPending(s)'
       /\ s \in Known /\ h = Gap => GapPending(s)'
       /\ s \in Known /\ untold'[s] # untold[s] => GapPending(s)'
  BY <1>2, <1>3, <1>6, <1>8 DEF GapPending
<1>12. s \in Known /\ GapWaits(s) => GapWaits(s)'
  BY <1>2, <1>3, <1>8 DEF GapWaits, client
<1>13. Gaps(s)'
  <2>1. Missed(s)'
    BY <1>1, <1>2, <1>3, <1>7 DEF InvAt, Gaps, Missed, Placed, Unheard, client
  <2>2. Outlasts(s)'
    BY <1>1, <1>2, <1>7, <1>12 DEF InvAt, Gaps, Outlasts, client
  <2>3. Noticed(s)'
    BY <1>1, <1>2, <1>5, <1>7, <1>11 DEF InvAt, Gaps, Noticed
  <2> QED BY <2>1, <2>2, <2>3 DEF Gaps
<1>14. ASSUME s \in Known PROVE Ordered(s)'
  <2>1. Ordered(s)
    BY <1>1, <1>14 DEF InvAt, Flow
  <2>2. /\ Messages(wire[s]) = Messages(wire'[s]) \union ({h} \ {Gap})
        /\ Messages(queue'[s]) \subseteq Messages(queue[s]) \union ({h} \ {Gap})
    BY <1>5, <1>8 DEF Messages
  <2>3. h = Gap \/ \A m \in Messages(queue[s]) : m < h
    BY <2>1, <2>2 DEF Ordered, Below
  <2>4. Sorted(wire'[s]) /\ (h # Gap => \A m \in Messages(wire'[s]) : h < m)
    BY <1>5, <2>1 DEF Ordered
  <2>5. Sorted(queue'[s])
    BY <1>3, <1>6, <2>1, <2>3 DEF Ordered
  <2>6. Below(queue'[s], wire'[s]) /\ Below(hand[s], queue'[s]) /\ Below(queue'[s], equeue[s])
        /\ Below(hand[s], wire'[s]) /\ Below(wire'[s], equeue[s])
    BY <2>1, <2>2, <2>4 DEF Ordered, Below
  <2> QED BY <1>2, <2>1, <2>4, <2>5, <2>6 DEF Ordered
<1>15. ASSUME s \in Known PROVE Warned(s)'
  <2>1. Warned(s) /\ Ordered(s)
    BY <1>1, <1>15 DEF InvAt, Flow
  <2>2. Covered(hand[s], untold'[s])
    <3>1. CASE untold'[s] = untold[s]
      BY <2>1, <3>1 DEF Warned
    <3>2. CASE untold'[s] = untold[s] \union ({h} \ {Gap})
      <4>1. \A m \in Messages(hand[s]), n \in {h} \ {Gap} : m < n
        BY <1>5, <2>1 DEF Ordered, Below, Messages
      <4>2. {h} \ {Gap} \in SUBSET Nat
        BY <1>5
      <4> QED BY <1>4, <2>1, <3>2, <4>1, <4>2, MoreLost DEF Warned
    <3> QED BY <1>3, <3>1, <3>2
  <2>3. Gap \in Range(hand[s]) \/ s \in owed' \/ Covered(queue'[s], untold'[s])
    <3>1. CASE s \in owed'
      BY <3>1
    <3>2. CASE s \notin owed' /\ s \notin owed /\ queue'[s] = Append(queue[s], h)
               /\ untold'[s] = untold[s]
      <4>1. \/ Gap \in Range(hand[s]) \/ Gap \in Range(queue[s])
            \/ h = Gap \/ \A m \in untold[s] : h < m
        BY <1>5, <2>1, <3>2 DEF Warned, GapPending
      <4> QED BY <1>6, <2>1, <3>2, <4>1 DEF Warned
    <3> QED BY <1>3, <1>15, <3>1, <3>2
  <2>4. GapPending(s)' \/ Covered(wire'[s], untold'[s])
    BY <1>5, <1>11, <1>15, <2>1 DEF Warned
  <2>5. \/ GapPending(s)' \/ Gap \in Range(wire'[s])
        \/ s \in edropped \/ Covered(equeue[s], untold'[s])
    BY <1>5, <1>11, <1>15, <2>1 DEF Warned
  <2> QED BY <1>2, <2>2, <2>3, <2>4, <2>5 DEF Warned
<1> QED BY <1>7, <1>10, <1>13, <1>14, <1>15 DEF InvAt, Flow

LEMMA TakeAt ==
  ASSUME FeedInv, NEW s \in Subs, Take(s)
  PROVE  InvAt(s)'
<1> DEFINE h == Head(queue[s])
<1>1. TypeOK /\ Streams /\ InvAt(s) /\ QueueTypeOK
  BY DEF FeedInv, InvAt, TypeOK
<1>2. /\ hand[s] = <<>> /\ queue[s] # <<>> /\ queue'[s] = Tail(queue[s]) /\ s \notin owed'
      /\ UNCHANGED <<client, stage, via, ready, edge, sent, untold>>
  BY <1>1 DEF Take, QueueTypeOK, Queues
<1>3. /\ s \in owed => hand'[s] = <<Gap, h>>
      /\ s \notin owed => hand'[s] = <<h>>
  BY <1>1, Taken
<1>4. /\ s \in owed \/ h = Gap => awaits'[s] = ready[s]
  <2>1. \E items : /\ awaits' = [awaits EXCEPT ![s] = Awaited(s, items)]
                   /\ hand' = [hand EXCEPT ![s] = items]
    BY DEF Take
  <2>2. awaits'[s] = Awaited(s, hand'[s])
    BY <1>1, <2>1 DEF TypeOK, StageTypeOK, QueueTypeOK, Queues
  <2> QED BY <1>3, <2>2 DEF Awaited
<1>5. /\ wire[s] \in Seq(Nat) /\ queue[s] \in Seq(Nat)
      /\ equeue[s] \in Seq(Nat) /\ untold[s] \in SUBSET Nat /\ sent[s] \in Nat
  BY <1>1, Typed
<1>6. /\ Range(queue[s]) = {h} \union Range(queue'[s]) /\ h \in Nat
      /\ Sorted(queue[s]) => /\ Sorted(queue'[s])
                             /\ h # Gap => \A m \in Messages(queue'[s]) : h < m
      /\ Covered(queue[s], untold[s]) /\ h # Gap => /\ \A m \in untold[s] : h < m
                                                    /\ Covered(queue'[s], untold[s])
  <2>1. h \in Range(queue[s]) /\ Range(queue[s]) \subseteq Nat
    BY <1>2, <1>5, Removed, InRange
  <2>2. /\ Range(queue[s]) = {h} \union Range(Tail(queue[s]))
        /\ Sorted(queue[s]) => /\ Sorted(Tail(queue[s]))
                               /\ h # Gap => \A m \in Messages(Tail(queue[s])) : h < m
        /\ Covered(queue[s], untold[s]) /\ h # Gap => /\ \A m \in untold[s] : h < m
                                                      /\ Covered(Tail(queue[s]), untold[s])
    BY <1>2, <1>5, Removed
  <2> HIDE DEF h
  <2> QED BY <1>2, <2>1, <2>2
<1> HIDE DEF h
<1>7. /\ Range(<<h>>) = {h} /\ Range(<<Gap, h>>) = {Gap, h}
      /\ Sorted(<<h>>) /\ Sorted(<<Gap, h>>)
      /\ Covered(<<Gap, h>>, untold[s])
      /\ h = Gap \/ (\A m \in untold[s] : h < m) => Covered(<<h>>, untold[s])
  BY <1>6 DEF Range, Sorted, Covered
<1>8. /\ Range(hand'[s]) = {h} \union (IF s \in owed THEN {Gap} ELSE {})
      /\ Sorted(hand'[s])
      /\ Gap \in Range(hand'[s]) \/ (\A m \in untold[s] : h < m) => Covered(hand'[s], untold[s])
      /\ hand'[s] # <<>>
      /\ s \in owed \/ h = Gap => Head(hand'[s]) = Gap
  BY <1>3, <1>7
<1>9. (s \in Known' <=> s \in Known) /\ (GapPending(s) => GapPending(s)')
  BY <1>2, <1>6, <1>8, EmptyQueue DEF Known, GapPending
<1>10. GapWaits(s) /\ ready[s] = loop => GapWaits(s)'
  BY <1>2, <1>4, <1>6, <1>8 DEF GapWaits, client
<1>11. h \in 0..sent[s] /\ Gap \in 0..sent[s]
  BY <1>1, <1>5, <1>6 DEF InvAt, Placed, Numbered, Gap
<1>12. Placed(s)'
  <2>1. Numbered(s)'
    BY <1>1, <1>2, <1>6, <1>8, <1>11 DEF InvAt, Placed, Numbered, edge
  <2>2. s \in Known
    BY <1>1, <1>2 DEF InvAt, Placed, Outside
  <2> QED BY <1>1, <1>2, <1>9, <2>1, <2>2 DEF InvAt, Placed, Outside, Unheard, Posted, client, edge,
       Known
<1>13. Gaps(s)'
  BY <1>1, <1>2, <1>9, <1>10 DEF InvAt, Gaps, Missed, Outlasts, Noticed, client, edge
<1>14. ASSUME s \in Known PROVE Ordered(s)'
  <2>1. Ordered(s)
    BY <1>1, <1>14 DEF InvAt, Flow
  <2>2. /\ Messages(queue[s]) = Messages(queue'[s]) \union ({h} \ {Gap})
        /\ Messages(hand'[s]) = {h} \ {Gap}
    BY <1>6, <1>8 DEF Messages
  <2>3. Sorted(queue'[s]) /\ (h # Gap => \A m \in Messages(queue'[s]) : h < m)
    BY <1>6, <2>1 DEF Ordered
  <2>4. /\ Below(hand'[s], queue'[s]) /\ Below(hand'[s], wire[s]) /\ Below(hand'[s], equeue[s])
        /\ Below(queue'[s], wire[s]) /\ Below(queue'[s], equeue[s])
    BY <2>1, <2>2, <2>3 DEF Ordered, Below
  <2> QED BY <1>2, <1>8, <2>1, <2>3, <2>4 DEF Ordered, edge
<1>15. ASSUME s \in Known PROVE Warned(s)'
  <2>1. Warned(s)
    BY <1>1, <1>15 DEF InvAt, Flow
  <2>2. Gap \notin Range(hand[s])
    BY <1>2, EmptyQueue
  <2>3. Covered(hand'[s], untold[s])
    BY <1>6, <1>8, <2>1, <2>2 DEF Warned
  <2>4. Gap \in Range(hand'[s]) \/ Covered(queue'[s], untold[s])
    BY <1>6, <1>8, <2>1, <2>2 DEF Warned
  <2> QED BY <1>2, <1>9, <2>1, <2>3, <2>4 DEF Warned, edge
<1> QED BY <1>9, <1>12, <1>13, <1>14, <1>15 DEF InvAt, Flow

LEMMA DeliverAt ==
  ASSUME FeedInv, NEW s \in Subs, Deliver(s)
  PROVE  InvAt(s)'
<1> DEFINE h == Head(hand[s])
<1>1. TypeOK /\ Streams /\ InvAt(s)
  BY DEF FeedInv, InvAt
<1>2. /\ hand[s] # <<>> /\ hand'[s] = Tail(hand[s]) /\ awaits[s] \in finished \union {0}
      /\ untold'[s] = IF h = Gap THEN {} ELSE untold[s]
      /\ awaits'[s] = Awaited(s, hand'[s])
      /\ UNCHANGED <<client, stage, via, ready, queue, owed, edge, sent>>
  BY <1>1 DEF Deliver, TypeOK, StageTypeOK, QueueTypeOK, Queues, SentTypeOK
<1>3. /\ hand[s] \in Seq(Nat) /\ untold[s] \in SUBSET Nat /\ hand'[s] \in Seq(Nat)
  BY <1>1, <1>2, Typed, Removed
<1>4. /\ Range(hand[s]) = {h} \union Range(hand'[s])
      /\ Sorted(hand[s]) => Sorted(hand'[s])
      /\ Covered(hand[s], untold[s]) /\ h # Gap => Covered(hand'[s], untold[s])
      /\ hand'[s] # <<>> =>
           Range(hand'[s]) = {Head(hand'[s])} \union Range(Tail(hand'[s]))
  <2>1. /\ Range(hand[s]) = {h} \union Range(Tail(hand[s]))
        /\ Sorted(hand[s]) => Sorted(Tail(hand[s]))
        /\ Covered(hand[s], untold[s]) /\ h # Gap => Covered(Tail(hand[s]), untold[s])
    BY <1>2, <1>3, Removed
  <2>2. ASSUME NEW q \in Seq(Nat), q # <<>>
        PROVE  Range(q) = {Head(q)} \union Range(Tail(q))
    BY <2>2, Removed
  <2>3. hand'[s] # <<>> => Range(hand'[s]) = {Head(hand'[s])} \union Range(Tail(hand'[s]))
    BY <1>3, <2>2
  <2> HIDE DEF h
  <2> QED BY <1>2, <2>1, <2>3
<1> HIDE DEF h
<1>5. (s \in Known' <=> s \in Known) /\ (h # Gap /\ GapPending(s) => GapPending(s)')
  BY <1>2, <1>4 DEF Known, GapPending
<1>6. loop \notin finished /\ ready[s] = loop /\ GapWaits(s) => GapWaits(s)'
  <2> SUFFICES ASSUME loop \notin finished, ready[s] = loop, GapWaits(s) PROVE GapWaits(s)'
    OBVIOUS
  <2>1. loop # 0
    BY <1>1 DEF TypeOK, StreamTypeOK
  <2>2. s \in owed \/ Gap \in Range(queue[s]) \/ Gap \in Range(hand'[s])
    BY <1>2, <2>1 DEF GapWaits
  <2>3. CASE Gap \in Range(hand'[s])
    <3>1. hand'[s] # <<>>
      BY <2>3, EmptyQueue
    <3>2. CASE Head(hand'[s]) = Gap
      BY <1>2, <3>1, <3>2 DEF Awaited, GapWaits, client
    <3>3. CASE Head(hand'[s]) # Gap
      BY <1>4, <2>3, <3>1, <3>3 DEF GapWaits
    <3> QED BY <3>2, <3>3
  <2> QED BY <1>2, <2>2, <2>3 DEF GapWaits
<1>7. Placed(s)'
  BY <1>1, <1>2, <1>4, <1>5 DEF InvAt, Placed, Numbered, Outside, Unheard, Posted, client,
     edge, Known
<1>8. Gaps(s)'
  BY <1>1, <1>2, <1>5, <1>6 DEF InvAt, Gaps, Missed, Outlasts, Noticed, client, edge
<1>9. ASSUME s \in Known PROVE Ordered(s)' /\ Warned(s)'
  <2>1. Ordered(s) /\ Warned(s)
    BY <1>1, <1>9 DEF InvAt, Flow
  <2>2. Messages(hand'[s]) \subseteq Messages(hand[s])
    BY <1>4 DEF Messages
  <2>3. Ordered(s)'
    BY <1>2, <1>4, <2>1, <2>2 DEF Ordered, Below, edge
  <2>4. CASE h = Gap
    <3>1. untold'[s] = {}
      BY <1>2, <2>4
    <3>2. /\ Covered(hand'[s], untold'[s]) /\ Covered(queue'[s], untold'[s])
          /\ Covered(wire'[s], untold'[s]) /\ Covered(equeue'[s], untold'[s])
      BY <3>1, NothingLost
    <3> QED BY <2>3, <3>2 DEF Warned
  <2>5. CASE h # Gap
    <3>1. /\ queue'[s] = queue[s] /\ wire'[s] = wire[s] /\ equeue'[s] = equeue[s]
          /\ untold'[s] = untold[s] /\ owed' = owed /\ edropped' = edropped
      BY <1>2, <2>5 DEF edge
    <3>2. Covered(hand'[s], untold[s]) /\ (Gap \in Range(hand[s]) => Gap \in Range(hand'[s]))
      BY <1>4, <2>1, <2>5 DEF Warned
    <3> QED BY <1>5, <2>1, <2>3, <2>5, <3>1, <3>2 DEF Warned
  <2> QED BY <2>3, <2>4, <2>5
<1> QED BY <1>5, <1>7, <1>8, <1>9 DEF InvAt, Flow

LEMMA FinishAt ==
  ASSUME FeedInv, NEW k \in Loops, Finish(k), NEW s \in Subs
  PROVE  InvAt(s)'
<1>1. InvAt(s)
  BY DEF FeedInv, InvAt
<1>2. /\ finished' = finished \union {k}
      /\ loop \notin finished' => tried' = tried
      /\ UNCHANGED <<loop, up, local, edge, sent, untold>>
  BY DEF Finish
<1>3. (s \in Known' <=> s \in Known) /\ (GapPending(s)' <=> GapPending(s))
  BY <1>2 DEF Known, GapPending, local
<1>4. Placed(s)'
  BY <1>1, <1>2, <1>3 DEF InvAt, Placed, Numbered, Outside, Unheard, Posted, local, edge
<1>5. Gaps(s)'
  BY <1>1, <1>2, <1>3 DEF InvAt, Gaps, Missed, Outlasts, GapWaits, Noticed, local, edge
<1>6. Flow(s)'
  BY <1>1, <1>2, <1>3, SameFlow DEF InvAt, local, edge
<1> QED BY <1>4, <1>5, <1>6 DEF InvAt

\* What is on its way past a queue was published after its messages.
LEMMA LaterIsLost ==
  ASSUME TypeOK, NEW s \in Subs, Ordered(s), Numbered(s)
  PROVE  LET late == Range(equeue[s])
             lost == late \union Messages(wire[s])
         IN /\ \A q \in {hand[s], queue[s], wire[s]} :
                 Covered(q, untold[s]) => Covered(q, untold[s] \union late)
            /\ \A q \in {hand[s], queue[s]} :
                 Covered(q, untold[s]) => Covered(q, untold[s] \union lost)
<1>1. /\ hand[s] \in Seq(Nat) /\ queue[s] \in Seq(Nat) /\ wire[s] \in Seq(Nat)
      /\ equeue[s] \in Seq(Nat) /\ untold[s] \in SUBSET Nat
  BY Typed
<1>2. Range(equeue[s]) \in SUBSET Nat /\ Messages(wire[s]) \in SUBSET Nat
  BY <1>1, InRange DEF Messages
<1>3. Range(equeue[s]) = Messages(equeue[s])
  BY DEF Numbered, Messages
<1>4. /\ \A q \in {hand[s], queue[s], wire[s]} : Below(q, equeue[s])
      /\ \A q \in {hand[s], queue[s]} : Below(q, wire[s])
  BY DEF Ordered
<1>5. ASSUME NEW q \in {hand[s], queue[s], wire[s]}, Covered(q, untold[s])
      PROVE  Covered(q, untold[s] \union Range(equeue[s]))
  <2>1. q \in Seq(Nat) /\ \A m \in Messages(q), n \in Range(equeue[s]) : m < n
    BY <1>1, <1>3, <1>4 DEF Below
  <2> QED BY <1>1, <1>2, <1>5, <2>1, MoreLost
<1>6. ASSUME NEW q \in {hand[s], queue[s]}, Covered(q, untold[s])
      PROVE  Covered(q, untold[s] \union (Range(equeue[s]) \union Messages(wire[s])))
  <2> DEFINE lost == Range(equeue[s]) \union Messages(wire[s])
  <2>1. q \in Seq(Nat) /\ \A m \in Messages(q), n \in lost : m < n
    BY <1>1, <1>3, <1>4 DEF Below
  <2>2. lost \in SUBSET Nat
    BY <1>2
  <2> HIDE DEF lost
  <2>3. Covered(q, untold[s] \union lost)
    BY <1>1, <1>6, <2>1, <2>2, MoreLost
  <2> QED BY <2>3 DEF lost
<1> QED BY <1>5, <1>6

LEMMA DropAt ==
  ASSUME FeedInv, Drop, NEW s \in Subs
  PROVE  InvAt(s)'
<1>1. TypeOK /\ Streams /\ InvAt(s)
  BY DEF FeedInv, InvAt
<1>2. /\ held' = {} /\ equeue'[s] = <<>>
      /\ untold'[s] = IF s \in Known THEN untold[s] \union Range(equeue[s]) ELSE untold[s]
      /\ UNCHANGED <<client, local, wire, sent>>
  BY DEF Drop, EdgeGone, Losing
<1>3. (s \in Known' <=> s \in Known) /\ (GapPending(s)' <=> GapPending(s))
  BY <1>2 DEF Known, GapPending, local
<1>4. s \notin held => untold'[s] = untold[s]
  BY <1>1, <1>2, EmptyQueue DEF Streams
<1>5. Placed(s)'
  BY <1>1, <1>2, <1>3, <1>4, EmptyQueue DEF InvAt, Placed, Numbered, Outside, Unheard, Posted,
     client, local
<1>6. Gaps(s)'
  BY <1>1, <1>2, <1>3, <1>4 DEF InvAt, Placed, Unheard, Gaps, Missed, Outlasts, GapWaits,
     Noticed, client, local
<1>7. ASSUME s \in Known PROVE Ordered(s)' /\ Warned(s)'
  <2>1. Ordered(s) /\ Warned(s) /\ Numbered(s)
    BY <1>1, <1>7 DEF InvAt, Flow, Placed
  <2>2. Messages(<<>>) = {}
    BY EmptyQueue DEF Messages
  <2>3. Ordered(s)'
    BY <1>2, <2>1, <2>2, EmptyQueue DEF Ordered, Below, local
  <2>4. \A q \in {hand[s], queue[s], wire[s]} : Covered(q, untold[s]) => Covered(q, untold'[s])
    BY <1>1, <1>2, <1>7, <2>1, LaterIsLost
  <2> QED BY <1>2, <1>3, <2>1, <2>3, <2>4, EmptyQueue DEF Warned, local
<1> QED BY <1>3, <1>5, <1>6, <1>7 DEF InvAt, Flow

LEMMA LostAt ==
  ASSUME FeedInv, Lost, NEW s \in Subs
  PROVE  InvAt(s)'
<1>1. TypeOK /\ Streams /\ InvAt(s)
  BY DEF FeedInv, InvAt
<1>2. /\ up' = FALSE /\ loop' = loop + 1
      /\ held' = {} /\ equeue'[s] = <<>> /\ wire'[s] = <<>>
      /\ untold'[s] = IF s \in Known
                      THEN untold[s] \union (Range(equeue[s]) \union Messages(wire[s]))
                      ELSE untold[s]
      /\ UNCHANGED <<finished, local, sent>>
  BY DEF Lost, EdgeGone, Losing
<1>3. (s \in Known' <=> s \in Known) /\ (GapPending(s)' <=> GapPending(s))
  BY <1>2 DEF Known, GapPending, local
<1>4. via[s] # loop'
  BY <1>1, <1>2 DEF TypeOK, StreamTypeOK, StageTypeOK, Loops, Streams
<1>5. Placed(s)'
  BY <1>1, <1>2, <1>3, <1>4, EmptyQueue DEF InvAt, Placed, Numbered, Outside, Unheard, Posted, local
<1>6. Gaps(s)'
  BY <1>2 DEF Gaps, Missed, Outlasts, Noticed
<1>7. ASSUME s \in Known PROVE Ordered(s)' /\ Warned(s)'
  <2>1. Ordered(s) /\ Warned(s) /\ Numbered(s)
    BY <1>1, <1>7 DEF InvAt, Flow, Placed
  <2>2. Messages(<<>>) = {}
    BY EmptyQueue DEF Messages
  <2>3. Ordered(s)'
    BY <1>2, <2>1, <2>2, EmptyQueue DEF Ordered, Below, local
  <2>4. \A q \in {hand[s], queue[s]} : Covered(q, untold[s]) => Covered(q, untold'[s])
    BY <1>1, <1>2, <1>7, <2>1, LaterIsLost
  <2> QED BY <1>2, <1>3, <2>1, <2>3, <2>4, EmptyQueue DEF Warned, local
<1> QED BY <1>3, <1>5, <1>6, <1>7 DEF InvAt, Flow

LEMMA OpenAt ==
  ASSUME FeedInv, Open, NEW s \in Subs
  PROVE  InvAt(s)'
<1>1. TypeOK /\ Streams /\ InvAt(s)
  BY DEF FeedInv, InvAt
<1>2. /\ ~up /\ s \notin held /\ wire[s] = <<>> /\ equeue[s] = <<>>
      /\ UNCHANGED <<loop, tried, finished, stage, via, hand, awaits, held, equeue, edropped, wire,
                     sent, untold>>
  BY <1>1 DEF Open, Streams
<1>3. (s \in Known' <=> s \in Known)
  BY <1>2 DEF Known
<1>4. CASE s \notin Known
  <2>1. ready'[s] = ready[s] /\ queue'[s] = queue[s]
    BY <1>4 DEF Open, Told
  <2>2. Placed(s)'
    BY <1>1, <1>2, <1>3, <2>1 DEF InvAt, Placed, Numbered, Outside, Unheard, Posted
  <2> QED BY <1>3, <1>4, <2>2 DEF InvAt, Gaps, Missed, Outlasts, Noticed, Flow
<1>5. CASE s \in Known
  <2>1. /\ ready'[s] = loop /\ (s \in owed => s \in owed')
        /\ \/ queue'[s] = Append(queue[s], Gap)
           \/ queue'[s] = queue[s] /\ s \in owed'
    <3>1. queue \in Queues(MaxQueued) /\ MaxQueued \in Nat
      BY <1>1, FeedAssumption DEF TypeOK, QueueTypeOK
    <3>2. Len(queue[s]) < MaxQueued \/ Len(queue[s]) = MaxQueued
      <4>1. Len(queue[s]) <= MaxQueued /\ Len(queue[s]) \in Nat
        BY <3>1, QueueOf
      <4> QED BY <3>1, <4>1
    <3> QED BY <1>5, <3>2 DEF Open, Told
  <2>2. queue[s] \in Seq(Nat) /\ untold[s] \in SUBSET Nat /\ sent[s] \in Nat /\ Gap \in Nat
    BY <1>1, Typed DEF Gap
  <2>3. /\ Range(Append(queue[s], Gap)) = Range(queue[s]) \union {Gap}
        /\ Sorted(queue[s]) => Sorted(Append(queue[s], Gap))
        /\ Covered(queue[s], untold[s]) => Covered(Append(queue[s], Gap), untold[s])
    BY <2>2, Appended
  <2>4. /\ Range(queue'[s]) \subseteq Range(queue[s]) \union {Gap}
        /\ Gap \in Range(queue'[s]) \/ s \in owed'
    BY <2>1, <2>3
  <2>5. Placed(s)'
    <3>1. Gap \in 0..sent[s]
      BY <2>2 DEF Gap
    <3>2. Numbered(s)'
      BY <1>1, <1>2, <2>4, <3>1 DEF InvAt, Placed, Numbered
    <3> QED BY <1>1, <1>2, <1>3, <1>5, <3>2 DEF InvAt, Placed, Outside, Unheard, Posted, Known
  <2>6. Gaps(s)'
    BY <1>2, <2>1, <2>4 DEF Gaps, Missed, Outlasts, GapWaits, Noticed
  <2>7. Ordered(s) /\ Warned(s)
    BY <1>1, <1>5 DEF InvAt, Flow
  <2>8. Ordered(s)'
    <3>1. Messages(queue'[s]) \subseteq Messages(queue[s])
      BY <2>4 DEF Messages
    <3>2. Sorted(queue'[s])
      BY <2>1, <2>3, <2>7 DEF Ordered
    <3> QED BY <1>2, <2>7, <3>1, <3>2 DEF Ordered, Below
  <2>9. Warned(s)'
    <3>1. Gap \in Range(hand[s]) \/ s \in owed' \/ Covered(queue'[s], untold[s])
      BY <2>1, <2>3, <2>7 DEF Warned
    <3>2. GapPending(s)'
      BY <2>4 DEF GapPending
    <3> QED BY <1>2, <2>7, <3>1, <3>2 DEF Warned
  <2> QED BY <2>5, <2>6, <2>8, <2>9 DEF InvAt, Flow
<1> QED BY <1>4, <1>5

LEMMA ShutdownAt ==
  ASSUME FeedInv, Shutdown, NEW s \in Subs
  PROVE  InvAt(s)'
<1>1. TypeOK /\ Streams /\ InvAt(s)
  BY DEF FeedInv, InvAt
<1>2. /\ up' = FALSE /\ held' = {} /\ equeue'[s] = <<>> /\ wire'[s] = <<>> /\ queue'[s] = <<>>
      /\ untold'[s] = {} /\ stage'[s] = IF s \in Known THEN "left" ELSE stage[s]
      /\ UNCHANGED <<loop, finished, via, ready, hand, awaits, sent>>
  BY DEF Shutdown, EdgeGone
<1>3. s \notin Known' /\ stage'[s] \notin {"posting", "posted"}
  BY <1>2 DEF Known
<1>4. Placed(s)'
  BY <1>1, <1>2, <1>3, EmptyQueue DEF InvAt, Placed, Numbered, Outside, Unheard, Posted
<1> QED BY <1>3, <1>4 DEF InvAt, Gaps, Flow, Missed, Outlasts, Noticed

-----------------------------------------------------------------------------
(* The invariant.                                                          *)

\* Every step of one subscription leaves the others as they are.
LEMMA OthersStay ==
  ASSUME FeedInv, NEW s \in Subs, NEW t \in Subs, t # s,
         \/ Subscribe(s) \/ PostSubscribe(s) \/ SubscribedAtEdge(s) \/ SubscribeDone(s)
         \/ SubscribeFails(s) \/ Unsubscribe(s) \/ PostClose(s) \/ Publish(s) \/ Write(s)
         \/ Receive(s) \/ Register(s) \/ Take(s) \/ Deliver(s)
  PROVE  InvAt(t)'
<1>1. TypeOK /\ InvAt(t)
  BY DEF FeedInv, InvAt
<1> USE <1>1, Untouched DEF TypeOK, StageTypeOK, QueueTypeOK, Queues, SentTypeOK
<1>2. CASE Subscribe(s) \/ PostSubscribe(s) \/ SubscribedAtEdge(s) \/ SubscribeDone(s)
  BY <1>2 DEF Subscribe, PostSubscribe, SubscribedAtEdge, SubscribeDone, client, edge
<1>3. CASE SubscribeFails(s) \/ Unsubscribe(s) \/ PostClose(s)
  BY <1>3 DEF SubscribeFails, Unsubscribe, Forgotten, PostClose, client, edge
<1>4. CASE Publish(s)
  BY <1>4 DEF Publish, client, local
<1>5. CASE Write(s)
  BY <1>5 DEF Write, client, local
<1>6. CASE Receive(s)
  BY <1>6 DEF Receive, Told, client
<1>7. CASE Register(s)
  BY <1>7 DEF Register, local
<1>8. CASE Take(s) \/ Deliver(s)
  BY <1>8 DEF Take, Deliver, client, edge
<1> QED BY <1>2, <1>3, <1>4, <1>5, <1>6, <1>7, <1>8

LEMMA FeedInvStep ==
  ASSUME FeedInv, [Next]_vars
  PROVE  FeedInv'
<1>1. TypeOK' /\ Streams'
  BY TypeStep
<1>2. ASSUME NEW t \in Subs PROVE InvAt(t)'
  <2>1. CASE UNCHANGED vars
    BY <2>1, Untouched DEF FeedInv, InvAt, vars, client, local, edge
  <2>2. ASSUME NEW s \in Subs,
               \/ Subscribe(s) \/ PostSubscribe(s) \/ SubscribedAtEdge(s) \/ SubscribeDone(s)
               \/ SubscribeFails(s) \/ Unsubscribe(s) \/ PostClose(s) \/ Publish(s) \/ Write(s)
               \/ Receive(s) \/ Register(s) \/ Take(s) \/ Deliver(s)
        PROVE  InvAt(t)'
    <3>1. CASE t = s
      BY <2>2, <3>1, SubscribeAt, PostSubscribeAt, SubscribedAt, SubscribeDoneAt, ForgottenAt,
         PostCloseAt, PublishAt, WriteAt, ReceiveAt, RegisterAt, TakeAt, DeliverAt
    <3>2. CASE t # s
      BY <2>2, <3>2, OthersStay
    <3> QED BY <3>1, <3>2
  <2>3. CASE (\E k \in Loops : Finish(k)) \/ Drop \/ Lost \/ Open \/ Shutdown
    BY <2>3, FinishAt, DropAt, LostAt, OpenAt, ShutdownAt
  <2> QED BY <2>1, <2>2, <2>3 DEF Next
<1> QED BY <1>1, <1>2 DEF FeedInv, InvAt

LEMMA FeedInvInit == Init => FeedInv
<1> SUFFICES ASSUME Init PROVE FeedInv
  OBVIOUS
<1>1. /\ MaxSent \in Nat /\ MaxLoops \in Nat \ {0} /\ MaxQueued \in Nat /\ MaxFrames \in Nat
  BY FeedAssumption
<1>2. /\ [s \in Subs |-> <<>>] \in Queues(MaxQueued)
      /\ [s \in Subs |-> <<>>] \in Queues(MaxFrames + 1)
      /\ [s \in Subs |-> <<>>] \in Queues(2)
  BY <1>1, EmptySeq DEF Queues
<1>3. Known = {}
  BY DEF Init, Known
<1>4. StreamTypeOK /\ StageTypeOK
  <2>1. 1 \in 1..MaxLoops /\ 0 \in 0..MaxLoops /\ {1} \subseteq 1..1
    BY <1>1
  <2>2. StreamTypeOK
    BY <2>1 DEF Init, StreamTypeOK
  <2>3. StageTypeOK
    BY <1>3, <2>1 DEF Init, StageTypeOK, Loops, Stages
  <2> QED BY <2>2, <2>3
<1>5. QueueTypeOK /\ SentTypeOK
  BY <1>1, <1>2 DEF Init, QueueTypeOK, SentTypeOK, Items
<1>6. Streams
  BY DEF Init, Streams
<1>7. ASSUME NEW s \in Subs PROVE Placed(s)
  BY <1>3, EmptyQueue DEF Init, Placed, Numbered, Outside, Unheard, Posted
<1> QED BY <1>3, <1>4, <1>5, <1>6, <1>7 DEF FeedInv, TypeOK, Gaps, Missed, Outlasts, Noticed, Flow

\* Every step of the client, the edge, the stream and the subscriptions keeps
\* the invariant, whatever is lost, full or late.
THEOREM FeedInvariant == Spec => []FeedInv
<1> QED BY FeedInvInit, FeedInvStep, PTL DEF Spec

\* Every reachable state is well formed: no queue of the edge or the client
\* holds more than its limit, and no socket more than one frame past its own.
THEOREM FeedType == Spec => []TypeOK
<1>1. FeedInv => TypeOK
  BY DEF FeedInv
<1> QED BY <1>1, FeedInvariant, PTL

LEMMA WaitingGapIsPending ==
  ASSUME TypeOK, NEW s \in Subs, GapWaits(s)
  PROVE  GapPending(s)
<1>1. hand[s] # <<>> => Range(hand[s]) = {Head(hand[s])} \union Range(Tail(hand[s]))
  BY Typed, Removed
<1> QED BY <1>1 DEF GapWaits, GapPending

\* GapOutlastsRegistration: while a reconnect still registers, every
\* subscription it found has a gap coming.
THEOREM FeedGapOutlasts == Spec => []GapOutlastsRegistration
<1>1. FeedInv => GapOutlastsRegistration
  <2> SUFFICES ASSUME FeedInv, NEW s \in Known, up, loop \notin finished, ready[s] = loop
               PROVE  GapPending(s)
    BY DEF GapOutlastsRegistration
  <2>1. s \in Subs
    BY DEF Known
  <2> QED BY <2>1, WaitingGapIsPending DEF FeedInv, Gaps, Outlasts
<1> QED BY <1>1, FeedInvariant, PTL

-----------------------------------------------------------------------------
(* The feed implements FeedPromise.                                        *)

Bar(s) == [part |-> Part(s), sent |-> sent[s], untold |-> untold[s],
           flying |-> IF s \in Known THEN Flying(s) ELSE {}]

\* The messages on their way are in one of four queues.
LEMMA FlyingIs ==
  ASSUME NEW s \in Subs
  PROVE  Flying(s) = Messages(hand[s]) \union Messages(queue[s])
                       \union Messages(wire[s]) \union Messages(equeue[s])
BY DEF Flying

\* A step of subscription s leaves the others, or takes one step of the promise.
Moves(s) == Bar(s)' = Bar(s) \/ Promise!FeedStep(Bar(s), Bar(s)')

LEMMA OthersRest ==
  ASSUME TypeOK, NEW s \in Subs, NEW t \in Subs, t # s,
         \/ Subscribe(s) \/ PostSubscribe(s) \/ SubscribedAtEdge(s) \/ SubscribeDone(s)
         \/ SubscribeFails(s) \/ Unsubscribe(s) \/ PostClose(s) \/ Publish(s) \/ Write(s)
         \/ Receive(s) \/ Register(s) \/ Take(s) \/ Deliver(s)
  PROVE  Bar(t)' = Bar(t)
<1>1. /\ stage'[t] = stage[t] /\ sent'[t] = sent[t] /\ untold'[t] = untold[t]
      /\ hand'[t] = hand[t] /\ queue'[t] = queue[t] /\ wire'[t] = wire[t] /\ equeue'[t] = equeue[t]
  <2> USE DEF TypeOK, StageTypeOK, QueueTypeOK, Queues, SentTypeOK
  <2>1. CASE Subscribe(s) \/ PostSubscribe(s) \/ SubscribedAtEdge(s) \/ SubscribeDone(s)
    BY <2>1 DEF Subscribe, PostSubscribe, SubscribedAtEdge, SubscribeDone, edge
  <2>2. CASE SubscribeFails(s) \/ Unsubscribe(s) \/ PostClose(s)
    BY <2>2 DEF SubscribeFails, Unsubscribe, Forgotten, PostClose, edge
  <2>3. CASE Publish(s) \/ Write(s)
    BY <2>3 DEF Publish, Write, local
  <2>4. CASE Receive(s) \/ Register(s)
    BY <2>4 DEF Receive, Told, Register, local
  <2>5. CASE Take(s) \/ Deliver(s)
    BY <2>5 DEF Take, Deliver, edge
  <2> QED BY <2>1, <2>2, <2>3, <2>4, <2>5
<1>2. t \in Known' <=> t \in Known
  BY <1>1 DEF Known
<1> QED BY <1>1, <1>2 DEF Bar, Part, Flying

\* A step of the call that subscribes or closes.
LEMMA CallMoves ==
  ASSUME FeedInv, NEW s \in Subs,
         \/ Subscribe(s) \/ PostSubscribe(s) \/ SubscribedAtEdge(s) \/ SubscribeDone(s)
         \/ SubscribeFails(s) \/ Unsubscribe(s) \/ PostClose(s) \/ Register(s)
  PROVE  Moves(s)
<1>1. TypeOK /\ Streams /\ InvAt(s)
  BY DEF FeedInv, InvAt
<1>2. CASE Subscribe(s) \/ PostClose(s)
  <2>1. /\ s \notin Known /\ s \notin Known' /\ Part(s)' = Part(s)
        /\ UNCHANGED <<sent, untold>>
    BY <1>1, <1>2 DEF Subscribe, PostClose, Known, Part, TypeOK, StageTypeOK
  <2> QED BY <2>1 DEF Moves, Bar
<1>3. CASE PostSubscribe(s)
  <2>1. /\ stage[s] = "calling" /\ stage'[s] = "posting"
        /\ UNCHANGED <<queue, hand, wire, equeue, sent, untold>>
    BY <1>1, <1>3 DEF PostSubscribe, edge, TypeOK, StageTypeOK
  <2>2. s \notin Known /\ s \in Known' /\ Part(s) = "out" /\ Part(s)' = "joining"
    BY <2>1 DEF Known, Part
  <2>3. hand[s] = <<>> /\ queue[s] = <<>> /\ wire[s] = <<>> /\ equeue[s] = <<>>
    BY <1>1, <2>1, <2>2 DEF InvAt, Placed, Outside, Streams
  <2>4. Flying(s)' = {}
    BY <2>1, <2>3, EmptyQueue DEF Flying, Messages
  <2> QED BY <2>1, <2>2, <2>4 DEF Moves, Bar, Promise!FeedStep, Promise!Join
<1>4. CASE SubscribedAtEdge(s) \/ Register(s)
  <2>1. /\ s \in Known /\ s \in Known' /\ Part(s)' = Part(s)
        /\ UNCHANGED <<queue, hand, wire, equeue, sent, untold>>
    BY <1>1, <1>4 DEF SubscribedAtEdge, Register, local, Known, Part, TypeOK, StageTypeOK
  <2> QED BY <2>1 DEF Moves, Bar, Flying
<1>5. CASE SubscribeDone(s)
  <2>1. /\ s \in Known /\ s \in Known' /\ Part(s) = "joining" /\ Part(s)' = "in"
        /\ UNCHANGED <<queue, hand, wire, equeue, sent, untold>>
    BY <1>1, <1>5 DEF SubscribeDone, edge, Known, Part, TypeOK, StageTypeOK
  <2> QED BY <2>1 DEF Moves, Bar, Flying, Promise!FeedStep, Promise!Joined
<1>6. CASE SubscribeFails(s) \/ Unsubscribe(s)
  <2>1. /\ stage[s] \in {"posting", "posted", "in"} /\ stage'[s] = "leaving"
        /\ sent' = sent /\ untold'[s] = {}
    BY <1>1, <1>6 DEF SubscribeFails, Unsubscribe, Forgotten, TypeOK, StageTypeOK, SentTypeOK
  <2>2. s \in Known /\ s \notin Known' /\ Part(s) \in {"joining", "in"} /\ Part(s)' = "left"
    BY <2>1 DEF Known, Part
  <2> QED BY <2>1, <2>2 DEF Moves, Bar, Promise!FeedStep, Promise!Leave
<1> QED BY <1>2, <1>3, <1>4, <1>5, <1>6

\* Nothing the promise speaks of changes ...
LEMMA Rests ==
  ASSUME NEW s \in Subs, stage'[s] = stage[s], sent'[s] = sent[s], untold'[s] = untold[s],
         s \in Known => Flying(s)' = Flying(s)
  PROVE  Moves(s)
<1>1. (s \in Known' <=> s \in Known) /\ Part(s)' = Part(s)
  BY DEF Known, Part
<1> QED BY <1>1 DEF Moves, Bar

\* ... or some of what is on its way is lost.
LEMMA Loses ==
  ASSUME NEW s \in Subs, s \in Known, stage'[s] = stage[s], sent'[s] = sent[s],
         NEW gone \in SUBSET Flying(s),
         Flying(s)' = Flying(s) \ gone, untold'[s] = untold[s] \union gone
  PROVE  Moves(s)
<1>1. s \in Known' /\ Part(s)' = Part(s)
  BY DEF Known, Part
<1> QED BY <1>1 DEF Moves, Bar, Promise!FeedStep, Promise!Lose

LEMMA PublishMoves ==
  ASSUME FeedInv, NEW s \in Subs, Publish(s)
  PROVE  Moves(s)
<1> DEFINE n == sent[s] + 1
<1>1. TypeOK /\ Streams /\ InvAt(s) /\ n \in Nat /\ equeue[s] \in Seq(Nat)
  BY Typed DEF FeedInv, InvAt
<1>2. /\ s \in Known /\ s \in Known' /\ sent'[s] = n /\ Part(s)' = Part(s)
      /\ UNCHANGED <<hand, queue, wire>>
  BY <1>1 DEF Publish, TypeOK, SentTypeOK, Known, local, Part
<1>3. \/ equeue'[s] = Append(equeue[s], n) /\ untold'[s] = untold[s]
      \/ equeue'[s] = equeue[s] /\ untold'[s] = untold[s] \union {n}
      \/ stage[s] # "in" /\ equeue'[s] = equeue[s] /\ untold'[s] = untold[s]
  BY <1>1 DEF Publish, TypeOK, QueueTypeOK, Queues, SentTypeOK
<1>4. Range(Append(equeue[s], n)) = Range(equeue[s]) \union {n} /\ n # Gap
  <2>1. n \in Nat /\ n # 0
    BY <1>1, Typed
  <2> HIDE DEF n
  <2> QED BY <1>1, <2>1, Appended DEF Gap
<1> HIDE DEF n
<1>5. Part(s) \in {"joining", "in"} /\ (stage[s] # "in" => Part(s) # "in")
  BY <1>2 DEF Known, Part
<1> DEFINE H == [part |-> Part(s), sent |-> n, untold |-> untold[s], flying |-> Flying(s)]
<1>6. Bar(s) = [part |-> Part(s), sent |-> sent[s], untold |-> untold[s], flying |-> Flying(s)]
  BY <1>2 DEF Bar
<1>7. H = [Bar(s) EXCEPT !.sent = n]
  BY <1>6
<1>8. CASE equeue'[s] = Append(equeue[s], n) /\ untold'[s] = untold[s]
  <2>1. Flying(s)' = Flying(s) \union {n}
    BY <1>2, <1>4, <1>8, FlyingIs DEF Flying, Messages
  <2>2. Bar(s)' = [part |-> Part(s), sent |-> n, untold |-> untold[s],
                   flying |-> Flying(s) \union {n}]
    BY <1>2, <1>8, <2>1 DEF Bar
  <2>3. Bar(s)' = [H EXCEPT !.flying = @ \union {n}]
    BY <2>2
  <2> HIDE DEF H
  <2> QED BY <1>5, <1>6, <1>7, <2>3 DEF n, Moves, Promise!FeedStep, Promise!Publish
<1>9. CASE equeue'[s] = equeue[s] /\ untold'[s] = untold[s] \union {n}
  <2>1. Flying(s)' = Flying(s)
    BY <1>2, <1>9 DEF Flying
  <2>2. Bar(s)' = [part |-> Part(s), sent |-> n, untold |-> untold[s] \union {n},
                   flying |-> Flying(s)]
    BY <1>2, <1>9, <2>1 DEF Bar
  <2>3. Bar(s)' = [H EXCEPT !.untold = @ \union {n}]
    BY <2>2
  <2> HIDE DEF H
  <2> QED BY <1>5, <1>6, <1>7, <2>3 DEF n, Moves, Promise!FeedStep, Promise!Publish
<1>10. CASE stage[s] # "in" /\ equeue'[s] = equeue[s] /\ untold'[s] = untold[s]
  <2>1. Flying(s)' = Flying(s)
    BY <1>2, <1>10 DEF Flying
  <2>2. Bar(s)' = H
    BY <1>2, <1>10, <2>1 DEF Bar
  <2> HIDE DEF H
  <2> QED BY <1>5, <1>6, <1>7, <1>10, <2>2 DEF n, Moves, Promise!FeedStep, Promise!Publish
<1> QED BY <1>3, <1>8, <1>9, <1>10

LEMMA WriteMoves ==
  ASSUME FeedInv, NEW s \in Subs, Write(s)
  PROVE  Moves(s)
<1> DEFINE h == Head(equeue[s])
<1>1. TypeOK /\ QueueTypeOK /\ wire[s] \in Seq(Nat) /\ equeue[s] \in Seq(Nat)
  BY Typed DEF FeedInv, TypeOK
<1>2. /\ equeue[s] # <<>> /\ equeue'[s] = Tail(equeue[s])
      /\ UNCHANGED <<local, sent, untold>>
  BY <1>1 DEF Write, QueueTypeOK, Queues
<1>3. Range(equeue[s]) = {h} \union Range(equeue'[s]) /\ h \in Nat
  <2>1. Range(equeue[s]) = {h} \union Range(Tail(equeue[s])) /\ h \in Range(equeue[s])
    BY <1>1, <1>2, Removed
  <2>2. Range(equeue[s]) \subseteq Nat
    BY <1>1, InRange
  <2> HIDE DEF h
  <2> QED BY <1>2, <2>1, <2>2
<1>4. Messages(wire'[s]) = Messages(wire[s]) \union ({h} \ {Gap})
  <2>1. /\ s \in edropped => wire'[s] = Append(Append(wire[s], Gap), h)
        /\ s \notin edropped => wire'[s] = Append(wire[s], h)
    BY <1>1, Written
  <2> HIDE DEF h
  <2>2. Gap \in Nat /\ Append(wire[s], Gap) \in Seq(Nat)
    BY <1>1, AppendProperties DEF Gap
  <2>3. /\ Range(Append(wire[s], Gap)) = Range(wire[s]) \union {Gap}
        /\ Range(Append(wire[s], h)) = Range(wire[s]) \union {h}
    BY <1>1, <1>3, <2>2, Appended
  <2>4. Range(Append(Append(wire[s], Gap), h)) = Range(Append(wire[s], Gap)) \union {h}
    BY <1>3, <2>2, Appended
  <2> QED BY <2>1, <2>3, <2>4 DEF Messages
<1> HIDE DEF h
<1>5. Flying(s)' = Flying(s)
  BY <1>2, <1>3, <1>4 DEF Flying, Messages, local
<1> QED BY <1>2, <1>5, Rests DEF local

LEMMA ReceiveMoves ==
  ASSUME FeedInv, NEW s \in Subs, Receive(s)
  PROVE  Moves(s)
<1> DEFINE h == Head(wire[s])
<1>1. /\ TypeOK /\ QueueTypeOK /\ InvAt(s)
      /\ wire[s] \in Seq(Nat) /\ queue[s] \in Seq(Nat) /\ untold[s] \in SUBSET Nat
  BY Typed DEF FeedInv, InvAt, TypeOK
<1>2. /\ wire[s] # <<>> /\ wire'[s] = Tail(wire[s])
      /\ UNCHANGED <<stage, hand, equeue, sent>>
  BY <1>1 DEF Receive, QueueTypeOK, Queues
<1>3. \/ s \notin Known /\ untold'[s] = untold[s]
      \/ s \in Known /\ queue'[s] = Append(queue[s], h) /\ untold'[s] = untold[s]
      \/ s \in Known /\ queue'[s] = queue[s] /\ untold'[s] = untold[s] \union ({h} \ {Gap})
  <2>1. /\ queue'[s] = IF s \in Known /\ Len(queue[s]) < MaxQueued
                       THEN Append(queue[s], h) ELSE queue[s]
        /\ untold'[s] = IF s \in Known /\ h # Gap /\ Len(queue[s]) = MaxQueued
                        THEN untold[s] \union {h} ELSE untold[s]
    BY <1>1 DEF Receive, Told, TypeOK, SentTypeOK
  <2>2. (Len(queue[s]) < MaxQueued /\ Len(queue[s]) # MaxQueued) \/ Len(queue[s]) = MaxQueued
    <3>1. queue \in Queues(MaxQueued) /\ MaxQueued \in Nat
      BY <1>1, FeedAssumption DEF QueueTypeOK
    <3>2. Len(queue[s]) <= MaxQueued /\ Len(queue[s]) \in Nat
      BY <3>1, QueueOf
    <3> QED BY <3>1, <3>2
  <2> HIDE DEF h
  <2> QED BY <2>1, <2>2
<1>4. /\ Range(wire[s]) = {h} \union Range(wire'[s]) /\ h \in Nat
      /\ Sorted(wire[s]) /\ h # Gap => \A m \in Messages(wire'[s]) : h < m
  <2>1. h \in Range(wire[s]) /\ Range(wire[s]) \subseteq Nat
    BY <1>1, <1>2, Removed, InRange
  <2>2. /\ Range(wire[s]) = {h} \union Range(Tail(wire[s]))
        /\ Sorted(wire[s]) /\ h # Gap => \A m \in Messages(Tail(wire[s])) : h < m
    BY <1>1, <1>2, Removed
  <2> HIDE DEF h
  <2> QED BY <1>2, <2>1, <2>2
<1> HIDE DEF h
<1>5. Range(Append(queue[s], h)) = Range(queue[s]) \union {h}
  BY <1>1, <1>4, Appended
<1>6. CASE s \notin Known /\ untold'[s] = untold[s]
  BY <1>2, <1>6, Rests
<1>7. CASE s \in Known /\ queue'[s] = Append(queue[s], h) /\ untold'[s] = untold[s]
  <2>1. Flying(s)' = Flying(s)
    BY <1>2, <1>4, <1>5, <1>7 DEF Flying, Messages
  <2> QED BY <1>2, <1>7, <2>1, Rests
<1>8. CASE s \in Known /\ queue'[s] = queue[s] /\ untold'[s] = untold[s] \union ({h} \ {Gap})
  <2>1. Ordered(s)
    BY <1>1, <1>8 DEF InvAt, Flow
  <2>2. Messages(wire[s]) = Messages(wire'[s]) \union ({h} \ {Gap})
    BY <1>4 DEF Messages
  <2>3. h # Gap => /\ \A m \in Messages(hand[s]) \union Messages(queue[s]) : m < h
                   /\ \A m \in Messages(wire'[s]) \union Messages(equeue[s]) : h < m
    BY <1>4, <2>1, <2>2 DEF Ordered, Below
  <2>4. h # Gap => h \notin Messages(hand[s]) \union Messages(queue[s])
                              \union Messages(wire'[s]) \union Messages(equeue[s])
    BY <1>4, <2>3
  <2>5. Flying(s)' = Flying(s) \ ({h} \ {Gap}) /\ {h} \ {Gap} \subseteq Flying(s)
    BY <1>2, <1>8, <2>2, <2>4 DEF Flying
  <2> QED BY <1>2, <1>8, <2>5, Loses
<1> QED BY <1>3, <1>6, <1>7, <1>8

LEMMA TakeMoves ==
  ASSUME FeedInv, NEW s \in Subs, Take(s)
  PROVE  Moves(s)
<1> DEFINE h == Head(queue[s])
<1>1. TypeOK /\ QueueTypeOK /\ queue[s] \in Seq(Nat)
  BY Typed DEF FeedInv, TypeOK
<1>2. /\ hand[s] = <<>> /\ queue[s] # <<>> /\ queue'[s] = Tail(queue[s])
      /\ UNCHANGED <<stage, edge, sent, untold>>
  BY <1>1 DEF Take, QueueTypeOK, Queues
<1>3. /\ s \in owed => hand'[s] = <<Gap, h>>
      /\ s \notin owed => hand'[s] = <<h>>
  BY <1>1, Taken
<1>4. Range(queue[s]) = {h} \union Range(queue'[s])
  BY <1>1, <1>2, Removed
<1> HIDE DEF h
<1>5. Range(<<h>>) = {h} /\ Range(<<Gap, h>>) = {Gap, h}
  BY DEF Range
<1>6. Messages(hand'[s]) = {h} \ {Gap} /\ Messages(hand[s]) = {}
  BY <1>2, <1>3, <1>5, EmptyQueue DEF Messages
<1>7. Flying(s)' = Flying(s)
  BY <1>2, <1>4, <1>6 DEF Flying, Messages, edge
<1> QED BY <1>2, <1>7, Rests

LEMMA DeliverMoves ==
  ASSUME FeedInv, NEW s \in Subs, Deliver(s)
  PROVE  Moves(s)
<1> DEFINE h == Head(hand[s])
<1>1. TypeOK /\ QueueTypeOK /\ InvAt(s) /\ hand[s] \in Seq(Nat) /\ untold[s] \in SUBSET Nat
  BY Typed DEF FeedInv, InvAt, TypeOK
<1>2. /\ hand[s] # <<>> /\ hand'[s] = Tail(hand[s])
      /\ untold'[s] = IF h = Gap THEN {} ELSE untold[s]
      /\ UNCHANGED <<stage, queue, edge, sent>>
  BY <1>1 DEF Deliver, QueueTypeOK, Queues, TypeOK, SentTypeOK
<1>3. /\ Range(hand[s]) = {h} \union Range(hand'[s]) /\ h \in Nat
      /\ Sorted(hand[s]) /\ h # Gap => \A m \in Messages(hand'[s]) : h < m
      /\ Covered(hand[s], untold[s]) /\ h # Gap => \A m \in untold[s] : h < m
  <2>1. h \in Range(hand[s]) /\ Range(hand[s]) \subseteq Nat
    BY <1>1, <1>2, Removed, InRange
  <2>2. /\ Range(hand[s]) = {h} \union Range(Tail(hand[s]))
        /\ Sorted(hand[s]) /\ h # Gap => \A m \in Messages(Tail(hand[s])) : h < m
        /\ Covered(hand[s], untold[s]) /\ h # Gap => \A m \in untold[s] : h < m
    BY <1>1, <1>2, Removed
  <2> HIDE DEF h
  <2> QED BY <1>2, <2>1, <2>2
<1> HIDE DEF h
<1>4. (s \in Known' <=> s \in Known) /\ Part(s)' = Part(s)
  BY <1>2 DEF Known, Part
<1>5. Messages(hand[s]) = Messages(hand'[s]) \union ({h} \ {Gap})
  BY <1>3 DEF Messages
<1>6. CASE s \notin Known
  <2>1. untold[s] = {}
    BY <1>1, <1>6 DEF InvAt, Placed, Outside
  <2> QED BY <1>2, <1>6, <2>1, Rests
<1>7. CASE s \in Known /\ h = Gap
  <2>1. Flying(s)' = Flying(s)
    BY <1>2, <1>5, <1>7 DEF Flying, edge
  <2>2. Part(s) \in {"joining", "in"}
    BY <1>7 DEF Known, Part
  <2>3. /\ Bar(s) = [part |-> Part(s), sent |-> sent[s], untold |-> untold[s], flying |-> Flying(s)]
        /\ Bar(s)' = [part |-> Part(s), sent |-> sent[s], untold |-> {}, flying |-> Flying(s)]
    BY <1>2, <1>4, <1>7, <2>1 DEF Bar
  <2>4. Bar(s)' = [Bar(s) EXCEPT !.untold = {}] /\ Bar(s).part = Part(s)
    BY <2>3
  <2> QED BY <2>2, <2>4 DEF Moves, Promise!FeedStep, Promise!Tell
<1>8. CASE s \in Known /\ h # Gap
  <2>1. Ordered(s) /\ Warned(s)
    BY <1>1, <1>8 DEF InvAt, Flow
  <2>2. /\ h \in Messages(hand[s]) /\ Flying(s) = Flying(s)' \union {h}
        /\ \A m \in Flying(s)' : h < m
        /\ \A m \in untold[s] : h < m
    <3>1. h \in Messages(hand[s]) /\ Flying(s) = Flying(s)' \union {h}
      BY <1>2, <1>5, <1>8 DEF Flying, edge
    <3>2. Flying(s)' = Messages(hand'[s]) \union Messages(queue[s]) \union Messages(wire[s])
                         \union Messages(equeue[s])
      BY <1>2 DEF Flying, edge
    <3>3. \A m \in Flying(s)' : h < m
      BY <1>3, <1>8, <2>1, <3>1, <3>2 DEF Ordered, Below
    <3>4. \A m \in untold[s] : h < m
      BY <1>3, <1>8, <2>1 DEF Warned
    <3> QED BY <3>1, <3>3, <3>4
  <2>3. /\ Flying(s)' = Flying(s) \ {h} /\ h \in Flying(s)
        /\ \A m \in Flying(s) \union untold[s] : m >= h
    <3>1. h \notin Flying(s)'
      BY <1>3, <2>2
    <3>2. Flying(s) \subseteq Nat /\ untold[s] \subseteq Nat
      BY <1>1, Typed, InRange DEF Flying, Messages
    <3> QED BY <1>3, <2>2, <3>1, <3>2
  <2>4. /\ Bar(s) = [part |-> Part(s), sent |-> sent[s], untold |-> untold[s], flying |-> Flying(s)]
        /\ Bar(s)' = [part |-> Part(s), sent |-> sent[s], untold |-> untold[s],
                      flying |-> Flying(s) \ {h}]
    BY <1>2, <1>4, <1>8, <2>3 DEF Bar
  <2>5. Bar(s)' = [Bar(s) EXCEPT !.flying = @ \ {h}]
    BY <2>4
  <2>6. Bar(s).flying = Flying(s) /\ Bar(s).untold = untold[s]
    BY <2>4
  <2>7. Promise!Hear(Bar(s), Bar(s)')
    BY <2>3, <2>5, <2>6 DEF Promise!Hear
  <2> QED BY <2>7 DEF Moves, Promise!FeedStep
<1> QED BY <1>6, <1>7, <1>8

\* A lost stream or connection loses what was on it for every subscription.
LEMMA LostMoves ==
  ASSUME FeedInv, Drop \/ Lost, NEW s \in Subs
  PROVE  Moves(s)
<1> DEFINE gone == Range(equeue[s]) \union (IF Lost THEN Messages(wire[s]) ELSE {})
<1>1. InvAt(s)
  BY DEF FeedInv, InvAt
<1>2. /\ equeue'[s] = <<>> /\ wire'[s] = IF Lost THEN <<>> ELSE wire[s]
      /\ untold'[s] = IF s \in Known THEN untold[s] \union gone ELSE untold[s]
      /\ UNCHANGED <<stage, hand, queue, sent>>
  <2>1. CASE Lost
    BY <2>1 DEF Lost, EdgeGone, Losing, local
  <2>2. CASE Drop /\ ~Lost
    BY <2>2 DEF Drop, EdgeGone, Losing, local
  <2> QED BY <2>1, <2>2
<1>3. CASE s \notin Known
  BY <1>2, <1>3, Rests
<1>4. CASE s \in Known
  <2>1. Ordered(s) /\ Numbered(s) /\ TypeOK
    BY <1>1, <1>4 DEF InvAt, Flow, Placed, FeedInv
  <2>2. Range(equeue[s]) = Messages(equeue[s]) /\ Messages(<<>>) = {}
    BY <2>1, EmptyQueue DEF Numbered, Messages
  <2>3. gone \subseteq Flying(s)
    BY <2>2 DEF Flying
  <2>4. \A m \in Flying(s) : m \in Nat
    BY <2>1, Typed, InRange DEF Flying, Messages
  <2>5. /\ \A q \in {hand[s], queue[s], wire[s]}, m \in Messages(equeue[s]) : m \notin Messages(q)
        /\ \A q \in {hand[s], queue[s]}, m \in Messages(wire[s]) : m \notin Messages(q)
    <3>1. /\ \A q \in {hand[s], queue[s], wire[s]} : Below(q, equeue[s])
          /\ \A q \in {hand[s], queue[s]} : Below(q, wire[s])
      BY <2>1 DEF Ordered
    <3>2. \A m \in Messages(equeue[s]) \union Messages(wire[s]) : m \in Nat /\ ~(m < m)
      BY <2>4 DEF Flying
    <3> QED BY <3>1, <3>2 DEF Below
  <2>6. Flying(s)' = Messages(hand[s]) \union Messages(queue[s])
                       \union (IF Lost THEN {} ELSE Messages(wire[s]))
    BY <1>2, <2>2 DEF Flying
  <2>7. Flying(s)' = Flying(s) \ gone
    BY <2>2, <2>5, <2>6 DEF Flying
  <2> HIDE DEF gone
  <2> QED BY <1>2, <1>4, <2>3, <2>7, Loses
<1> QED BY <1>3, <1>4

LEMMA OpenMoves ==
  ASSUME FeedInv, Open, NEW s \in Subs
  PROVE  Moves(s)
<1>1. TypeOK /\ QueueTypeOK /\ queue[s] \in Seq(Nat)
  BY Typed DEF FeedInv, TypeOK
<1>2. /\ queue'[s] \in {queue[s], Append(queue[s], Gap)}
      /\ UNCHANGED <<stage, hand, equeue, wire, sent, untold>>
  BY DEF Open, Told
<1>3. Gap \in Nat
  BY DEF Gap
<1>4. Range(Append(queue[s], Gap)) = Range(queue[s]) \union {Gap}
  BY <1>1, <1>3, Appended
<1>5. Messages(queue'[s]) = Messages(queue[s])
  BY <1>2, <1>4 DEF Messages
<1>6. Flying(s)' = Flying(s)
  BY <1>2, <1>5 DEF Flying
<1> QED BY <1>2, <1>6, Rests

LEMMA ShutdownMoves ==
  ASSUME FeedInv, Shutdown, NEW s \in Subs
  PROVE  Moves(s)
<1>1. InvAt(s)
  BY DEF FeedInv, InvAt
<1>2. /\ sent' = sent /\ untold'[s] = {}
      /\ stage'[s] = IF s \in Known THEN "left" ELSE stage[s]
  BY DEF Shutdown
<1>3. CASE s \notin Known
  <2>1. untold[s] = {}
    BY <1>1, <1>3 DEF InvAt, Placed, Outside
  <2> QED BY <1>2, <1>3, <2>1, Rests
<1>4. CASE s \in Known
  <2>1. s \notin Known' /\ Part(s) \in {"joining", "in"} /\ Part(s)' = "left"
    BY <1>2, <1>4 DEF Known, Part
  <2> QED BY <1>2, <1>4, <2>1 DEF Moves, Bar, Promise!FeedStep, Promise!Leave
<1> QED BY <1>3, <1>4

LEMMA EveryoneMoves ==
  ASSUME FeedInv, [Next]_vars, NEW t \in Subs
  PROVE  Moves(t)
<1>1. CASE UNCHANGED vars \/ \E k \in Loops : Finish(k)
  <2>1. UNCHANGED <<stage, hand, queue, wire, equeue, sent, untold>>
    BY <1>1 DEF vars, local, edge, Finish
  <2> QED BY <2>1, Rests DEF Flying
<1>2. ASSUME NEW s \in Subs,
             \/ Subscribe(s) \/ PostSubscribe(s) \/ SubscribedAtEdge(s) \/ SubscribeDone(s)
             \/ SubscribeFails(s) \/ Unsubscribe(s) \/ PostClose(s) \/ Publish(s) \/ Write(s)
             \/ Receive(s) \/ Register(s) \/ Take(s) \/ Deliver(s)
      PROVE  Moves(t)
  <2>1. CASE t = s
    BY <1>2, <2>1, CallMoves, PublishMoves, WriteMoves, ReceiveMoves, TakeMoves, DeliverMoves
  <2>2. CASE t # s
    BY <1>2, <2>2, OthersRest DEF FeedInv, Moves
  <2> QED BY <2>1, <2>2
<1>3. CASE Drop \/ Lost \/ Open \/ Shutdown
  BY <1>3, LostMoves, OpenMoves, ShutdownMoves
<1> QED BY <1>1, <1>2, <1>3 DEF Next

\* KeepsFeedPromise: every subscription hears its messages in order and at most
\* once, and of a gap before any message that follows a lost one.
THEOREM FeedKeepsPromise == Spec => KeepsFeedPromise
<1>1. Init => Promise!Init
  <2> SUFFICES ASSUME Init, NEW s \in Subs PROVE Bar(s) = Promise!Idle
    BY DEF Promise!Init, feedBar, Bar
  <2>1. s \notin Known /\ Part(s) = "out"
    BY DEF Init, Known, Part
  <2> QED BY <2>1 DEF Init, Bar, Promise!Idle
<1>2. FeedInv /\ [Next]_vars => [Promise!Next]_feedBar
  <2> SUFFICES ASSUME FeedInv, [Next]_vars PROVE Promise!Next
    OBVIOUS
  <2>1. feedBar = [s \in Subs |-> Bar(s)] /\ feedBar' = [s \in Subs |-> Bar(s)']
    BY DEF feedBar, Bar
  <2>2. feedBar' = [s \in Subs |-> feedBar'[s]]
    BY <2>1
  <2>3. ASSUME NEW s \in Subs
        PROVE  feedBar'[s] = feedBar[s] \/ Promise!FeedStep(feedBar[s], feedBar'[s])
    BY <2>1, EveryoneMoves DEF Moves
  <2> QED BY <2>2, <2>3 DEF Promise!Next
<1> QED BY <1>1, <1>2, FeedInvariant, PTL DEF Spec, KeepsFeedPromise, Promise!Spec
=============================================================================
