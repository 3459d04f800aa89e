----------------------------- MODULE RemoteFeed -----------------------------
(***************************************************************************)
(* Subscriptions of a remote part: packages/sdk/src/remote-client.ts and   *)
(* packages/sdk/src/remote-edge.ts, over the in-process subscription the   *)
(* edge holds for each (packages/sdk/src/in-process.ts, #subscribe).       *)
(*                                                                         *)
(* A message passes the edge's queue, the event stream and the client's    *)
(* queue.  Each queue drops when it is full, and the stream may be lost at *)
(* any time; the client then opens another and registers its subscriptions *)
(* again, one call after the other, while its handlers go on.              *)
(*                                                                         *)
(* Loop k is the k-th run of #reconnect, which opens the k-th stream; loop *)
(* 1 stands for start().  A stream lost while its loop still registers     *)
(* leaves that loop running beside the next one.                           *)
(***************************************************************************)
EXTENDS Naturals, Sequences, Functions

CONSTANTS
  Subs,         \* the subscribe() calls that may happen
  MaxSent,      \* bound on the messages published for one subscription
  MaxLoops,     \* bound on the streams opened
  MaxQueued,    \* messages that wait in one queue, at the edge and the client
  MaxFrames     \* frames of one subscription the socket takes before it is full

ASSUME FeedAssumption ==
  /\ MaxSent \in Nat
  /\ MaxLoops \in Nat \ {0}
  /\ MaxQueued \in Nat \ {0}
  /\ MaxFrames \in Nat \ {0}

VARIABLES
  \* The client's stream.
  closed,     \* the participant was closed
  loop,       \* the newest loop: #connected is its promise
  up,         \* its stream is open: #current is set
  tried,      \* subscriptions the newest loop has posted
  finished,   \* loops that are done: their `ready' is resolved
  \* The client's subscriptions.
  stage,      \* [Subs]: where subscribe() or close() stands
  via,        \* [Subs]: the loop whose connection its own call uses
  ready,      \* [Subs]: the loop its next gap waits for, 0 if none
  queue,      \* [Subs]: items that wait for the handler
  owed,       \* subscriptions whose full queue folded a gap: dropped, unknownGap
  hand,       \* [Subs]: what the delivery under way has still to tell
  awaits,     \* [Subs]: the loop that delivery awaits, 0 if none
  \* The edge's side of the newest stream, and the socket between.
  open,       \* the edge's connection is open
  held,       \* subscriptions registered on it
  equeue,     \* [Subs]: messages that wait in the edge's queue
  edropped,   \* subscriptions whose edge queue dropped a message
  wire,       \* [Subs]: frames written and not yet read
  \* The messages.
  sent,       \* [Subs]: how many were published
  untold      \* [Subs]: the lost ones nobody was told of since (history)

client == <<closed, loop, up, tried, finished>>
local  == <<stage, via, ready, queue, owed, hand, awaits>>
edge   == <<open, held, equeue, edropped, wire>>
vars   == <<client, local, edge, sent, untold>>

Gap == 0     \* a gap notice; messages are numbered from 1
Loops == 0..MaxLoops
Items == 0..MaxSent
Stages == {"out", "calling", "posting", "posted", "in", "leaving", "left"}

\* #subscriptions holds it: frames find it and a reconnect registers it.
Known == {s \in Subs : stage[s] \in {"posting", "posted", "in"}}

StreamTypeOK ==
  /\ closed \in BOOLEAN /\ up \in BOOLEAN /\ open \in BOOLEAN
  /\ loop \in 1..MaxLoops
  /\ tried \subseteq Subs
  /\ finished \subseteq 1..loop
  /\ held \subseteq Subs /\ edropped \subseteq held

StageTypeOK ==
  /\ stage \in [Subs -> Stages]
  /\ via \in [Subs -> Loops] /\ ready \in [Subs -> Loops]
  /\ awaits \in [Subs -> Loops]
  /\ owed \subseteq Known

\* A queue of each subscription, with at most n items.
Queues(n) == {q \in [Subs -> Seq(Items)] : \A s \in Subs : Len(q[s]) <= n}

QueueTypeOK ==
  /\ equeue \in Queues(MaxQueued) /\ wire \in Queues(MaxFrames + 1)
  /\ queue \in Queues(MaxQueued)  /\ hand \in Queues(2)

SentTypeOK ==
  /\ sent \in [Subs -> Items] /\ untold \in [Subs -> SUBSET Items]
  /\ \A s \in Subs : untold[s] \subseteq 1..sent[s]

TypeOK == StreamTypeOK /\ StageTypeOK /\ QueueTypeOK /\ SentTypeOK

Init ==
  /\ closed = FALSE /\ loop = 1 /\ up = TRUE /\ tried = {} /\ finished = {1}
  /\ stage = [s \in Subs |-> "out"]
  /\ via = [s \in Subs |-> 0]
  /\ ready = [s \in Subs |-> 0]
  /\ queue = [s \in Subs |-> <<>>]
  /\ owed = {}
  /\ hand = [s \in Subs |-> <<>>]
  /\ awaits = [s \in Subs |-> 0]
  /\ open = TRUE /\ held = {}
  /\ equeue = [s \in Subs |-> <<>>]
  /\ edropped = {}
  /\ wire = [s \in Subs |-> <<>>]
  /\ sent = [s \in Subs |-> 0]
  /\ untold = [s \in Subs |-> {}]

-----------------------------------------------------------------------------
(* Helpers.                                                                *)

Messages(items) == Range(items) \ {Gap}

\* What is lost for the subscriptions in S; others were promised nothing.
Losing(S, gone) ==
  untold' = [s \in Subs |-> IF s \in S THEN untold[s] \union gone[s] ELSE untold[s]]

\* The edge's connection ends: its subscriptions and their queues go.
EdgeGone ==
  /\ open' = FALSE
  /\ held' = {}
  /\ equeue' = [s \in Subs |-> <<>>]
  /\ edropped' = {}

\* The rest of subscription s: its queue is closed and its items dropped.
Forgotten(s) ==
  /\ queue' = [queue EXCEPT ![s] = <<>>]
  /\ owed' = owed \ {s}
  /\ untold' = [untold EXCEPT ![s] = {}]

\* What a delivery that has `items' left awaits: a gap reads `ready' anew.
Awaited(s, items) == IF items # <<>> /\ Head(items) = Gap THEN ready[s] ELSE 0

-----------------------------------------------------------------------------
(* subscribe() and close() at the client.                                  *)

\* #subscribe awaits #connected.
Subscribe(s) ==
  /\ ~closed /\ stage[s] = "out"
  /\ stage' = [stage EXCEPT ![s] = "calling"]
  /\ via' = [via EXCEPT ![s] = loop]
  /\ UNCHANGED <<client, ready, queue, owed, hand, awaits, edge, sent, untold>>

\* It is known here before the edge is asked.
PostSubscribe(s) ==
  /\ stage[s] = "calling" /\ via[s] \in finished /\ ~closed
  /\ stage' = [stage EXCEPT ![s] = "posting"]
  /\ UNCHANGED <<client, via, ready, queue, owed, hand, awaits, edge, sent, untold>>

\* The edge registers it, if the connection it names is still open.
SubscribedAtEdge(s) ==
  /\ stage[s] = "posting" /\ via[s] = loop /\ up /\ open
  /\ held' = held \union {s}
  /\ stage' = [stage EXCEPT ![s] = "posted"]
  /\ UNCHANGED <<client, via, ready, queue, owed, hand, awaits, open, equeue,
                 edropped, wire, sent, untold>>

SubscribeDone(s) ==
  /\ stage[s] = "posted"
  /\ stage' = [stage EXCEPT ![s] = "in"]
  /\ via' = [via EXCEPT ![s] = 0]
  /\ UNCHANGED <<client, ready, queue, owed, hand, awaits, edge, sent, untold>>

\* The call failed, at the edge or on its way back; #forget follows.
SubscribeFails(s) ==
  /\ stage[s] \in {"posting", "posted"}
  /\ stage' = [stage EXCEPT ![s] = "leaving"]
  /\ via' = [via EXCEPT ![s] = loop]
  /\ Forgotten(s)
  /\ UNCHANGED <<client, ready, hand, awaits, edge, sent>>

\* close(), #unregister: forgotten here first, then at the edge.
Unsubscribe(s) ==
  /\ stage[s] = "in"
  /\ stage' = [stage EXCEPT ![s] = "leaving"]
  /\ via' = [via EXCEPT ![s] = loop]
  /\ Forgotten(s)
  /\ UNCHANGED <<client, ready, hand, awaits, edge, sent>>

\* The close call goes to the connection #connected named, or fails.
PostClose(s) ==
  /\ stage[s] = "leaving" /\ via[s] \in finished
  /\ \/ /\ via[s] = loop /\ up /\ open
        /\ held' = held \ {s}
        /\ equeue' = [equeue EXCEPT ![s] = <<>>]
        /\ edropped' = edropped \ {s}
     \/ UNCHANGED <<held, equeue, edropped>>
  /\ stage' = [stage EXCEPT ![s] = "left"]
  /\ via' = [via EXCEPT ![s] = 0]
  /\ UNCHANGED <<client, ready, queue, owed, hand, awaits, open, wire, sent,
                 untold>>

-----------------------------------------------------------------------------
(* The edge: one in-process subscription per registered id.                *)

Publish(s) ==
  /\ s \in Known /\ sent[s] < MaxSent
  /\ LET n == sent[s] + 1 IN
     /\ sent' = [sent EXCEPT ![s] = n]
     /\ IF s \in held
        THEN IF Len(equeue[s]) < MaxQueued
             THEN /\ equeue' = [equeue EXCEPT ![s] = Append(@, n)]
                  /\ UNCHANGED <<edropped, untold>>
             ELSE /\ edropped' = edropped \union {s}
                  /\ untold' = [untold EXCEPT ![s] = @ \union {n}]
                  /\ UNCHANGED equeue
        ELSE /\ untold' = [untold EXCEPT ![s] =
                             IF stage[s] = "in" THEN @ \union {n} ELSE @]
             /\ UNCHANGED <<equeue, edropped>>
  /\ UNCHANGED <<client, local, open, held, wire>>

\* Mutant: the edge writes on although the socket is full.
WriteOn(s) ==
  /\ equeue[s] # <<>>
  /\ equeue' = [equeue EXCEPT ![s] = Tail(@)]
  /\ edropped' = edropped \ {s}
  /\ wire' = [wire EXCEPT ![s] =
                @ \o (IF s \in edropped THEN <<Gap>> ELSE <<>>)
                  \o <<Head(equeue[s])>>]
  /\ UNCHANGED <<client, local, open, held, sent, untold>>

\* The subscription's handler: onOverflow's frame first, then the message's.
\* A full socket makes it wait, so its queue fills.
Write(s) ==
  /\ equeue[s] # <<>> /\ Len(wire[s]) < MaxFrames
  /\ equeue' = [equeue EXCEPT ![s] = Tail(@)]
  /\ edropped' = edropped \ {s}
  /\ wire' = [wire EXCEPT ![s] =
                @ \o (IF s \in edropped THEN <<Gap>> ELSE <<>>)
                  \o <<Head(equeue[s])>>]
  /\ UNCHANGED <<client, local, open, held, sent, untold>>

\* #drop: a stalled reader, a disconnect, a revoked credential, a lost socket.
Drop ==
  /\ open /\ loop < MaxLoops
  /\ EdgeGone
  /\ Losing(Known, [s \in Subs |-> Range(equeue[s])])
  /\ UNCHANGED <<client, local, wire, sent>>

-----------------------------------------------------------------------------
(* The client's stream.                                                    *)

\* #gap: a full queue folds the gap into the next notice.
Told(S, item) ==
  /\ queue' = [s \in Subs |->
                 IF s \in S /\ Len(queue[s]) < MaxQueued
                 THEN Append(queue[s], item[s]) ELSE queue[s]]
  /\ owed' = owed \union {s \in S : Len(queue[s]) = MaxQueued}

\* #receive: a message or overflow frame; one for an unknown id is ignored.
Receive(s) ==
  /\ up /\ wire[s] # <<>>
  /\ wire' = [wire EXCEPT ![s] = Tail(@)]
  /\ LET item == Head(wire[s]) IN
     /\ Told({s} \intersect Known, [t \in Subs |-> item])
     /\ untold' = [untold EXCEPT ![s] =
                     IF s \in Known /\ item # Gap /\ Len(queue[s]) = MaxQueued
                     THEN @ \union {item} ELSE @]
  /\ UNCHANGED <<client, stage, via, ready, hand, awaits, open, held, equeue,
                 edropped, sent>>

\* #lost: the stream ended, failed or was silent past idleMs.  What was still
\* on it is gone, and so is whatever the edge still had for it.
Lost ==
  /\ up /\ loop < MaxLoops
  /\ up' = FALSE /\ loop' = loop + 1 /\ tried' = {}
  /\ EdgeGone
  /\ wire' = [s \in Subs |-> <<>>]
  /\ Losing(Known, [s \in Subs |-> Range(equeue[s]) \union Messages(wire[s])])
  /\ UNCHANGED <<closed, finished, local, sent>>

\* #reconnect, up to its first await: every subscription is told of a gap that
\* waits until all of them are registered.  Failed attempts change nothing.
Open ==
  /\ ~up /\ ~closed
  /\ up' = TRUE /\ open' = TRUE
  /\ ready' = [s \in Subs |-> IF s \in Known THEN loop ELSE ready[s]]
  /\ Told(Known, [s \in Subs |-> Gap])
  /\ UNCHANGED <<closed, loop, tried, finished, stage, via, hand, awaits, held,
                 equeue, edropped, wire, sent, untold>>

\* One registration of the newest loop; a failed one is only reported.
Register(s) ==
  /\ up /\ loop \notin finished
  /\ s \in Known \ tried
  /\ tried' = tried \union {s}
  /\ \/ open /\ held' = held \union {s}
     \/ UNCHANGED held
  /\ UNCHANGED <<closed, loop, up, finished, local, open, equeue, edropped, wire,
                 sent, untold>>

\* Mutant: registered() is called only when every call succeeded.
FinishIfAllHeld(k) ==
  /\ k \in (2..loop) \ finished
  /\ k = loop => closed \/ (up /\ Known \subseteq held)
  /\ finished' = finished \union {k}
  /\ tried' = IF k = loop THEN {} ELSE tried
  /\ UNCHANGED <<closed, loop, up, local, edge, sent, untold>>

\* A loop is done once it tried them all; the calls of one whose stream was
\* lost since all fail.
Finish(k) ==
  /\ k \in (2..loop) \ finished
  /\ k = loop => closed \/ (up /\ Known \subseteq tried)
  /\ finished' = finished \union {k}
  /\ tried' = IF k = loop THEN {} ELSE tried
  /\ UNCHANGED <<closed, loop, up, local, edge, sent, untold>>

-----------------------------------------------------------------------------
(* The client's deliveries: one at a time for each subscription.           *)

\* Mutant: what was dropped is forgotten, not told.
TakeWithoutNotice(s) ==
  /\ hand[s] = <<>> /\ queue[s] # <<>>
  /\ queue' = [queue EXCEPT ![s] = Tail(@)]
  /\ owed' = owed \ {s}
  /\ LET items == <<Head(queue[s])>>
     IN /\ hand' = [hand EXCEPT ![s] = items]
        /\ awaits' = [awaits EXCEPT ![s] = Awaited(s, items)]
  /\ UNCHANGED <<client, stage, via, ready, edge, sent, untold>>

\* It takes the notice of what was dropped so far, to tell before the item.
Take(s) ==
  /\ hand[s] = <<>> /\ queue[s] # <<>>
  /\ queue' = [queue EXCEPT ![s] = Tail(@)]
  /\ owed' = owed \ {s}
  /\ LET items == (IF s \in owed THEN <<Gap>> ELSE <<>>) \o <<Head(queue[s])>>
     IN /\ hand' = [hand EXCEPT ![s] = items]
        /\ awaits' = [awaits EXCEPT ![s] = Awaited(s, items)]
  /\ UNCHANGED <<client, stage, via, ready, edge, sent, untold>>

\* Mutant: a gap is told without waiting for the registrations.
DeliverAtOnce(s) ==
  /\ hand[s] # <<>>
  /\ hand' = [hand EXCEPT ![s] = Tail(@)]
  /\ awaits' = [awaits EXCEPT ![s] = Awaited(s, Tail(hand[s]))]
  /\ untold' = [untold EXCEPT ![s] = IF Head(hand[s]) = Gap THEN {} ELSE @]
  /\ UNCHANGED <<client, stage, via, ready, queue, owed, edge, sent>>

\* The handler or onOverflow is called; a gap first awaits `ready'.
Deliver(s) ==
  /\ hand[s] # <<>>
  /\ awaits[s] \in finished \union {0}
  /\ hand' = [hand EXCEPT ![s] = Tail(@)]
  /\ awaits' = [awaits EXCEPT ![s] = Awaited(s, Tail(hand[s]))]
  /\ untold' = [untold EXCEPT ![s] = IF Head(hand[s]) = Gap THEN {} ELSE @]
  /\ UNCHANGED <<client, stage, via, ready, queue, owed, edge, sent>>

-----------------------------------------------------------------------------
\* close() of the participant: the stream goes, and every queue is closed.
\* A call still under way fails or is ignored; a running loop ends by itself.
Shutdown ==
  /\ ~closed
  /\ closed' = TRUE /\ up' = FALSE
  /\ EdgeGone
  /\ wire' = [s \in Subs |-> <<>>]
  /\ stage' = [s \in Subs |-> IF s \in Known THEN "left" ELSE stage[s]]
  /\ queue' = [s \in Subs |-> <<>>]
  /\ owed' = {}
  /\ untold' = [s \in Subs |-> {}]
  /\ UNCHANGED <<loop, tried, finished, via, ready, hand, awaits, sent>>

Next ==
  \/ \E s \in Subs :
       \/ Subscribe(s) \/ PostSubscribe(s) \/ SubscribedAtEdge(s)
       \/ SubscribeDone(s) \/ SubscribeFails(s) \/ Unsubscribe(s) \/ PostClose(s)
       \/ Publish(s) \/ Write(s) \/ Receive(s)
       \/ Register(s) \/ Take(s) \/ Deliver(s)
  \/ \E k \in Loops : Finish(k)
  \/ Drop \/ Lost \/ Open \/ Shutdown

Spec == Init /\ [][Next]_vars

\* Calls are answered or fail, streams open again, a stream the edge ended is
\* found lost (its end, or idleMs), the socket drains and handlers end.
Fairness ==
  /\ WF_vars(Open)
  /\ WF_vars(~open /\ Lost)
  /\ \A k \in Loops : WF_vars(Finish(k))
  /\ \A s \in Subs : /\ WF_vars(Register(s))
                     /\ WF_vars(Write(s))
                     /\ WF_vars(Receive(s))
                     /\ WF_vars(Take(s))
                     /\ WF_vars(Deliver(s))

FairSpec == Spec /\ Fairness

-----------------------------------------------------------------------------
(* Properties.                                                             *)

GapPending(s) ==
  s \in owed \/ Gap \in Range(queue[s]) \/ Gap \in Range(hand[s])

\* While a reconnect still registers, every subscription it found has a gap
\* coming, whatever its queue, its handler and an older loop do: a copy that
\* syncs again on its last gap never asks before its subscriptions exist.
GapOutlastsRegistration ==
  \A s \in Known : up /\ loop \notin finished /\ ready[s] = loop => GapPending(s)

\* The registration failed on the stream that is open now.
Unregistered(s) ==
  up /\ open /\ loop \in finished /\ s \in Known \ held

\* A lost message is told of at last, if the streams come back, except to a
\* subscription whose registration failed: it waits for the next lost stream.
LossIsTold ==
  \A s \in Subs : untold[s] # {} ~> untold[s] = {} \/ Unregistered(s)

\* The feed keeps the promise FeedPromise makes for every subscription.
Part(s) == CASE stage[s] \in {"out", "calling"}    -> "out"
             [] stage[s] \in {"posting", "posted"} -> "joining"
             [] stage[s] = "in"                    -> "in"
             [] OTHER                              -> "left"

Flying(s) == UNION {Messages(equeue[s]), Messages(wire[s]), Messages(queue[s]),
                    Messages(hand[s])}

feedBar == [s \in Subs |->
              [part |-> Part(s), sent |-> sent[s], untold |-> untold[s],
               flying |-> IF s \in Known THEN Flying(s) ELSE {}]]

Promise == INSTANCE FeedPromise WITH feed <- feedBar

KeepsFeedPromise == Promise!Spec
=============================================================================
