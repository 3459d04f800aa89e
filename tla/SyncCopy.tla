------------------------------ MODULE SyncCopy ------------------------------
(***************************************************************************)
(* A consumer's copy of one owner's entities: packages/sdk/src/sync.ts     *)
(* (Copy), fed by one in-process subscription per family                   *)
(* (packages/sdk/src/in-process.ts, #subscribe, over queue.ts) and by      *)
(* snapshots the owner serves (packages/sdk/src/in-process-sync.ts).       *)
(*                                                                         *)
(* The owner's n-th change has revision n and is one message, a state or a *)
(* removal; a message is its revision.  Changes go out in order, after     *)
(* they are part of what a snapshot shows, and some may go out again: the  *)
(* owner's outbox repeats what it had not settled.  Every await of the     *)
(* copy is a point between two actions.                                    *)
(*                                                                         *)
(* There is one owner; a shared family's other owners, whose messages the  *)
(* copy drops, are left out, as are malformed answers.                     *)
(***************************************************************************)
EXTENDS Naturals, Sequences, FiniteSetsExt, SequencesExt

CONSTANTS
  Entities,
  Families,      \* the families the copy asks for
  FamilyOf,      \* [Entities -> Families]
  MaxQueued,     \* messages a subscription's queue holds
  MaxBuffered,   \* live messages the copy buffers
  MaxRevision,   \* bound: changes of the owner
  MaxAgain       \* bound: times the owner sends something again

ASSUME SyncAssumption ==
  /\ FamilyOf \in [Entities -> Families]
  /\ MaxQueued \in Nat \ {0} /\ MaxBuffered \in Nat \ {0}
  /\ MaxRevision \in Nat /\ MaxAgain \in Nat

VARIABLES
  log,         \* the owner's changes, by revision
  published,   \* changes 1..published have gone out
  again,       \* how often something was sent again
  inbox,       \* [Families]: the subscription's waiting messages
  dropped,     \* families whose queue lost a message not yet reported
  hand,        \* [Families]: the message being delivered, or 0
  subscribed,  \* families subscribed so far
  phase,       \* syncing, live or closed
  held,        \* [Entities]: the revision the copy holds, or 0
  removed,     \* [Entities]: the removal it remembers, or 0
  floor,       \* the last sync's revision
  pending,     \* buffered live messages
  generation,  \* overflows so far
  wanted,      \* a sync is needed
  request,     \* no, sent or served: the outstanding request
  answered,    \* no, served or refused: the answer the worker has not taken
  asked,       \* generation of the request or of its answer
  snapshot,    \* revision of the answer
  telling,     \* what the worker still has to tell the handler
  first,       \* sync(): waiting, asked, or how it ended
  told,        \* [Entities]: what the handler knows (history)
  seen         \* [Entities]: newest revision the copy took in (history)

ownerVars == <<log, published, again>>
feedVars  == <<inbox, dropped, hand>>
dataVars  == <<held, removed, floor, seen>>
askVars   == <<request, answered, asked, snapshot>>
vars == <<ownerVars, feedVars, subscribed, phase, dataVars, pending, generation,
          wanted, askVars, telling, first, told>>

Revisions == 0..MaxRevision

TypeOK ==
  /\ log \in Seq([kind : {"state", "removal"}, entity : Entities])
  /\ published \in Revisions /\ again \in 0..MaxAgain
  /\ inbox \in [Families -> Seq(Revisions)]
  /\ dropped \subseteq Families
  /\ hand \in [Families -> Revisions]
  /\ subscribed \subseteq Families
  /\ phase \in {"syncing", "live", "closed"}
  /\ held \in [Entities -> Revisions] /\ removed \in [Entities -> Revisions]
  /\ floor \in Revisions
  /\ pending \in Seq(Revisions) /\ Len(pending) <= MaxBuffered
  /\ generation \in Nat /\ wanted \in BOOLEAN
  /\ request \in {"no", "sent", "served"} /\ answered \in {"no", "served", "refused"}
  /\ asked \in Nat /\ snapshot \in Revisions
  /\ telling \in Seq([kind : {"updated", "removed"}, entity : Entities, revision : Revisions]
                       \union [kind : {"synced", "done"}])
  /\ first \in {"waiting", "asked", "synced", "refused", "closed"}
  /\ told \in [Entities -> Revisions] /\ seen \in [Entities -> Revisions]

Init ==
  /\ log = <<>> /\ published = 0 /\ again = 0
  /\ inbox = [f \in Families |-> <<>>] /\ dropped = {}
  /\ hand = [f \in Families |-> 0]
  /\ subscribed = {}
  /\ phase = "syncing"
  /\ held = [e \in Entities |-> 0] /\ removed = [e \in Entities |-> 0]
  /\ floor = 0 /\ seen = [e \in Entities |-> 0]
  /\ pending = <<>> /\ generation = 0 /\ wanted = FALSE
  /\ request = "no" /\ answered = "no" /\ asked = 0 /\ snapshot = 0
  /\ telling = <<>> /\ first = "waiting"
  /\ told = [e \in Entities |-> 0]

-----------------------------------------------------------------------------
(* The owner (external: any module or the core).                           *)

ChangesOf(e, n) == {k \in 1..n : log[k].entity = e}

\* The revision of e's record in the owner's state at revision n, or 0.
StateAt(e, n) ==
  IF ChangesOf(e, n) = {} THEN 0
  ELSE LET k == Max(ChangesOf(e, n))
       IN  IF log[k].kind = "state" THEN k ELSE 0

Change(e, kind) ==
  /\ Len(log) < MaxRevision
  /\ kind = "removal" => StateAt(e, Len(log)) # 0
  /\ log' = Append(log, [kind |-> kind, entity |-> e])
  /\ UNCHANGED <<published, again, feedVars, subscribed, phase, dataVars,
                 pending, generation, wanted, askVars, telling, first, told>>

\* #deliver: the next change goes to its family's queue, if it has room.
Publish ==
  LET rev == published + 1
      f   == FamilyOf[log[rev].entity]
  IN
  /\ published < Len(log)
  /\ published' = rev
  /\ IF f \notin subscribed THEN UNCHANGED <<inbox, dropped>>
     ELSE IF Len(inbox[f]) < MaxQueued
     THEN inbox' = [inbox EXCEPT ![f] = Append(@, rev)] /\ UNCHANGED dropped
     ELSE dropped' = dropped \union {f} /\ UNCHANGED inbox
  /\ UNCHANGED <<log, again, hand, subscribed, phase, dataVars, pending,
                 generation, wanted, askVars, telling, first, told>>

\* What the outbox had not settled goes out again, after newer messages.
SendAgain ==
  /\ again < MaxAgain /\ again' = again + 1
  /\ \E n \in 0..(published - 1) : published' = n
  /\ UNCHANGED <<log, feedVars, subscribed, phase, dataVars, pending,
                 generation, wanted, askVars, telling, first, told>>

-----------------------------------------------------------------------------
(* The feed: subscriptions, gaps and arrivals.                             *)

\* start(): no request goes out before every family is subscribed.
Subscribe(f) ==
  /\ phase # "closed" /\ f \notin subscribed
  /\ subscribed' = subscribed \union {f}
  /\ wanted' = (wanted \/ subscribed' = Families)
  /\ UNCHANGED <<ownerVars, feedVars, phase, dataVars, pending, generation, askVars,
                 telling, first, told>>

\* Mutant: an overflow leaves an answer on its way valid.
OverflowKeepsGeneration ==
  phase' = "syncing" /\ pending' = <<>> /\ wanted' = TRUE /\ UNCHANGED generation

\* #overflow: what was buffered is dropped, and answers on their way are stale.
Overflow ==
  /\ phase' = "syncing"
  /\ pending' = <<>>
  /\ generation' = generation + 1
  /\ wanted' = TRUE

NoOverflow == UNCHANGED <<phase, pending, generation, wanted>>

\* Mutant: a full queue loses messages without a report.
ShiftSilently(f) ==
  /\ phase # "closed" /\ inbox[f] # <<>> /\ hand[f] = 0
  /\ hand' = [hand EXCEPT ![f] = Head(inbox[f])]
  /\ inbox' = [inbox EXCEPT ![f] = Tail(@)]
  /\ dropped' = dropped \ {f} /\ NoOverflow
  /\ UNCHANGED <<ownerVars, subscribed, dataVars, askVars, telling, first, told>>

\* The queue hands out its next message, and first reports what it lost.
Shift(f) ==
  /\ phase # "closed" /\ inbox[f] # <<>> /\ hand[f] = 0
  /\ hand' = [hand EXCEPT ![f] = Head(inbox[f])]
  /\ inbox' = [inbox EXCEPT ![f] = Tail(@)]
  /\ dropped' = dropped \ {f}
  /\ IF f \in dropped THEN Overflow ELSE NoOverflow
  /\ UNCHANGED <<ownerVars, subscribed, dataVars, askVars, telling, first, told>>

\* Mutant: the buffer has no limit.
ArriveUnbounded(f) ==
  /\ phase # "closed" /\ hand[f] # 0
  /\ hand' = [hand EXCEPT ![f] = 0]
  /\ pending' = Append(pending, hand[f])
  /\ UNCHANGED <<ownerVars, inbox, dropped, subscribed, phase, dataVars, generation,
                 wanted, askVars, telling, first, told>>

\* #arrive: a full buffer would lose the message, so the copy syncs again.
Arrive(f) ==
  /\ phase # "closed" /\ hand[f] # 0
  /\ hand' = [hand EXCEPT ![f] = 0]
  /\ \/ Len(pending) >= MaxBuffered /\ Overflow
     \/ /\ Len(pending) < MaxBuffered
        /\ pending' = Append(pending, hand[f])
        /\ UNCHANGED <<phase, generation, wanted>>
  /\ UNCHANGED <<ownerVars, inbox, dropped, subscribed, dataVars, askVars, telling,
                 first, told>>

-----------------------------------------------------------------------------
(* The request and its answer.                                             *)

\* The owner answers from its state at that moment; the answer takes its time.
Serve ==
  /\ request = "sent"
  /\ request' = "served" /\ snapshot' = Len(log)
  /\ UNCHANGED <<ownerVars, feedVars, subscribed, phase, dataVars, pending, generation,
                 wanted, answered, asked, telling, first, told>>

\* #arrived: the answer, or a refusal (no owner, no room, no answer in time).
Answered(how) ==
  /\ \/ request = "served" /\ how = "served"
     \/ request # "no" /\ how = "refused"
  /\ request' = "no" /\ answered' = how
  /\ UNCHANGED <<ownerVars, feedVars, subscribed, phase, dataVars, pending, generation,
                 wanted, asked, snapshot, telling, first, told>>

-----------------------------------------------------------------------------
(* The worker: answers first, then a wanted request, then live messages.   *)

Working == phase # "closed" /\ telling = <<>>

MustSend == wanted /\ request = "no" /\ subscribed = Families

Send ==
  /\ Working /\ answered = "no" /\ MustSend
  /\ wanted' = FALSE /\ pending' = <<>>
  /\ request' = "sent" /\ asked' = generation
  /\ first' = IF first = "waiting" THEN "asked" ELSE first
  /\ UNCHANGED <<ownerVars, feedVars, subscribed, phase, dataVars, generation, answered,
                 snapshot, telling, told>>

\* A first sync gets no request past its deadline: it is refused instead.
SendTooLate ==
  /\ Working /\ answered = "no" /\ MustSend
  /\ first = "asked"
  /\ wanted' = FALSE /\ pending' = <<>>
  /\ answered' = "refused" /\ asked' = generation
  /\ UNCHANGED <<ownerVars, feedVars, subscribed, phase, dataVars, generation, request,
                 snapshot, telling, first, told>>

\* #apply: one state or removal into what the copy holds, with what it tells.
Updated(e, rev) == [kind |-> "updated", entity |-> e, revision |-> rev]
Dropped(e)      == [kind |-> "removed", entity |-> e, revision |-> 0]

Newer(copy, e, rev) == copy.held[e] < rev /\ copy.removed[e] < rev

TakeState(copy, e, rev) ==
  IF ~Newer(copy, e, rev) THEN copy
  ELSE [held    |-> [copy.held EXCEPT ![e] = rev],
        removed |-> [copy.removed EXCEPT ![e] = 0],
        changes |-> Append(copy.changes, Updated(e, rev))]

\* Mutant: a removal is taken without telling the handler.
TakeRemovalSilently(copy, e, rev) ==
  IF copy.held[e] > rev THEN copy
  ELSE [copy EXCEPT !.held[e] = 0, !.removed[e] = rev]

TakeRemoval(copy, e, rev) ==
  IF IF copy.held[e] # 0 THEN copy.held[e] > rev ELSE copy.removed[e] >= rev
  THEN copy
  ELSE [held    |-> [copy.held EXCEPT ![e] = 0],
        removed |-> [copy.removed EXCEPT ![e] = rev],
        changes |-> IF copy.held[e] = 0 THEN copy.changes
                    ELSE Append(copy.changes, Dropped(e))]

Take(copy, rev) ==
  IF log[rev].kind = "state" THEN TakeState(copy, log[rev].entity, rev)
  ELSE TakeRemoval(copy, log[rev].entity, rev)

\* Mutant: live messages that a sync covers are applied all the same.
TakeCovered(copy, rev, n) == Take(copy, rev)

\* A live message at or below the sync's revision n is already part of the copy.
TakeLive(copy, rev, n) == IF rev <= n THEN copy ELSE Take(copy, rev)

TakeAll(copy, revs, n) ==
  LET stage[i \in 0..Len(revs)] ==
        IF i = 0 THEN copy ELSE TakeLive(stage[i - 1], revs[i], n)
  IN  stage[Len(revs)]

Now == [held |-> held, removed |-> removed, changes |-> <<>>]

\* A snapshot has one state of each entity the owner holds.
TakeSnapshot(copy, n) ==
  LET taken == {e \in Entities : Newer(copy, e, StateAt(e, n))} IN
  [held    |-> [e \in Entities |-> IF e \in taken THEN StateAt(e, n) ELSE copy.held[e]],
   removed |-> [e \in Entities |-> IF e \in taken THEN 0 ELSE copy.removed[e]],
   changes |-> copy.changes \o SetToSeq({Updated(e, StateAt(e, n)) : e \in taken})]

\* An entity that is no member disappears, unless it changed above the revision.
Gone(copy, n) ==
  {e \in Entities : copy.held[e] # 0 /\ copy.held[e] <= n /\ StateAt(e, n) = 0}

KeepMembers(copy, n) ==
  LET gone  == Gone(copy, n)
      leave == SetToSeq({Dropped(e) : e \in gone})
  IN
  [held    |-> [e \in Entities |-> IF e \in gone THEN 0 ELSE copy.held[e]],
   removed |-> [e \in Entities |-> IF copy.removed[e] <= n THEN 0 ELSE copy.removed[e]],
   changes |-> copy.changes \o leave \o <<[kind |-> "synced"]>>]

Newest(S) == Max(S \union {0})

\* Everything up to n, and each message of revs, was taken in.
TookIn(n, revs) ==
  seen' = [e \in Entities |->
             Newest({seen[e], n} \union {k \in Range(revs) : log[k].entity = e})]

\* #complete: the snapshot, its membership and the buffered messages at once.
Completed(n) ==
  TakeAll(KeepMembers(TakeSnapshot(Now, n), n), pending, n)

CompleteServed ==
  /\ Working /\ answered = "served" /\ asked = generation
  /\ answered' = "no"
  /\ \E copy \in {Completed(snapshot)} :
       /\ held' = copy.held /\ removed' = copy.removed
       /\ telling' = copy.changes \o <<[kind |-> "done"]>>
  /\ floor' = snapshot /\ pending' = <<>> /\ phase' = "live"
  /\ TookIn(snapshot, pending)
  /\ UNCHANGED <<ownerVars, feedVars, subscribed, generation, wanted, request, asked,
                 snapshot, first, told>>

\* An overflow since the request was sent left a gap its state may not cover.
CompleteStale ==
  /\ Working /\ answered = "served" /\ asked # generation
  /\ answered' = "no"
  /\ UNCHANGED <<ownerVars, feedVars, subscribed, phase, dataVars, pending, generation,
                 wanted, request, asked, snapshot, telling, first, told>>

\* #stop: the copy follows no more, and an outstanding request is withdrawn.
Open == first \in {"waiting", "asked"}

StopFollowing ==
  /\ phase' = "closed"
  /\ pending' = <<>> /\ answered' = "no" /\ request' = "no" /\ telling' = <<>>
  /\ subscribed' = {} /\ dropped' = {}
  /\ inbox' = [f \in Families |-> <<>>] /\ hand' = [f \in Families |-> 0]
  /\ UNCHANGED <<ownerVars, dataVars, generation, wanted, asked, snapshot, told>>

CompleteRefused ==
  /\ Working /\ answered = "refused"
  /\ StopFollowing
  /\ first' = IF Open THEN "refused" ELSE first

Close ==
  /\ phase # "closed"
  /\ StopFollowing
  /\ first' = IF Open THEN "closed" ELSE first

ApplyNext ==
  /\ Working /\ answered = "no" /\ ~MustSend
  /\ phase = "live" /\ pending # <<>>
  /\ pending' = Tail(pending)
  /\ \E copy \in {TakeLive(Now, Head(pending), floor)} :
       held' = copy.held /\ removed' = copy.removed /\ telling' = copy.changes
  /\ TookIn(0, <<Head(pending)>>)
  /\ UNCHANGED <<ownerVars, feedVars, subscribed, phase, floor, generation, wanted,
                 askVars, first, told>>

\* #notify: the handler took the next change; a completion an overflow made
\* stale is not told, and sync() resolves only after a fresh one.
Notify ==
  LET next == Head(telling) IN
  /\ phase # "closed" /\ telling # <<>>
  /\ telling' = Tail(telling)
  /\ told' = IF next.kind \in {"updated", "removed"}
             THEN [told EXCEPT ![next.entity] = next.revision] ELSE told
  /\ first' = IF next.kind = "done" /\ asked = generation /\ Open
              THEN "synced" ELSE first
  /\ UNCHANGED <<ownerVars, feedVars, subscribed, phase, dataVars, pending, generation,
                 wanted, askVars>>

-----------------------------------------------------------------------------
Next ==
  \/ \E e \in Entities, kind \in {"state", "removal"} : Change(e, kind)
  \/ Publish \/ SendAgain
  \/ \E f \in Families : Subscribe(f) \/ Shift(f) \/ Arrive(f)
  \/ Serve \/ \E how \in {"served", "refused"} : Answered(how)
  \/ Send \/ SendTooLate \/ CompleteServed \/ CompleteStale \/ CompleteRefused
  \/ ApplyNext \/ Notify \/ Close

Spec == Init /\ [][Next]_vars

\* What is due runs: a request is answered or times out, and handlers return.
Worker == Send \/ CompleteServed \/ CompleteStale \/ CompleteRefused \/ ApplyNext \/ Notify

Fairness ==
  /\ WF_vars(Publish)
  /\ \A f \in Families : WF_vars(Subscribe(f)) /\ WF_vars(Shift(f)) /\ WF_vars(Arrive(f))
  /\ WF_vars(Serve) /\ WF_vars(\E how \in {"served", "refused"} : Answered(how))
  /\ WF_vars(Worker)

FairSpec == Spec /\ Fairness

-----------------------------------------------------------------------------
(* Properties.                                                             *)

\* A live copy has missed nothing: an entity of which no message is on its way
\* or known to be lost is exactly as its owner has it.
OnItsWay(e) ==
  LET f == FamilyOf[e] IN
  \E k \in ChangesOf(e, Len(log)) :
    k > published \/ k \in Range(inbox[f]) \/ k = hand[f] \/ k \in Range(pending)

NothingMissed ==
  phase = "live" =>
    \A e \in Entities :
      FamilyOf[e] \notin dropped /\ ~OnItsWay(e) => held[e] = StateAt(e, Len(log))

\* The copy never goes back: no message sent again, buffered or late brings back
\* a record older than what the copy has taken in, or one that was removed.
NeverBack ==
  [][\A e \in Entities :
       held'[e] # held[e] /\ held'[e] # 0 => held'[e] > seen[e]]_vars

\* The handler hears all of it: a worker with nothing left to tell has told it
\* exactly what the copy holds, over overflows in the middle of telling too.
ToldIsHeld == phase # "closed" /\ telling = <<>> => told = held

\* When the owner has stopped changing, the copy matches it or has closed, with
\* nothing asked again, although messages were lost on the way.
Converges ==
  <>[](phase = "closed" \/ \A e \in Entities : held[e] = StateAt(e, Len(log)))

=============================================================================
