--------------------------- MODULE OutcomeDelivery ---------------------------
(***************************************************************************)
(* How a module's outcome reaches the core's history exactly once, across  *)
(* crashes of either side: the module's transactional outbox               *)
(* (packages/sdk/src/outbox.ts), the core's intake and its verdicts        *)
(* (apps/runtime/src/core/tracker.ts), and the acknowledgment that lets    *)
(* the module forget it (packages/sdk/src/acknowledgment.ts).              *)
(*                                                                         *)
(* Row n is the n-th message the module stored; outcomes wait for an       *)
(* acknowledgment, other messages (occurrences, removals) do not.  A group *)
(* of the intake whose commit fails for another reason than a full disk is *)
(* taken again one message at a time, which is a series of groups of one.  *)
(* The core's own outbox is the same code; here it is the set of           *)
(* acknowledgments it stores, sent in any order.                           *)
(*                                                                         *)
(* What can go wrong (a crash, a refused publish, a dropped message, a     *)
(* refused commit) costs one unit of MaxTrouble, which only bounds TLC.    *)
(***************************************************************************)
EXTENDS Naturals, Sequences

CONSTANTS
  MaxRows,      \* messages the module stores
  OutcomeRows,  \* the ones that are outcomes
  MaxQueued,    \* messages the core's intake holds
  MaxTrouble    \* bound: how often something goes wrong

ASSUME OutcomeAssumption ==
  /\ MaxRows \in Nat
  /\ OutcomeRows \subseteq 1..MaxRows
  /\ MaxQueued \in Nat \ {0}
  /\ MaxTrouble \in Nat

Rows == 1..MaxRows

VARIABLES
  stored,     \* durable: rows the module has committed, 1..stored
  row,        \* durable: none, new, published or gone
  running,    \* the module runs
  following,  \* it hears acknowledgments (republish subscribed)
  replay,     \* its start's republish has not begun its send
  due,        \* its transactions' sends not yet begun
  sending,    \* a batch is under way
  todo,       \* the batch's rows still to publish
  sent,       \* the batch's rows that went out
  acks,       \* acknowledgments waiting for the module's handler
  heard,      \* acknowledgments heard and not yet forgotten in a commit
  intake,     \* messages waiting for the core's next group
  taking,     \* the core runs and its store is open
  recorded,   \* durable: [Rows -> Nat] entries of each row in history
  ackbox,     \* durable: acknowledgments the core's outbox stores
  ackSent,    \* ... that went out and are not yet deleted
  wentOut,    \* rows published at least once (history)
  clean,      \* nothing was lost since the module started (history)
  trouble     \* what went wrong so far

moduleVars == <<running, following, replay, due, sending, todo, sent, heard>>
coreVars   == <<taking, recorded, ackbox, ackSent>>
vars == <<stored, row, moduleVars, acks, intake, coreVars, wentOut, clean, trouble>>

TypeOK ==
  /\ stored \in 0..MaxRows
  /\ row \in [Rows -> {"none", "new", "published", "gone"}]
  /\ running \in BOOLEAN /\ following \in BOOLEAN /\ replay \in BOOLEAN
  /\ due \in Nat
  /\ sending \in BOOLEAN
  /\ todo \subseteq Rows /\ sent \subseteq Rows
  /\ acks \subseteq Rows /\ heard \subseteq Rows
  /\ intake \in Seq(Rows) /\ Len(intake) <= MaxQueued
  /\ taking \in BOOLEAN
  /\ recorded \in [Rows -> Nat]
  /\ ackbox \subseteq Rows /\ ackSent \subseteq Rows
  /\ wentOut \subseteq Rows
  /\ clean \in BOOLEAN
  /\ trouble \in Nat

Init ==
  /\ stored = 0
  /\ row = [n \in Rows |-> "none"]
  /\ running = FALSE /\ following = FALSE /\ replay = FALSE
  /\ due = 0
  /\ sending = FALSE /\ todo = {} /\ sent = {}
  /\ acks = {} /\ heard = {}
  /\ intake = <<>>
  /\ taking = TRUE
  /\ recorded = [n \in Rows |-> 0]
  /\ ackbox = {} /\ ackSent = {}
  /\ wentOut = {}
  /\ clean = FALSE
  /\ trouble = 0

\* Something goes wrong; what is lost comes back at the next module start.
Trouble == trouble < MaxTrouble /\ trouble' = trouble + 1
Loss    == Trouble /\ clean' = FALSE
Fine    == UNCHANGED <<clean, trouble>>

-----------------------------------------------------------------------------
(* The module and its outbox.                                              *)

\* start() calls republish once; its send waits for the subscription.
ModuleStart ==
  /\ ~running
  /\ running' = TRUE /\ replay' = TRUE /\ clean' = TRUE
  /\ UNCHANGED <<stored, row, following, due, sending, todo, sent, heard, acks,
                 intake, coreVars, wentOut, trouble>>

Follow ==
  /\ running /\ ~following
  /\ following' = TRUE
  /\ UNCHANGED <<stored, row, running, replay, due, sending, todo, sent, heard,
                 acks, intake, coreVars, wentOut, clean, trouble>>

\* transaction(): the work and its message commit together, then a send is due.
Commit ==
  /\ running /\ stored < MaxRows
  /\ stored' = stored + 1
  /\ row' = [row EXCEPT ![stored + 1] = "new"]
  /\ due' = due + 1
  /\ UNCHANGED <<running, following, replay, sending, todo, sent, heard, acks,
                 intake, coreVars, wentOut, clean, trouble>>

\* #send: one batch at a time, of the rows its query selects when it begins.
Select(states) == {n \in Rows : row[n] \in states}

Begin(states) ==
  /\ running /\ ~sending
  /\ sending' = TRUE
  /\ todo' = Select(states) /\ sent' = {}
  /\ UNCHANGED <<stored, row, running, following, heard, acks, intake, coreVars,
                 wentOut, clean, trouble>>

\* Mutant: a restart sends only what never went out.
BeginReplayOfNew ==
  /\ replay /\ following
  /\ Begin({"new"})
  /\ replay' = FALSE /\ UNCHANGED due

BeginReplay ==
  /\ replay /\ following
  /\ Begin({"new", "published"})
  /\ replay' = FALSE /\ UNCHANGED due

BeginSend ==
  /\ due > 0
  /\ Begin({"new"})
  /\ due' = due - 1 /\ UNCHANGED replay

First(S) == CHOOSE n \in S : \A k \in S : n <= k

\* Mutant: the intake's queue has no limit.
PublishUnbounded ==
  /\ sending /\ todo # {}
  /\ todo' = todo \ {First(todo)}
  /\ sent' = sent \union {First(todo)}
  /\ wentOut' = wentOut \union {First(todo)}
  /\ taking /\ intake' = Append(intake, First(todo)) /\ Fine
  /\ UNCHANGED <<stored, row, running, following, replay, due, sending, heard,
                 acks, coreVars>>

\* publishMessage accepted: the message reaches the intake's queue, unless the
\* queue is full or the core takes nothing, and the sender cannot tell.
Publish ==
  /\ sending /\ todo # {}
  /\ todo' = todo \ {First(todo)}
  /\ sent' = sent \union {First(todo)}
  /\ wentOut' = wentOut \union {First(todo)}
  /\ \/ /\ taking /\ Len(intake) < MaxQueued
        /\ intake' = Append(intake, First(todo))
        /\ Fine
     \/ /\ ~taking \/ Len(intake) = MaxQueued
        /\ Loss
        /\ UNCHANGED intake
  /\ UNCHANGED <<stored, row, running, following, replay, due, sending, heard,
                 acks, coreVars>>

\* Mutant: the batch goes on behind a refused message.
RefusedGoesOn ==
  /\ sending /\ todo # {}
  /\ todo' = todo \ {First(todo)}
  /\ Loss
  /\ UNCHANGED <<stored, row, running, following, replay, due, sending, sent,
                 heard, acks, intake, coreVars, wentOut>>

\* publishMessage refused: the batch stops and the rest stay stored.
Refused ==
  /\ sending /\ todo # {}
  /\ todo' = {}
  /\ Loss
  /\ UNCHANGED <<stored, row, running, following, replay, due, sending, sent,
                 heard, acks, intake, coreVars, wentOut>>

\* Mutant: an outcome is deleted once it went out.
SettleDeletes ==
  /\ sending /\ todo = {}
  /\ row' = [n \in Rows |-> IF n \in sent THEN "gone" ELSE row[n]]
  /\ sending' = FALSE /\ sent' = {}
  /\ UNCHANGED <<stored, running, following, replay, due, todo, heard, acks,
                 intake, coreVars, wentOut, clean, trouble>>

\* #settle: one commit marks the outcomes that went out and deletes the rest.
\* A row acknowledged meanwhile is gone already.
Settle ==
  /\ sending /\ todo = {}
  /\ row' = [n \in Rows |->
               IF n \notin sent \/ row[n] = "gone" THEN row[n]
               ELSE IF n \in OutcomeRows THEN "published" ELSE "gone"]
  /\ sending' = FALSE /\ sent' = {}
  /\ UNCHANGED <<stored, running, following, replay, due, todo, heard, acks,
                 intake, coreVars, wentOut, clean, trouble>>

\* The commit fails: nothing is marked, and a later send publishes again.
SettleFails ==
  /\ sending /\ todo = {}
  /\ sending' = FALSE /\ sent' = {}
  /\ Trouble
  /\ UNCHANGED <<stored, row, running, following, replay, due, todo, heard, acks,
                 intake, coreVars, wentOut, clean>>

Hear(n) ==
  /\ n \in acks
  /\ acks' = acks \ {n}
  /\ heard' = heard \union {n}
  /\ UNCHANGED <<stored, row, running, following, replay, due, sending, todo,
                 sent, intake, coreVars, wentOut, clean, trouble>>

\* #forgetHeard: the turn's acknowledgments forget their outcomes in one commit.
Forget ==
  /\ heard # {}
  /\ row' = [n \in Rows |->
               IF n \in heard \intersect OutcomeRows THEN "gone" ELSE row[n]]
  /\ heard' = {}
  /\ UNCHANGED <<stored, running, following, replay, due, sending, todo, sent,
                 acks, intake, coreVars, wentOut, clean, trouble>>

ForgetFails ==
  /\ heard # {}
  /\ heard' = {}
  /\ Loss
  /\ UNCHANGED <<stored, row, running, following, replay, due, sending, todo,
                 sent, acks, intake, coreVars, wentOut>>

\* The module's process or the module alone stops at any point.
ModuleCrash ==
  /\ running
  /\ Loss
  /\ running' = FALSE /\ following' = FALSE /\ replay' = FALSE /\ due' = 0
  /\ sending' = FALSE /\ todo' = {} /\ sent' = {}
  /\ acks' = {} /\ heard' = {}
  /\ UNCHANGED <<stored, row, intake, coreVars, wentOut>>

-----------------------------------------------------------------------------
(* The core's intake.                                                      *)

Taken(k) == {intake[i] : i \in 1..k}

\* Mutant: a message history already holds counts as new.
NewAlways(S) == S

New(S) == {n \in S : recorded[n] = 0}

\* Acknowledgments go to the module's subscription, if it has one; a message
\* the core sends again directly may also be dropped on its way.
Deliver(S) ==
  \/ acks' = (IF following THEN acks \union S ELSE acks) /\ Fine
  \/ following /\ S # {} /\ acks' = acks /\ Loss

\* #group commits: new messages enter history, each new outcome with its
\* acknowledgment; an outcome history holds is acknowledged again at once.
Group(k) ==
  /\ taking /\ k \in 1..Len(intake)
  /\ intake' = SubSeq(intake, k + 1, Len(intake))
  /\ recorded' = [n \in Rows |->
                    IF n \in New(Taken(k)) THEN recorded[n] + 1 ELSE recorded[n]]
  /\ ackbox' = ackbox \union (New(Taken(k)) \intersect OutcomeRows)
  /\ Deliver((Taken(k) \ New(Taken(k))) \intersect OutcomeRows)
  /\ UNCHANGED <<stored, row, moduleVars, taking, ackSent, wentOut>>

\* #group refused: the group's new messages are dropped, with no
\* acknowledgment.  Of the ones history holds, each is acknowledged again unless
\* what failed was its own part of the group.
GroupRefused(k) ==
  /\ taking /\ k \in 1..Len(intake)
  /\ intake' = SubSeq(intake, k + 1, Len(intake))
  /\ Loss
  /\ \E S \in SUBSET ((Taken(k) \ New(Taken(k))) \intersect OutcomeRows) :
       acks' = IF following THEN acks \union S ELSE acks
  /\ UNCHANGED <<stored, row, moduleVars, coreVars, wentOut>>

\* The core's outbox sends an acknowledgment, ...
AckSend(n) ==
  /\ taking /\ n \in ackbox \ ackSent
  /\ ackSent' = ackSent \union {n}
  /\ Deliver({n})
  /\ UNCHANGED <<stored, row, moduleVars, intake, taking, recorded, ackbox,
                 wentOut>>

\* ... and deletes it once it went out.
AckSettle ==
  /\ taking /\ ackSent # {}
  /\ ackbox' = ackbox \ ackSent
  /\ ackSent' = {}
  /\ UNCHANGED <<stored, row, moduleVars, acks, intake, taking, recorded, wentOut,
                 clean, trouble>>

CoreCrash ==
  /\ taking
  /\ Loss
  /\ taking' = FALSE /\ intake' = <<>> /\ ackSent' = {}
  /\ UNCHANGED <<stored, row, moduleVars, acks, recorded, ackbox, wentOut>>

CoreStart ==
  /\ ~taking
  /\ taking' = TRUE
  /\ UNCHANGED <<stored, row, moduleVars, acks, intake, recorded, ackbox, ackSent,
                 wentOut, clean, trouble>>

-----------------------------------------------------------------------------
Next ==
  \/ ModuleStart \/ Follow \/ Commit \/ BeginReplay \/ BeginSend
  \/ Publish \/ Refused \/ Settle \/ SettleFails
  \/ \E n \in Rows : Hear(n) \/ AckSend(n)
  \/ Forget \/ ForgetFails \/ ModuleCrash
  \/ \E k \in 1..MaxQueued : Group(k) \/ GroupRefused(k)
  \/ AckSettle \/ CoreCrash \/ CoreStart

Spec == Init /\ [][Next]_vars

\* The event loop runs what is due.  Nothing says the module works on, fails or
\* starts again.
Fairness ==
  /\ WF_vars(Follow) /\ WF_vars(BeginReplay) /\ WF_vars(BeginSend)
  /\ WF_vars(Publish) /\ WF_vars(Settle)
  /\ WF_vars(\E n \in Rows : Hear(n)) /\ WF_vars(Forget)
  /\ WF_vars(\E k \in 1..MaxQueued : Group(k))
  /\ WF_vars(\E n \in Rows : AckSend(n)) /\ WF_vars(AckSettle)
  /\ WF_vars(CoreStart)

FairSpec == Spec /\ Fairness

-----------------------------------------------------------------------------
(* Properties.                                                             *)

\* An outcome the module committed is never lost: as long as the core's history
\* does not hold it, the module's outbox does, whatever crashed or was dropped.
OutcomeKept ==
  \A n \in OutcomeRows :
    n <= stored /\ recorded[n] = 0 => row[n] \in {"new", "published"}

\* History takes each message once, however often it is sent again.
RecordedOnce == \A n \in Rows : recorded[n] <= 1

\* Messages first go out in the order their work committed: a refused one holds
\* back every later one, over restarts and failed bookkeeping too.
FirstSentInOrder ==
  \A n \in wentOut : \A k \in 1..n : k \in wentOut

\* If nothing more is lost after some start of the module, every outcome it has
\* committed is recorded and its outbox forgets it, without another start.
OneCleanStartIsEnough ==
  <>[](running /\ clean) =>
    \A n \in OutcomeRows : (row[n] # "none") ~> (row[n] = "gone" /\ recorded[n] = 1)
=============================================================================
