----------------------------- MODULE CommandBus -----------------------------
(***************************************************************************)
(* Requests on the SDK's in-process bus: packages/sdk/src/in-process.ts    *)
(* (#dispatch, #respond, #close) over one DeliveryQueue per responder      *)
(* (packages/sdk/src/queue.ts).                                            *)
(*                                                                         *)
(* Each turn of the JavaScript event loop that runs bus code is one        *)
(* action.  Handlers are the modules' code: between their start and their  *)
(* end anything else may run, they may have effects, make requests of      *)
(* their own and wait for them, or close their own participant.            *)
(*                                                                         *)
(* A registration is one call of respond(); a command is one request.      *)
(* Which participant makes each, and for which keys, is a parameter.       *)
(***************************************************************************)
EXTENDS Naturals, FiniteSets

CONSTANTS
  Participants,     \* connections to the bus
  Regs,             \* the respond() calls that may happen
  Commands,         \* the requests that may happen
  Keys,             \* routing keys of commands
  OwnerOf,          \* [Regs -> Participants]: who calls respond()
  KeysOf,           \* [Regs -> SUBSET Keys]: the keys its pattern matches
  RequesterOf,      \* [Commands -> Participants \union {Edge}]
  KeyOf,            \* [Commands -> Keys]
  Edge,             \* a remote edge: a requester that is no participant
  None,             \* no command, no handler
  MaxQueued,        \* waiting items one queue holds
  Prompt            \* participants whose handlers do not hang (liveness only)

ASSUME BusAssumption ==
  /\ OwnerOf \in [Regs -> Participants]
  /\ KeysOf \in [Regs -> SUBSET Keys]
  /\ RequesterOf \in [Commands -> Participants \union {Edge}]
  /\ KeyOf \in [Commands -> Keys]
  /\ Edge \notin Participants
  /\ None \notin Commands \union Regs \union Participants
  /\ Commands \intersect Participants = {}
  /\ MaxQueued \in Nat \ {0}
  /\ Prompt \subseteq Participants

VARIABLES
  member,    \* [Participants]: open, closing (close() called) or closed
  reg,       \* [Regs]: unused, open, dropped (its handler ran on) or closed
  queue,     \* [Regs]: the deliveries waiting for the handler
  ahead,     \* [Commands]: the ones queued before it in the same queue
  running,   \* [Regs]: the delivery its handler has, or None
  awaits,    \* [Regs]: the request, or the participant's close, its handler
             \* waits for, or None
  closer,    \* [Participants]: the handler in whose flow close() ran, or None
  result,    \* [Commands]: unsent, pending, or how the request settled
  starts,    \* [Commands]: how often a handler was given it (history)
  acted      \* commands whose handler has had an effect (history)

vars == <<member, reg, queue, ahead, running, awaits, closer, result, starts,
          acted>>

\* `refused' is the responder's typed refusal; the others are the bus's own.
Rejected == {"refused", "unavailable", "cancelled", "expired", "capacity"}
Results  == {"unsent", "pending", "accepted", "uncertain"} \union Rejected

TypeOK ==
  /\ member \in [Participants -> {"open", "closing", "closed"}]
  /\ reg \in [Regs -> {"unused", "open", "dropped", "closed"}]
  /\ queue \in [Regs -> SUBSET Commands]
  /\ ahead \in [Commands -> SUBSET Commands]
  /\ running \in [Regs -> Commands \union {None}]
  /\ awaits \in [Regs -> Commands \union Participants \union {None}]
  /\ closer \in [Participants -> Regs \union {None}]
  /\ result \in [Commands -> Results]
  /\ starts \in [Commands -> Nat]
  /\ acted \subseteq Commands

Init ==
  /\ member = [p \in Participants |-> "open"]
  /\ reg = [r \in Regs |-> "unused"]
  /\ queue = [r \in Regs |-> {}]
  /\ ahead = [c \in Commands |-> {}]
  /\ running = [r \in Regs |-> None]
  /\ awaits = [r \in Regs |-> None]
  /\ closer = [p \in Participants |-> None]
  /\ result = [c \in Commands |-> "unsent"]
  /\ starts = [c \in Commands |-> 0]
  /\ acted = {}

-----------------------------------------------------------------------------
(* DeliveryQueue: an ordered set of distinct deliveries.                   *)

Push(r, c) ==
  /\ queue' = [queue EXCEPT ![r] = @ \union {c}]
  /\ ahead' = [ahead EXCEPT ![c] = queue[r]]

\* Mutant: what ends a waiting request leaves it in its queue.
TakeOutNothing(gone) == UNCHANGED <<queue, ahead>>

\* remove(), shift() and the splice of close(): `gone' leave their queues.
TakeOut(gone) ==
  /\ queue' = [r \in Regs |-> queue[r] \ gone]
  /\ ahead' = [c \in Commands |-> IF c \in gone THEN {} ELSE ahead[c] \ gone]

Waiting(c) == \E r \in Regs : c \in queue[r]

\* settle(): the first result stands, a later one is ignored.
Settled(c, res) == IF result[c] = "pending" THEN res ELSE result[c]

\* The responder a routing key reaches; respond() admits only one per key.
Responders(c) == {r \in Regs : reg[r] = "open" /\ KeyOf[c] \in KeysOf[r]}

\* The running handler h is free to act: it waits for no request and no close.
Active(h) ==
  /\ running[h] # None
  /\ awaits[h] \in Commands => result[awaits[h]] # "pending"
  /\ awaits[h] \in Participants => member[awaits[h]] = "closed"

\* Code of participant p: its handler h, or a call from anywhere else.
Caller(p, h) == h = None \/ (h \in Regs /\ OwnerOf[h] = p /\ Active(h))

-----------------------------------------------------------------------------
(* respond() and its subscription's close().                               *)

Respond(r) ==
  /\ reg[r] = "unused"
  /\ member[OwnerOf[r]] = "open"
  /\ \A s \in Regs : reg[s] = "open" => KeysOf[s] \intersect KeysOf[r] = {}
  /\ reg' = [reg EXCEPT ![r] = "open"]
  /\ UNCHANGED <<member, queue, ahead, running, awaits, closer, result, starts,
                 acted>>

\* Mutant: closing a responder drops what it has queued without an answer.
UnrespondSilently(r) ==
  /\ reg[r] = "open"
  /\ reg' = [reg EXCEPT ![r] = IF running[r] = None THEN "closed" ELSE "dropped"]
  /\ TakeOut(queue[r])
  /\ UNCHANGED <<member, running, awaits, closer, result, starts, acted>>

Unrespond(r) ==
  /\ reg[r] = "open"
  /\ reg' = [reg EXCEPT ![r] = IF running[r] = None THEN "closed" ELSE "dropped"]
  /\ result' = [c \in Commands |->
                  IF c \in queue[r] THEN "unavailable" ELSE result[c]]
  /\ TakeOut(queue[r])
  /\ UNCHANGED <<member, running, awaits, closer, starts, acted>>

-----------------------------------------------------------------------------
(* request() and the ways a waiting request ends.                          *)

\* The requester's participant is open; a handler h may wait for the result.
MayRequest(c, h) ==
  IF RequesterOf[c] = Edge
  THEN h = None
  ELSE member[RequesterOf[c]] = "open" /\ Caller(RequesterOf[c], h)

Refuse(c, res) ==
  /\ result' = [result EXCEPT ![c] = res]
  /\ UNCHANGED <<queue, ahead>>

Dispatch(c) ==
  \/ Responders(c) = {} /\ Refuse(c, "unavailable")
  \/ \E r \in Responders(c) :
       \/ RequesterOf[c] = Edge /\ Refuse(c, "cancelled")
       \/ Cardinality(queue[r]) >= MaxQueued /\ Refuse(c, "capacity")
       \/ /\ Cardinality(queue[r]) < MaxQueued
          /\ Push(r, c)
          /\ result' = [result EXCEPT ![c] = "pending"]

Request(c, h) ==
  /\ result[c] = "unsent"
  /\ MayRequest(c, h)
  /\ Dispatch(c)
  /\ awaits' = IF h = None THEN awaits ELSE [awaits EXCEPT ![h] = c]
  /\ UNCHANGED <<member, reg, running, closer, starts, acted>>

\* end(): a command still queued is taken out, one its handler has is not.
End(c, unsent, sent) ==
  /\ result[c] = "pending"
  /\ result' = [result EXCEPT ![c] = IF Waiting(c) THEN unsent ELSE sent]
  /\ TakeOut({c})
  /\ UNCHANGED <<member, reg, running, awaits, closer, starts, acted>>

\* Mutant: the deadline answers with a code that is no refusal.
DeadlineUnnamed(c) == End(c, "timeout", "uncertain")

\* The wait is a timer of its own: an edge's differs from the expiry.
Deadline(c) == End(c, "expired", "uncertain")

\* The remote part stopped waiting: the edge aborts the request's signal.
Abort(c) == RequesterOf[c] = Edge /\ End(c, "cancelled", "uncertain")

-----------------------------------------------------------------------------
(* The responder's queue and its handler.                                  *)

FirstIn(r, c) == c \in queue[r] /\ ahead[c] \intersect queue[r] = {}

\* A command that has expired by the time it is taken is answered without
\* running the handler.  Nobody else looks at expiresat, so whether it has
\* passed is a choice made here.
Skip(r, c) ==
  /\ running[r] = None /\ FirstIn(r, c)
  /\ TakeOut({c})
  /\ result' = [result EXCEPT ![c] = Settled(c, "expired")]
  /\ UNCHANGED <<member, reg, running, awaits, closer, starts, acted>>

\* Mutant: the command stays queued while its handler runs.
StartByPeek(r, c) ==
  /\ running[r] = None /\ FirstIn(r, c)
  /\ running' = [running EXCEPT ![r] = c]
  /\ starts' = [starts EXCEPT ![c] = @ + 1]
  /\ UNCHANGED <<member, reg, queue, ahead, awaits, closer, result, acted>>

Start(r, c) ==
  /\ running[r] = None /\ FirstIn(r, c)
  /\ TakeOut({c})
  /\ running' = [running EXCEPT ![r] = c]
  /\ starts' = [starts EXCEPT ![c] = @ + 1]
  /\ UNCHANGED <<member, reg, awaits, closer, result, acted>>

\* External: the handler changes a device, a file, another service.
Act(r) ==
  /\ Active(r)
  /\ acted' = acted \union {running[r]}
  /\ UNCHANGED <<member, reg, queue, ahead, running, awaits, closer, result,
                 starts>>

\* What a handler may end with.  A refusal or `undelivered' is the handler's
\* own claim that nothing happened, which only an idle one may make.
Answers(c) ==
  {"accepted", "uncertain"} \union
    (IF c \in acted THEN {} ELSE {"refused", "unavailable"})

Answer(r, res) ==
  /\ Active(r)
  /\ res \in Answers(running[r])
  /\ result' = [result EXCEPT ![running[r]] = Settled(running[r], res)]
  /\ running' = [running EXCEPT ![r] = None]
  /\ awaits' = [awaits EXCEPT ![r] = None]
  /\ UNCHANGED <<member, reg, queue, ahead, closer, starts, acted>>

-----------------------------------------------------------------------------
(* participant.close(): one turn abandons its requests, then closes what   *)
(* it opened; it resolves once none of their handlers runs but the one it  *)
(* was called from.  A responder closed on its own before is no longer its *)
(* to wait for.  Whoever calls it again gets the close under way.          *)

\* Mutant: close() leaves the participant's own requests waiting.
AbandonedNothing(p) == {}

Owned(p)     == {r \in Regs : OwnerOf[r] = p}
Abandoned(p) == {c \in Commands : RequesterOf[c] = p /\ result[c] = "pending"}
Undelivered(p) == (UNION {queue[r] : r \in Owned(p)}) \ Abandoned(p)

\* The first call, in the flow of the handler h or of none.
Close(p, h) ==
  /\ member[p] = "open"
  /\ Caller(p, h)
  /\ member' = [member EXCEPT ![p] = "closing"]
  /\ closer' = [closer EXCEPT ![p] = h]
  /\ reg' = [r \in Regs |->
               IF r \in Owned(p) /\ reg[r] = "open" THEN "closed" ELSE reg[r]]
  /\ result' = [c \in Commands |->
                  IF c \in Abandoned(p)
                  THEN IF Waiting(c) THEN "cancelled" ELSE "uncertain"
                  ELSE IF c \in Undelivered(p) THEN "unavailable" ELSE result[c]]
  /\ TakeOut(Abandoned(p) \union Undelivered(p))
  /\ UNCHANGED <<running, awaits, starts, acted>>

\* A running handler awaits the close it began, or one that was called again or
\* outside its flow: only the first call's flow excuses a handler.
AwaitClose(p, h) ==
  /\ member[p] = "closing"
  /\ OwnerOf[h] = p /\ Active(h)
  /\ awaits' = [awaits EXCEPT ![h] = p]
  /\ UNCHANGED <<member, reg, queue, ahead, running, closer, result, starts, acted>>

CloseDone(p) ==
  /\ member[p] = "closing"
  /\ \A r \in Owned(p) :
       reg[r] = "closed" => running[r] = None \/ r = closer[p]
  /\ member' = [member EXCEPT ![p] = "closed"]
  /\ UNCHANGED <<reg, queue, ahead, running, awaits, closer, result, starts,
                 acted>>

-----------------------------------------------------------------------------
Next ==
  \/ \E r \in Regs : Respond(r) \/ Unrespond(r) \/ Act(r)
  \/ \E c \in Commands, h \in Regs \union {None} : Request(c, h)
  \/ \E c \in Commands : Deadline(c) \/ Abort(c)
  \/ \E r \in Regs, c \in Commands : Skip(r, c) \/ Start(r, c)
  \/ \E r \in Regs, res \in Results : Answer(r, res)
  \/ \E p \in Participants, h \in Regs \union {None} : Close(p, h)
  \/ \E p \in Participants, h \in Regs : AwaitClose(p, h)
  \/ \E p \in Participants : CloseDone(p)

Spec == Init /\ [][Next]_vars

\* The event loop runs what is due; only prompt handlers are sure to end, and
\* no timer is needed for a close to finish.
Fairness ==
  /\ \A p \in Participants : WF_vars(CloseDone(p))
  /\ \A r \in Regs :
       OwnerOf[r] \in Prompt => WF_vars(\E res \in Results : Answer(r, res))

FairSpec == Spec /\ Fairness

-----------------------------------------------------------------------------
(* Why the properties below hold: the inductive invariant of the proofs.   *)

\* What waits in a queue is pending and untouched, and the queue is open.
QueuedIsFresh ==
  \A r \in Regs : \A c \in queue[r] :
    result[c] = "pending" /\ starts[c] = 0 /\ reg[r] = "open"

\* What a handler has was started once and is at most uncertain.
RunningIsUndecided ==
  \A r \in Regs :
    running[r] # None =>
      starts[running[r]] = 1 /\ result[running[r]] \in {"pending", "uncertain"}

\* A command is in one queue, or with one handler.
InOnePlace ==
  \A r, s \in Regs :
    r # s => /\ queue[r] \intersect queue[s] = {}
             /\ running[r] # None => running[r] # running[s]

\* A command no handler had has had no effect, and its requester knows it.
StartedOnce ==
  \A c \in Commands :
    /\ starts[c] \in {0, 1}
    /\ starts[c] = 0 => c \notin acted /\ result[c] \notin {"accepted", "uncertain"}
    /\ result[c] = "unsent" => starts[c] = 0

-----------------------------------------------------------------------------
(* Properties.                                                             *)

\* A rejected request had no effect: the handler that ran a command can leave
\* its requester with any other result, never with this one.
RejectedHadNoEffect ==
  \A c \in Commands : result[c] \in Rejected => c \notin acted

\* A request that was refused, timed out or was abandoned before its handler
\* started never starts later, whatever is still queued for that responder.
RejectedNeverStarts ==
  [][\A c \in Commands : result[c] \in Rejected => starts'[c] = starts[c]]_vars

\* The first result a requester gets is the only one: a late reply, a timer or
\* a close cannot change it.
SettledOnce ==
  [][\A c \in Commands :
       result[c] \notin {"unsent", "pending"} => result'[c] = result[c]]_vars

\* Only a command whose handler had it can be uncertain: a request taken out
\* of a queue always comes back as a refusal the caller may retry.
UncertainWasStarted ==
  \A c \in Commands : result[c] = "uncertain" => starts[c] = 1

\* A pending request always has somebody to answer it: it waits in an open
\* responder's queue or its handler runs, so closing a responder strands none.
PendingIsHeld ==
  \A c \in Commands :
    result[c] = "pending" =>
      \/ \E r \in Regs : c \in queue[r] /\ reg[r] = "open"
      \/ \E r \in Regs : running[r] = c

BusInv ==
  /\ TypeOK
  /\ QueuedIsFresh
  /\ RunningIsUndecided
  /\ InOnePlace
  /\ StartedOnce
  /\ PendingIsHeld
  /\ RejectedHadNoEffect

\* The close and one of the handlers it waits for wait for each other.
AwaitsItself(p) ==
  \E h \in Owned(p) \ {closer[p]} : reg[h] = "closed" /\ awaits[h] = p

\* A participant's close finishes although other participants' handlers hang
\* and no timer fires, as long as its own handlers end once nothing they wait
\* for is pending.  One thing alone can stop it: a handler of its own that
\* awaits this close when the close was not called in that handler's flow.
CloseCompletes ==
  \A p \in Prompt :
    member[p] = "closing" ~> (member[p] = "closed" \/ AwaitsItself(p))

\* The bus keeps the promise CommandPromise makes about every request.
Stage(c) ==
  IF result[c] = "unsent" THEN "unsent"
  ELSE IF starts[c] > 0 THEN "started"
  ELSE IF result[c] = "pending" THEN "waiting" ELSE "withdrawn"

Verdict(c) ==
  IF result[c] \in {"unsent", "pending"} THEN "none"
  ELSE IF result[c] \in Rejected THEN "rejected" ELSE result[c]

Effect(c) == IF c \in acted THEN "made" ELSE "none"

lifeBar == [c \in Commands |->
              [stage |-> Stage(c), verdict |-> Verdict(c), effect |-> Effect(c)]]

Promise == INSTANCE CommandPromise WITH life <- lifeBar

KeepsPromise == Promise!Spec
=============================================================================
