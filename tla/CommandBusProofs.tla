-------------------------- MODULE CommandBusProofs --------------------------
(***************************************************************************)
(* TLAPS proofs about CommandBus, for any participants, registrations,     *)
(* commands, keys and queue limit.  BusInv is inductive; the safety        *)
(* properties follow from it.                                              *)
(***************************************************************************)
EXTENDS CommandBus, TLAPS

\* The parts of BusInv, expanded together in the leaves below.
LEMMA BusInit == Init => BusInv
  BY BusAssumption
  DEF Init, BusInv, TypeOK, Results, Rejected, QueuedIsFresh, RunningIsUndecided,
      InOnePlace, StartedOnce, PendingIsHeld, RejectedHadNoEffect

LEMMA RespondInv ==
  ASSUME NEW r \in Regs, BusInv, Respond(r)
  PROVE  BusInv'
  BY BusAssumption
  DEF Respond, BusInv, TypeOK, Results, Rejected, QueuedIsFresh, RunningIsUndecided,
      InOnePlace, StartedOnce, PendingIsHeld, RejectedHadNoEffect

LEMMA UnrespondInv ==
  ASSUME NEW r \in Regs, BusInv, Unrespond(r)
  PROVE  BusInv'
  BY BusAssumption
  DEF Unrespond, TakeOut, BusInv, TypeOK, Results, Rejected, QueuedIsFresh,
        RunningIsUndecided,
      InOnePlace, StartedOnce, PendingIsHeld, RejectedHadNoEffect

LEMMA EndInv ==
  ASSUME NEW c \in Commands, NEW res \in Rejected, BusInv, End(c, res, "uncertain")
  PROVE  BusInv'
<1> USE BusAssumption DEF BusInv, TypeOK, Results, Rejected, End, TakeOut, Waiting
<1>1. TypeOK'
  OBVIOUS
<1>2. QueuedIsFresh'
  BY DEF QueuedIsFresh, InOnePlace, StartedOnce, RunningIsUndecided
<1>3. RunningIsUndecided'
  BY DEF RunningIsUndecided, QueuedIsFresh, InOnePlace, StartedOnce
<1>4. InOnePlace'
  BY DEF InOnePlace, QueuedIsFresh, RunningIsUndecided
<1>5. StartedOnce'
  BY DEF StartedOnce, QueuedIsFresh, RunningIsUndecided, PendingIsHeld
<1>6. PendingIsHeld'
  BY DEF PendingIsHeld, QueuedIsFresh, RunningIsUndecided, InOnePlace
<1>7. RejectedHadNoEffect'
  BY DEF RejectedHadNoEffect, QueuedIsFresh, StartedOnce, RunningIsUndecided
<1> QED BY <1>1, <1>2, <1>3, <1>4, <1>5, <1>6, <1>7

LEMMA RequestInv ==
  ASSUME NEW c \in Commands, NEW h \in Regs \union {None}, BusInv, Request(c, h)
  PROVE  BusInv'
<1> USE BusAssumption DEF BusInv, TypeOK, Results, Rejected, Request, Dispatch,
      Refuse, Push, Responders
<1>1. TypeOK'
  <2>1. awaits' \in [Regs -> Commands \union Participants \union {None}]
    <3>1. CASE h = None
      BY <3>1
    <3>2. CASE h \in Regs /\ h # None
      BY <3>2
    <3> QED BY <3>1, <3>2
  <2>2. queue' \in [Regs -> SUBSET Commands] /\ ahead' \in [Commands -> SUBSET Commands]
    OBVIOUS
  <2>3. result' \in [Commands -> Results]
    OBVIOUS
  <2> QED BY <2>1, <2>2, <2>3
<1>2. QueuedIsFresh'
  BY DEF QueuedIsFresh, InOnePlace, StartedOnce, RunningIsUndecided
<1>3. RunningIsUndecided'
  BY DEF RunningIsUndecided, QueuedIsFresh, InOnePlace, StartedOnce
<1>4. InOnePlace'
  BY DEF InOnePlace, QueuedIsFresh, RunningIsUndecided
<1>5. StartedOnce'
  BY DEF StartedOnce, QueuedIsFresh, RunningIsUndecided, PendingIsHeld
<1>6. PendingIsHeld'
  <2> SUFFICES ASSUME NEW d \in Commands, result'[d] = "pending"
               PROVE  \/ \E r \in Regs : d \in queue'[r] /\ reg'[r] = "open"
                      \/ \E r \in Regs : running'[r] = d
    BY DEF PendingIsHeld
  <2>1. CASE d = c
    <3>1. PICK r \in Responders(c) : Push(r, c)
      BY <2>1
    <3>2. r \in Regs /\ c \in queue'[r] /\ reg'[r] = "open"
      BY <3>1
    <3> QED BY <2>1, <3>2
  <2>2. CASE d # c
    <3>1. /\ result[d] = "pending" /\ reg' = reg /\ running' = running
          /\ \A r \in Regs : queue[r] \subseteq queue'[r]
      BY <2>2
    <3> HIDE DEF Request, Dispatch, Refuse, Push, Responders
    <3> QED BY <3>1 DEF PendingIsHeld
  <2> QED BY <2>1, <2>2
<1>7. RejectedHadNoEffect'
  BY DEF RejectedHadNoEffect, QueuedIsFresh, StartedOnce, RunningIsUndecided
<1> QED BY <1>1, <1>2, <1>3, <1>4, <1>5, <1>6, <1>7

LEMMA StartInv ==
  ASSUME NEW r \in Regs, NEW c \in Commands, BusInv, Start(r, c)
  PROVE  BusInv'
<1> USE BusAssumption DEF BusInv, TypeOK, Results, Rejected, Start, FirstIn, TakeOut
<1>1. TypeOK'
  OBVIOUS
<1>2. QueuedIsFresh'
  BY DEF QueuedIsFresh, InOnePlace, StartedOnce, RunningIsUndecided
<1>3. RunningIsUndecided'
  BY DEF RunningIsUndecided, QueuedIsFresh, InOnePlace, StartedOnce
<1>4. InOnePlace'
  BY DEF InOnePlace, QueuedIsFresh, RunningIsUndecided
<1>5. StartedOnce'
  BY DEF StartedOnce, QueuedIsFresh, RunningIsUndecided, PendingIsHeld
<1>6. PendingIsHeld'
  BY DEF PendingIsHeld, QueuedIsFresh, RunningIsUndecided, InOnePlace
<1>7. RejectedHadNoEffect'
  BY DEF RejectedHadNoEffect, QueuedIsFresh, StartedOnce, RunningIsUndecided
<1> QED BY <1>1, <1>2, <1>3, <1>4, <1>5, <1>6, <1>7

LEMMA SkipInv ==
  ASSUME NEW r \in Regs, NEW c \in Commands, BusInv, Skip(r, c)
  PROVE  BusInv'
<1> USE DEF BusInv, TypeOK, Results, Rejected, Skip, FirstIn, Settled, TakeOut
<1>1. TypeOK'
  OBVIOUS
<1>2. QueuedIsFresh'
  BY DEF QueuedIsFresh, InOnePlace, StartedOnce
<1>3. RunningIsUndecided'
  BY BusAssumption DEF RunningIsUndecided, QueuedIsFresh
<1>4. InOnePlace'
  BY DEF InOnePlace
<1>5. StartedOnce'
  BY DEF StartedOnce, QueuedIsFresh
<1>6. PendingIsHeld'
  BY DEF PendingIsHeld, QueuedIsFresh, InOnePlace
<1>7. RejectedHadNoEffect'
  BY DEF RejectedHadNoEffect, QueuedIsFresh, StartedOnce
<1> QED BY <1>1, <1>2, <1>3, <1>4, <1>5, <1>6, <1>7

LEMMA AnswerInv ==
  ASSUME NEW r \in Regs, NEW res \in Results, BusInv, Answer(r, res)
  PROVE  BusInv'
<1> USE BusAssumption DEF BusInv, TypeOK, Results, Rejected, Answer, Answers, Active,
      Settled
<1>1. TypeOK'
  OBVIOUS
<1>2. QueuedIsFresh'
  BY DEF QueuedIsFresh, InOnePlace, StartedOnce, RunningIsUndecided
<1>3. RunningIsUndecided'
  BY DEF RunningIsUndecided, QueuedIsFresh, InOnePlace, StartedOnce
<1>4. InOnePlace'
  BY DEF InOnePlace, QueuedIsFresh, RunningIsUndecided
<1>5. StartedOnce'
  BY DEF StartedOnce, QueuedIsFresh, RunningIsUndecided, PendingIsHeld
<1>6. PendingIsHeld'
  BY DEF PendingIsHeld, QueuedIsFresh, RunningIsUndecided, InOnePlace
<1>7. RejectedHadNoEffect'
  BY DEF RejectedHadNoEffect, QueuedIsFresh, StartedOnce, RunningIsUndecided
<1> QED BY <1>1, <1>2, <1>3, <1>4, <1>5, <1>6, <1>7

LEMMA ActInv ==
  ASSUME NEW r \in Regs, BusInv, Act(r)
  PROVE  BusInv'
  BY BusAssumption
  DEF Act, Active, BusInv, TypeOK, Results, Rejected, QueuedIsFresh, RunningIsUndecided,
      InOnePlace, StartedOnce, PendingIsHeld, RejectedHadNoEffect

\* Everything queued at a participant's own responders leaves with its close.
LEMMA OwnedQueueLeaves ==
  ASSUME NEW p \in Participants, NEW r \in Owned(p)
  PROVE  queue[r] \subseteq Abandoned(p) \union Undelivered(p)
<1> SUFFICES ASSUME NEW c \in queue[r] PROVE c \in UNION {queue[s] : s \in Owned(p)}
  BY DEF Undelivered
<1>1. queue[r] \in {queue[s] : s \in Owned(p)}
  OBVIOUS
<1> QED BY <1>1, Zenon

LEMMA CloseInv ==
  ASSUME NEW p \in Participants, NEW h \in Regs \union {None}, BusInv, Close(p, h)
  PROVE  BusInv'
<1> DEFINE Gone == Abandoned(p) \union Undelivered(p)
<1> USE DEF BusInv
<1>1. TypeOK'
  BY BusAssumption DEF Close, TypeOK, Results, Rejected, TakeOut
<1>2. /\ queue' = [r \in Regs |-> queue[r] \ Gone]
      /\ UNCHANGED <<running, starts, acted>>
  BY DEF Close, TakeOut
<1>3. \A c \in Undelivered(p) : Waiting(c) /\ c \notin Abandoned(p)
  BY DEF Undelivered, Owned, Waiting
<1>4. \A c \in Commands :
        /\ c \notin Gone => result'[c] = result[c]
        /\ c \in Gone /\ Waiting(c) => result'[c] \in {"cancelled", "unavailable"}
        /\ c \in Gone /\ ~Waiting(c) =>
             result'[c] = "uncertain" /\ result[c] = "pending"
  BY <1>3 DEF Close, Abandoned, TypeOK
<1>5. \A r \in Regs : r \notin Owned(p) => reg'[r] = reg[r]
  BY DEF Close, TypeOK
<1>6. \A r \in Regs : \A c \in queue[r] : c \notin Gone => r \notin Owned(p)
  BY OwnedQueueLeaves
<1>7. \A c \in Commands : Waiting(c) => starts[c] = 0 /\ c \notin acted
  BY DEF Waiting, QueuedIsFresh, StartedOnce
<1> HIDE DEF Gone
<1>8. QueuedIsFresh'
  BY <1>2, <1>4, <1>5, <1>6 DEF QueuedIsFresh, TypeOK
<1>9. RunningIsUndecided'
  BY BusAssumption, <1>2, <1>4, <1>7 DEF RunningIsUndecided, TypeOK
<1>10. InOnePlace'
  BY <1>2 DEF InOnePlace
<1>11. \A c \in Commands : ~Waiting(c) /\ result[c] = "pending" => starts[c] = 1
  BY BusAssumption DEF Waiting, PendingIsHeld, RunningIsUndecided, TypeOK
<1>12. StartedOnce'
  BY <1>2, <1>4, <1>7, <1>11 DEF StartedOnce, TypeOK
<1>13. PendingIsHeld'
  BY <1>2, <1>4, <1>5, <1>6 DEF PendingIsHeld, TypeOK
<1>14. RejectedHadNoEffect'
  BY <1>2, <1>4, <1>7 DEF RejectedHadNoEffect, Rejected, TypeOK
<1> QED BY <1>1, <1>8, <1>9, <1>10, <1>12, <1>13, <1>14

LEMMA IdleInv ==
  ASSUME BusInv,
         \/ \E p \in Participants, h \in Regs : AwaitClose(p, h)
         \/ \E p \in Participants : CloseDone(p)
         \/ UNCHANGED vars
  PROVE  BusInv'
<1> USE DEF BusInv, QueuedIsFresh, RunningIsUndecided, InOnePlace, StartedOnce,
            PendingIsHeld, RejectedHadNoEffect
<1>1. CASE \E p \in Participants : CloseDone(p)
  BY <1>1 DEF CloseDone, TypeOK
<1>2. CASE \E p \in Participants, h \in Regs : AwaitClose(p, h)
  BY <1>2 DEF AwaitClose, TypeOK
<1>3. CASE UNCHANGED vars
  BY <1>3 DEF vars, TypeOK
<1> QED BY <1>1, <1>2, <1>3

LEMMA NextInv == BusInv /\ [Next]_vars => BusInv'
<1> SUFFICES ASSUME BusInv, [Next]_vars PROVE BusInv'
  OBVIOUS
<1>1. CASE \E r \in Regs : Respond(r) \/ Unrespond(r) \/ Act(r)
  BY <1>1, RespondInv, UnrespondInv, ActInv
<1>2. CASE \E c \in Commands, h \in Regs \union {None} : Request(c, h)
  BY <1>2, RequestInv
<1>3. CASE \E c \in Commands : Deadline(c) \/ Abort(c)
  BY <1>3, EndInv DEF Deadline, Abort, Rejected
<1>4. CASE \E r \in Regs, c \in Commands : Skip(r, c) \/ Start(r, c)
  BY <1>4, SkipInv, StartInv
<1>5. CASE \E r \in Regs, res \in Results : Answer(r, res)
  BY <1>5, AnswerInv
<1>6. CASE \E p \in Participants, h \in Regs \union {None} : Close(p, h)
  BY <1>6, CloseInv
<1>7. CASE \/ \E p \in Participants, h \in Regs : AwaitClose(p, h)
           \/ \E p \in Participants : CloseDone(p)
           \/ UNCHANGED vars
  BY <1>7, IdleInv
<1> QED BY <1>1, <1>2, <1>3, <1>4, <1>5, <1>6, <1>7 DEF Next

\* BusInv holds in every reachable state, for every value of the constants.
THEOREM BusInvariant == Spec => []BusInv
  BY BusInit, NextInv, PTL DEF Spec

\* The bus's state always has its type.
THEOREM BusType == Spec => []TypeOK
<1>1. BusInv => TypeOK
  BY DEF BusInv
<1> QED BY <1>1, BusInvariant, PTL

\* A rejected request had no effect (#dispatch's end, #respond's settle).
THEOREM BusRejectedHadNoEffect == Spec => []RejectedHadNoEffect
<1>1. BusInv => RejectedHadNoEffect
  BY DEF BusInv
<1> QED BY <1>1, BusInvariant, PTL

\* Only a command its handler had can be uncertain (#dispatch's end).
THEOREM BusUncertainWasStarted == Spec => []UncertainWasStarted
<1>1. BusInv => UncertainWasStarted
  BY DEF BusInv, StartedOnce, UncertainWasStarted
<1> QED BY <1>1, BusInvariant, PTL

\* Closing a responder or a participant strands no request.
THEOREM BusPendingIsHeld == Spec => []PendingIsHeld
<1>1. BusInv => PendingIsHeld
  BY DEF BusInv
<1> QED BY <1>1, BusInvariant, PTL

-----------------------------------------------------------------------------
(* What one step may do to a request.                                      *)

\* A command starts only from a queue, where it is still pending.
LEMMA RejectedStep ==
  ASSUME BusInv, [Next]_vars, NEW c \in Commands, result[c] \in Rejected
  PROVE  starts'[c] = starts[c]
<1>1. CASE \E r \in Regs, d \in Commands : Start(r, d)
  <2>1. PICK r \in Regs, d \in Commands : Start(r, d)
    BY <1>1
  <2>2. d # c
    BY <2>1 DEF Start, FirstIn, BusInv, QueuedIsFresh, Rejected
  <2> QED BY <2>1, <2>2 DEF Start, BusInv, TypeOK
<1>2. CASE ~ \E r \in Regs, d \in Commands : Start(r, d)
  BY <1>2 DEF Next, vars, Respond, Unrespond, Act, Request, Deadline, Abort, End,
              Skip, Answer, Close, AwaitClose, CloseDone
<1> QED BY <1>1, <1>2

\* A refused, expired or abandoned request never starts later.
THEOREM BusRejectedNeverStarts == Spec => RejectedNeverStarts
<1>1. BusInv /\ [Next]_vars =>
        [\A c \in Commands : result[c] \in Rejected => starts'[c] = starts[c]]_vars
  BY RejectedStep
<1> QED BY <1>1, BusInvariant, PTL DEF Spec, RejectedNeverStarts

LEMMA SettledStep ==
  ASSUME BusInv, [Next]_vars, NEW c \in Commands,
         result[c] \notin {"unsent", "pending"}
  PROVE  result'[c] = result[c]
<1> USE DEF BusInv, TypeOK
<1>1. CASE \E r \in Regs : Respond(r) \/ Act(r)
  BY <1>1 DEF Respond, Act
<1>2. CASE \E r \in Regs : Unrespond(r)
  BY <1>2 DEF Unrespond, QueuedIsFresh
<1>3. CASE \E d \in Commands, h \in Regs \union {None} : Request(d, h)
  BY <1>3 DEF Request, Dispatch, Refuse
<1>4. CASE \E d \in Commands : Deadline(d) \/ Abort(d)
  BY <1>4 DEF Deadline, Abort, End
<1>5. CASE \E r \in Regs, d \in Commands : Skip(r, d) \/ Start(r, d)
  BY <1>5 DEF Skip, Start, Settled
<1>6. CASE \E r \in Regs, res \in Results : Answer(r, res)
  BY <1>6 DEF Answer, Settled
<1>7. CASE \E p \in Participants, h \in Regs \union {None} : Close(p, h)
  BY <1>7 DEF Close, Abandoned, Undelivered, Owned, QueuedIsFresh
<1>8. CASE \/ \E p \in Participants, h \in Regs : AwaitClose(p, h)
           \/ \E p \in Participants : CloseDone(p)
           \/ UNCHANGED vars
  BY <1>8 DEF AwaitClose, CloseDone, vars
<1> QED BY <1>1, <1>2, <1>3, <1>4, <1>5, <1>6, <1>7, <1>8 DEF Next

\* A request settles once (#dispatch's settle).
THEOREM BusSettledOnce == Spec => SettledOnce
<1>1. BusInv /\ [Next]_vars =>
        [\A c \in Commands :
           result[c] \notin {"unsent", "pending"} => result'[c] = result[c]]_vars
  BY SettledStep
<1> QED BY <1>1, BusInvariant, PTL DEF Spec, SettledOnce

-----------------------------------------------------------------------------
(* CommandBus implements CommandPromise.                                   *)

\* One command's life, as CommandPromise sees it.
Bar(c) == [stage |-> Stage(c), verdict |-> Verdict(c), effect |-> Effect(c)]

Lives(c) == Promise!LifeStep(Bar(c), Bar(c)') \/ Bar(c)' = Bar(c)

\* A command's life advances by one step when it is ...
LEMMA LifeUnchanged ==
  ASSUME NEW c \in Commands, result'[c] = result[c], starts'[c] = starts[c],
         c \in acted' <=> c \in acted
  PROVE  Lives(c)
  BY DEF Lives, Bar, Stage, Verdict, Effect

\* ... requested,
LEMMA LifeIssued ==
  ASSUME BusInv, NEW c \in Commands, result[c] = "unsent",
         result'[c] \in {"pending"} \union Rejected, starts'[c] = starts[c],
         acted' = acted
  PROVE  Lives(c)
<1>1. starts[c] = 0 /\ c \notin acted
  BY DEF BusInv, StartedOnce
<1>2. Bar(c) = Promise!Unsent
  BY <1>1 DEF Bar, Stage, Verdict, Effect, Promise!Unsent
<1>3. CASE result'[c] = "pending"
  <2>1. Bar(c)' = [stage |-> "waiting", verdict |-> "none", effect |-> "none"]
    BY <1>1, <1>3 DEF Bar, Stage, Verdict, Effect
  <2> QED BY <1>2, <2>1 DEF Lives, Promise!LifeStep, Promise!Issue, Promise!Waits,
                       Promise!Withdrawn
<1>4. CASE result'[c] \in Rejected
  <2>1. Bar(c)' = [stage |-> "withdrawn", verdict |-> "rejected", effect |-> "none"]
    BY <1>1, <1>4 DEF Bar, Stage, Verdict, Effect, Rejected
  <2> QED BY <1>2, <2>1 DEF Lives, Promise!LifeStep, Promise!Issue, Promise!Waits,
                       Promise!Withdrawn
<1> QED BY <1>3, <1>4

\* ... taken out of a queue,
LEMMA LifeWithdrawn ==
  ASSUME BusInv, NEW c \in Commands, Waiting(c),
         result'[c] \in Rejected, starts'[c] = starts[c], acted' = acted
  PROVE  Lives(c)
<1>1. result[c] = "pending" /\ starts[c] = 0 /\ c \notin acted
  BY DEF BusInv, QueuedIsFresh, StartedOnce, Waiting
<1>2. Bar(c) = [stage |-> "waiting", verdict |-> "none", effect |-> "none"]
  BY <1>1 DEF Bar, Stage, Verdict, Effect
<1>3. Bar(c)' = [stage |-> "withdrawn", verdict |-> "rejected", effect |-> "none"]
  BY <1>1 DEF Bar, Stage, Verdict, Effect, Rejected
<1> QED BY <1>2, <1>3 DEF Lives, Promise!LifeStep, Promise!Withdraw,
                        Promise!Waits, Promise!Withdrawn

\* ... given to its handler,
LEMMA LifeBegun ==
  ASSUME BusInv, NEW c \in Commands, Waiting(c),
         result' = result, starts'[c] = starts[c] + 1, acted' = acted
  PROVE  Lives(c)
<1>1. result[c] = "pending" /\ starts[c] = 0 /\ c \notin acted
  BY DEF BusInv, QueuedIsFresh, StartedOnce, Waiting
<1>2. Bar(c) = [stage |-> "waiting", verdict |-> "none", effect |-> "none"]
  BY <1>1 DEF Bar, Stage, Verdict, Effect
<1>3. Bar(c)' = [stage |-> "started", verdict |-> "none", effect |-> "none"]
  BY <1>1 DEF Bar, Stage, Verdict, Effect
<1> QED BY <1>2, <1>3 DEF Lives, Promise!LifeStep, Promise!Begin, Promise!Waits

\* ... acted on,
LEMMA LifeActed ==
  ASSUME BusInv, NEW c \in Commands, NEW r \in Regs, running[r] = c,
         result' = result, starts' = starts, c \in acted'
  PROVE  Lives(c)
<1>1. starts[c] = 1 /\ result[c] \in {"pending", "uncertain"}
  BY BusAssumption DEF BusInv, RunningIsUndecided
<1>2. /\ Bar(c).stage = "started"
      /\ Bar(c).verdict \in {"none", "uncertain"}
  BY <1>1 DEF Bar, Stage, Verdict, Effect, Rejected
<1>3. Bar(c)' = [Bar(c) EXCEPT !.effect = "made"]
  BY <1>1 DEF Bar, Stage, Verdict, Effect
<1> QED BY <1>2, <1>3 DEF Lives, Promise!LifeStep, Promise!TakeEffect

\* ... or decided while its handler has it.
LEMMA LifeDecided ==
  ASSUME BusInv, NEW c \in Commands, starts[c] = 1,
         result[c] = "pending", acted' = acted, starts'[c] = starts[c],
         \/ result'[c] \in {"accepted", "uncertain"}
         \/ result'[c] \in Rejected /\ c \notin acted
  PROVE  Lives(c)
<1>1. /\ Bar(c).stage = "started" /\ Bar(c).verdict = "none"
      /\ Bar(c).effect = Effect(c)
  BY DEF Bar, Stage, Verdict, Effect
<1>2. Stage(c)' = Stage(c) /\ Effect(c)' = Effect(c)
  BY DEF Stage, Effect, Rejected
<1>3. Bar(c)' = [Bar(c) EXCEPT !.verdict = Verdict(c)']
  BY <1>2 DEF Bar
<1>4. \/ Verdict(c)' \in {"accepted", "uncertain"}
      \/ Verdict(c)' = "rejected" /\ c \notin acted
  BY DEF Verdict, Rejected
<1> QED BY <1>1, <1>3, <1>4 DEF Effect, Lives, Promise!LifeStep, Promise!Decide

\* Every step of the bus is one of these for each command.
LEMMA StepLives ==
  ASSUME BusInv, [Next]_vars, NEW c \in Commands
  PROVE  Lives(c)
<1> USE BusAssumption DEF BusInv, TypeOK
<1>1. CASE \E r \in Regs : Respond(r)
  BY <1>1, LifeUnchanged DEF Respond
<1>2. ASSUME NEW r \in Regs, Unrespond(r) PROVE Lives(c)
  <2>1. CASE c \in queue[r]
    BY <1>2, <2>1, LifeWithdrawn DEF Unrespond, Waiting, Rejected
  <2>2. CASE c \notin queue[r]
    BY <1>2, <2>2, LifeUnchanged DEF Unrespond
  <2> QED BY <2>1, <2>2
<1>3. ASSUME NEW r \in Regs, Act(r) PROVE Lives(c)
  <2>1. CASE running[r] = c
    BY <1>3, <2>1, LifeActed DEF Act
  <2>2. CASE running[r] # c
    BY <1>3, <2>2, LifeUnchanged DEF Act
  <2> QED BY <2>1, <2>2
<1>4. ASSUME NEW d \in Commands, NEW h \in Regs \union {None}, Request(d, h)
      PROVE  Lives(c)
  <2>1. CASE c = d
    BY <1>4, <2>1, LifeIssued DEF Request, Dispatch, Refuse, Rejected
  <2>2. CASE c # d
    BY <1>4, <2>2, LifeUnchanged DEF Request, Dispatch, Refuse
  <2> QED BY <2>1, <2>2
<1>5. ASSUME NEW d \in Commands, NEW res \in Rejected, End(d, res, "uncertain")
      PROVE  Lives(c)
  <2>1. CASE c = d /\ Waiting(c)
    BY <1>5, <2>1, LifeWithdrawn DEF End
  <2>2. CASE c = d /\ ~Waiting(c)
    <3>1. starts[c] = 1
      BY <1>5, <2>2 DEF End, Waiting, PendingIsHeld, RunningIsUndecided
    <3> QED BY <1>5, <2>2, <3>1, LifeDecided DEF End
  <2>3. CASE c # d
    BY <1>5, <2>3, LifeUnchanged DEF End
  <2> QED BY <2>1, <2>2, <2>3
<1>6. ASSUME NEW r \in Regs, NEW d \in Commands, Skip(r, d) PROVE Lives(c)
  <2>1. CASE c = d
    <3>1. Waiting(c) /\ result[c] = "pending"
      BY <1>6, <2>1 DEF Skip, FirstIn, Waiting, QueuedIsFresh
    <3> QED BY <1>6, <2>1, <3>1, LifeWithdrawn DEF Skip, Settled, Rejected
  <2>2. CASE c # d
    BY <1>6, <2>2, LifeUnchanged DEF Skip
  <2> QED BY <2>1, <2>2
<1>7. ASSUME NEW r \in Regs, NEW d \in Commands, Start(r, d) PROVE Lives(c)
  <2>1. CASE c = d
    BY <1>7, <2>1, LifeBegun DEF Start, FirstIn, Waiting
  <2>2. CASE c # d
    BY <1>7, <2>2, LifeUnchanged DEF Start
  <2> QED BY <2>1, <2>2
<1>8. ASSUME NEW r \in Regs, NEW res \in Results, Answer(r, res) PROVE Lives(c)
  <2>1. CASE running[r] = c /\ result[c] = "pending"
    <3>1. starts[c] = 1
      BY <1>8, <2>1 DEF RunningIsUndecided
    <3>2. result'[c] = res
      BY <1>8, <2>1 DEF Answer, Settled, Active
    <3> QED BY <1>8, <2>1, <3>1, <3>2, LifeDecided DEF Answer, Answers, Rejected
  <2>2. CASE running[r] # c \/ result[c] # "pending"
    BY <1>8, <2>2, LifeUnchanged DEF Answer, Settled
  <2> QED BY <2>1, <2>2
<1>9. ASSUME NEW p \in Participants, NEW h \in Regs \union {None}, Close(p, h)
      PROVE  Lives(c)
  <2>1. CASE c \in Abandoned(p) /\ Waiting(c)
    BY <1>9, <2>1, LifeWithdrawn DEF Close, Rejected
  <2>2. CASE c \in Abandoned(p) /\ ~Waiting(c)
    <3>1. starts[c] = 1 /\ result[c] = "pending"
      BY <2>2 DEF Abandoned, Waiting, PendingIsHeld, RunningIsUndecided
    <3> QED BY <1>9, <2>2, <3>1, LifeDecided DEF Close
  <2>3. CASE c \in Undelivered(p)
    <3>1. Waiting(c) /\ c \notin Abandoned(p)
      BY <2>3 DEF Undelivered, Owned, Waiting
    <3> QED BY <1>9, <2>3, <3>1, LifeWithdrawn DEF Close, Rejected
  <2>4. CASE c \notin Abandoned(p) /\ c \notin Undelivered(p)
    BY <1>9, <2>4, LifeUnchanged DEF Close
  <2> QED BY <2>1, <2>2, <2>3, <2>4
<1>10. CASE \/ \E p \in Participants, h \in Regs : AwaitClose(p, h)
            \/ \E p \in Participants : CloseDone(p)
            \/ UNCHANGED vars
  BY <1>10, LifeUnchanged DEF AwaitClose, CloseDone, vars
<1>11. (\E d \in Commands : Deadline(d) \/ Abort(d)) => Lives(c)
  BY <1>5 DEF Deadline, Abort, Rejected
<1> QED BY <1>1, <1>2, <1>3, <1>4, <1>6, <1>7, <1>8, <1>9, <1>10, <1>11 DEF Next

\* The bus implements the promise: a command reaches its handler at most once,
\* a refusal proves no effect, accepted comes after the handler is done.
THEOREM BusKeepsPromise == Spec => KeepsPromise
<1>1. Init => Promise!Init
  <2> SUFFICES ASSUME Init, NEW c \in Commands PROVE lifeBar[c] = Promise!Unsent
    BY DEF Promise!Init, lifeBar
  <2> QED BY DEF Init, lifeBar, Stage, Verdict, Effect, Promise!Unsent
<1>2. BusInv /\ BusInv' /\ [Next]_vars => [Promise!Next]_lifeBar
  <2> SUFFICES ASSUME BusInv, BusInv', [Next]_vars PROVE Promise!Next
    OBVIOUS
  <2>1. lifeBar = [c \in Commands |-> Bar(c)] /\ lifeBar' = [c \in Commands |-> Bar(c)']
    BY DEF lifeBar, Bar
  <2>2. \A c \in Commands : Bar(c)' \in Promise!Life
    BY DEF BusInv, TypeOK, Results, Rejected, Bar, Stage, Verdict, Effect,
           Promise!Life, Promise!Stages, Promise!Verdicts
  <2>3. \A c \in Commands : Lives(c)
    BY StepLives
  <2> QED BY <2>1, <2>2, <2>3 DEF Promise!Next, Lives
<1> QED BY <1>1, <1>2, BusInvariant, PTL DEF Spec, KeepsPromise, Promise!Spec
=============================================================================
