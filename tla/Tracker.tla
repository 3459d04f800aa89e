------------------------------ MODULE Tracker ------------------------------
(***************************************************************************)
(* The core's action tracker: apps/runtime/src/core/tracker.ts.  Callers   *)
(* ask for an action under a request ID; the tracker records it, sends it  *)
(* once over the bus, and advances its stored operation (Operations) with  *)
(* the reply, the outcomes its intake takes and the deadline, across       *)
(* restarts of the core.                                                   *)
(*                                                                         *)
(* The bus is its promise, CommandPromise; the intake's delivery is        *)
(* OutcomeDelivery.  Here the intake takes any outcome not yet in history. *)
(* Requests in CoreOwned reach a responder of the core itself, which needs *)
(* the operator admission the dispatcher made and completes the operation  *)
(* in its own save.                                                        *)
(*                                                                         *)
(* A store transaction is synchronous, so one action; the awaits between   *)
(* recording, sending and applying the reply are where others run.  Stops, *)
(* crashes and refused commits each cost one unit of MaxTrouble, which     *)
(* only bounds TLC.                                                        *)
(***************************************************************************)
EXTENDS Operations

CONSTANTS
  Requests,     \* request IDs
  CoreOwned,    \* the ones whose responder is the core itself
  Calls,        \* calls of dispatch()
  RequestOf,    \* [Calls -> Requests]
  ActionOf,     \* [Calls -> Actions]
  Reports,      \* outcomes that may reach the intake
  Core,         \* the core's own source
  Owner,        \* the source of the responder of the other requests
  Absent,       \* no operation has this request ID
  MaxTrouble    \* bound: stops, crashes and refused commits

ASSUME TrackerAssumption ==
  /\ CoreOwned \subseteq Requests
  /\ RequestOf \in [Calls -> Requests]
  /\ ActionOf \in [Calls -> Actions]
  /\ Reports \subseteq Outcomes
  /\ {Core, Owner} \subseteq Sources
  /\ \A o \in Reports : o.source # Core
  /\ OutcomeIds # {}
  /\ Absent \notin Operation
  /\ MaxTrouble \in Nat

VARIABLES
  op,         \* durable: [Requests -> an operation, or Absent]
  history,    \* durable: [Requests -> outcomes taken]
  core,       \* up, stopping or down
  call,       \* [Calls]: idle, recorded, sent or over
  answer,     \* [Calls]: what the caller was told
  life,       \* [Requests]: the bus's promise
  handling,   \* requests whose handler runs
  admission,  \* [Requests]: none, given or bound to the handler's command
  late,       \* requests whose outcome deadline passed
  sends,      \* [Requests]: how often it was sent (history)
  trouble     \* stops, crashes and refused commits so far

vars == <<op, history, core, call, answer, life, handling, admission, late,
          sends, trouble>>

Answers == {"none", "accepted", "rejected", "uncertain", "duplicate-conflict",
            "unavailable"}

Promise == INSTANCE CommandPromise WITH Commands <- Requests

TypeOK ==
  /\ op \in [Requests -> Operation \union {Absent}]
  /\ history \in [Requests -> SUBSET Outcomes]
  /\ core \in {"up", "stopping", "down"}
  /\ call \in [Calls -> {"idle", "recorded", "sent", "over"}]
  /\ answer \in [Calls -> Answers]
  /\ life \in [Requests -> Promise!Life]
  /\ handling \subseteq Requests
  /\ admission \in [Requests -> {"none", "given", "bound"}]
  /\ late \subseteq Requests
  /\ sends \in [Requests -> Nat]
  /\ trouble \in Nat

Init ==
  /\ op = [r \in Requests |-> Absent]
  /\ history = [r \in Requests |-> {}]
  /\ core = "up"
  /\ call = [c \in Calls |-> "idle"]
  /\ answer = [c \in Calls |-> "none"]
  /\ Promise!Init
  /\ handling = {}
  /\ admission = [r \in Requests |-> "none"]
  /\ late = {}
  /\ sends = [r \in Requests |-> 0]
  /\ trouble = 0

Trouble == trouble < MaxTrouble /\ trouble' = trouble + 1
Fine    == UNCHANGED trouble

Tell(c, a) ==
  /\ call' = [call EXCEPT ![c] = "over"]
  /\ answer' = [answer EXCEPT ![c] = a]

-----------------------------------------------------------------------------
(* The dispatcher.                                                         *)

\* Committed as sent before anything is sent.
Record(c) ==
  LET r == RequestOf[c] IN
  /\ core = "up" /\ call[c] = "idle" /\ op[r] = Absent
  /\ op' = [op EXCEPT ![r] = Sent(ActionOf[c])]
  /\ call' = [call EXCEPT ![c] = "recorded"]
  /\ admission' = [admission EXCEPT ![r] = IF r \in CoreOwned THEN "given" ELSE @]
  /\ UNCHANGED <<history, core, answer, life, handling, late, sends, trouble>>

\* A refused commit sends nothing, nor does a core that stops.
Decline(c) ==
  /\ call[c] = "idle"
  /\ \/ core = "stopping" /\ Fine
     \/ core = "up" /\ Trouble
  /\ Tell(c, "unavailable")
  /\ UNCHANGED <<op, history, core, life, handling, admission, late, sends>>

\* Mutant: an earlier request's answer is given for another action.
EarlierAnswerOfAny(o, action) ==
  IF o.reply = "accepted" THEN "accepted"
  ELSE IF o.reply # "none" /\ o.status \in {"rejected", "expired"} THEN "rejected"
  ELSE "uncertain"

\* #again: a request ID in use is never sent again.
EarlierAnswer(o, action) ==
  IF o.action # action THEN "duplicate-conflict"
  ELSE IF o.reply = "accepted" THEN "accepted"
  ELSE IF o.reply # "none" /\ o.status \in {"rejected", "expired"} THEN "rejected"
  ELSE "uncertain"

\* Mutant: an action without a reply is sent again when its caller asks again.
AgainResends(c) ==
  /\ core = "up" /\ call[c] = "idle"
  /\ op[RequestOf[c]] # Absent /\ op[RequestOf[c]].reply = "none"
  /\ call' = [call EXCEPT ![c] = "recorded"]
  /\ UNCHANGED <<op, history, core, answer, life, handling, admission, late, sends,
                 trouble>>

Again(c) ==
  LET o == op[RequestOf[c]] IN
  /\ core = "up" /\ call[c] = "idle" /\ o # Absent
  /\ Tell(c, EarlierAnswer(o, ActionOf[c]))
  /\ UNCHANGED <<op, history, core, life, handling, admission, late, sends, trouble>>

\* sdk.request: the bus queues the command or refuses it at once.  Sent again
\* it would be a command of its own; `life' stays the first one's.
Send(c) ==
  LET r == RequestOf[c] IN
  /\ core # "down" /\ call[c] = "recorded"
  /\ \E m \in Promise!Life :
       /\ IF life[r] = Promise!Unsent THEN Promise!Issue(life[r], m) ELSE m = life[r]
       /\ life' = [life EXCEPT ![r] = m]
  /\ call' = [call EXCEPT ![c] = "sent"]
  /\ sends' = [sends EXCEPT ![r] = @ + 1]
  /\ UNCHANGED <<op, history, core, answer, handling, admission, late, trouble>>

\* The request ended: an admission no responder took goes, the reply is applied
\* in its own commit, and the caller is told also if that commit is refused.
RefusedBy(r) ==
  IF life[r].stage = "withdrawn" THEN {NoOne}
  ELSE {NoOne, IF r \in CoreOwned THEN Core ELSE Owner}

AfterResult(r, o) ==
  CASE life[r].verdict = "uncertain" -> {AfterUncertainReply(o)}
    [] life[r].verdict = "accepted" ->
         {AfterReply(o, "accepted", IF r \in CoreOwned THEN Core ELSE Owner)}
    [] life[r].verdict = "rejected" ->
         {AfterReply(o, code, by) : code \in RefusalCodes, by \in RefusedBy(r)}

Reply(c) ==
  LET r == RequestOf[c] IN
  /\ core # "down" /\ call[c] = "sent"
  /\ life[r].verdict # "none"
  /\ admission' = [admission EXCEPT ![r] = IF @ = "given" THEN "none" ELSE @]
  /\ Tell(c, life[r].verdict)
  /\ \/ Fine /\ \E o \in AfterResult(r, op[r]) : op' = [op EXCEPT ![r] = o]
     \/ Trouble /\ UNCHANGED op
  /\ UNCHANGED <<history, core, life, handling, late, sends>>

-----------------------------------------------------------------------------
(* The request on the bus and its responder.                               *)

\* Still queued at the reply deadline, or its owner closed.
Withdraw(r) ==
  /\ core # "down"
  /\ \E m \in Promise!Life :
       Promise!Withdraw(life[r], m) /\ life' = [life EXCEPT ![r] = m]
  /\ UNCHANGED <<op, history, core, call, answer, handling, admission, late, sends,
                 trouble>>

\* The handler starts; a responder of the core binds its admission first.
Begin(r) ==
  /\ core # "down"
  /\ r \in CoreOwned => admission[r] = "given"
  /\ \E m \in Promise!Life :
       Promise!Begin(life[r], m) /\ life' = [life EXCEPT ![r] = m]
  /\ handling' = handling \union {r}
  /\ admission' = [admission EXCEPT ![r] = IF r \in CoreOwned THEN "bound" ELSE @]
  /\ UNCHANGED <<op, history, core, call, answer, late, sends, trouble>>

\* A module's handler, perhaps in another process, changes its device.
TakeEffect(r) ==
  /\ r \in handling \ CoreOwned
  /\ life' = [life EXCEPT ![r].effect = "made"]
  /\ UNCHANGED <<op, history, core, call, answer, handling, admission, late, sends,
                 trouble>>

\* completeCore: the core's save, its outcome and the operation in one commit.
CoreOutcome(id) ==
  [source |-> Core, id |-> id, result |-> "succeeded", evidence |-> "observed"]

CoreComplete(r, id) ==
  /\ core # "down"
  /\ r \in handling /\ admission[r] = "bound"
  /\ life[r].effect = "none"
  /\ op' = [op EXCEPT ![r] =
              AfterOutcome([op[r] EXCEPT !.responder = Core], CoreOutcome(id))]
  /\ history' = [history EXCEPT ![r] = @ \union {CoreOutcome(id)}]
  /\ life' = [life EXCEPT ![r].effect = "made"]
  /\ UNCHANGED <<core, call, answer, handling, admission, late, sends, trouble>>

\* The handler ends; the core's own accepts exactly what it saved (the store
\* commits without yielding, so no timeout answers for a save that stands).
Verdicts(r) ==
  IF r \in CoreOwned
  THEN {IF life[r].effect = "made" THEN "accepted" ELSE "rejected"}
  ELSE {"accepted", "uncertain"} \union
         (IF life[r].effect = "made" THEN {} ELSE {"rejected"})

End(r, v) ==
  /\ r \in handling /\ v \in Verdicts(r)
  /\ handling' = handling \ {r}
  /\ admission' = [admission EXCEPT ![r] = "none"]
  /\ life' = [life EXCEPT ![r].verdict = IF @ = "none" THEN v ELSE @]
  /\ UNCHANGED <<op, history, core, call, answer, late, sends, trouble>>

\* Mutant: no reply deadline once the handler has the command.
ReplyDeadlineNever(r) == r \notin Requests /\ UNCHANGED vars

\* The reply deadline passes while the handler runs.
ReplyDeadline(r) ==
  /\ core # "down"
  /\ life[r].stage = "started" /\ life[r].verdict = "none"
  /\ life' = [life EXCEPT ![r].verdict = "uncertain"]
  /\ UNCHANGED <<op, history, core, call, answer, handling, admission, late, sends,
                 trouble>>

-----------------------------------------------------------------------------
(* The intake and the deadline.                                            *)

\* The intake takes an outcome history does not hold; the owner reports one
\* only once it has the command.  What names another owner changes nothing.
TakeOutcome(r, taken) ==
  /\ core = "up"
  /\ \A k \in history[r] : k.source # taken.source \/ k.id # taken.id
  /\ taken.source = Owner => life[r].stage = "started"
  /\ history' = [history EXCEPT ![r] = @ \union {taken}]
  /\ op' = IF op[r] # Absent /\ Completes(op[r], taken)
           THEN [op EXCEPT ![r] = AfterOutcome(@, taken)] ELSE op
  /\ UNCHANGED <<core, call, answer, life, handling, admission, late, sends, trouble>>

Due(r) ==
  /\ op[r] # Absent /\ r \notin late
  /\ late' = late \union {r}
  /\ UNCHANGED <<op, history, core, call, answer, life, handling, admission, sends,
                 trouble>>

\* Mutant: an accepted operation waits for its outcome for ever.
OverdueUnreplied(r) == r \in late /\ op[r] # Absent /\ op[r].status = "sent"

Overdue(r) == r \in late /\ op[r] # Absent /\ Pending(op[r])

\* #sweep: every pending operation past its deadline ends, in one commit.  A
\* refused commit changes nothing and is tried again.
Sweep ==
  /\ core = "up"
  /\ \E r \in Requests : Overdue(r)
  /\ op' = [r \in Requests |-> IF Overdue(r) THEN AfterDeadline(op[r]) ELSE op[r]]
  /\ UNCHANGED <<history, core, call, answer, life, handling, admission, late, sends,
                 trouble>>

-----------------------------------------------------------------------------
(* Stops, crashes and restarts.                                            *)

Busy(c) == call[c] \in {"recorded", "sent"}

Stop ==
  /\ core = "up" /\ Trouble
  /\ core' = "stopping"
  /\ UNCHANGED <<op, history, call, answer, life, handling, admission, late, sends>>

\* What dies with the core: the queued commands, and its own handlers.
Die ==
  /\ core' = "down"
  /\ call' = [c \in Calls |-> IF Busy(c) THEN "over" ELSE call[c]]
  /\ life' = [r \in Requests |->
                IF life[r] = Promise!Waits THEN Promise!Withdrawn ELSE life[r]]
  /\ handling' = handling \ CoreOwned
  /\ admission' = [r \in Requests |-> "none"]
  /\ UNCHANGED <<op, history, answer, late, sends>>

\* stop() lets the dispatches and the core's own handlers under way finish.
Halt ==
  /\ core = "stopping"
  /\ \A c \in Calls : ~Busy(c)
  /\ handling \intersect CoreOwned = {}
  /\ Die /\ Fine

Crash == core # "down" /\ Die /\ Trouble

\* resume() only arms the deadline timer: nothing is sent again.
Start ==
  /\ core = "down"
  /\ core' = "up"
  /\ UNCHANGED <<op, history, call, answer, life, handling, admission, late, sends,
                 trouble>>

-----------------------------------------------------------------------------
Next ==
  \/ \E c \in Calls : Record(c) \/ Decline(c) \/ Again(c) \/ Send(c) \/ Reply(c)
  \/ \E r \in Requests :
       \/ Withdraw(r) \/ Begin(r) \/ TakeEffect(r) \/ ReplyDeadline(r) \/ Due(r)
       \/ \E v \in Promise!Verdicts : End(r, v)
       \/ \E taken \in Reports : TakeOutcome(r, taken)
       \/ \E id \in OutcomeIds : CoreComplete(r, id)
  \/ Sweep \/ Stop \/ Halt \/ Crash \/ Start

Spec == Init /\ [][Next]_vars

\* Time passes, timers fire and the event loop runs what is due.
Fairness ==
  /\ \A r \in Requests : WF_vars(Due(r)) /\ WF_vars(ReplyDeadline(r) \/ Withdraw(r))
  /\ \A c \in Calls : WF_vars(Send(c)) /\ WF_vars(Reply(c))
  /\ WF_vars(Sweep)

FairSpec == Spec /\ Fairness

-----------------------------------------------------------------------------
(* Why the properties below hold: the inductive invariant of the proofs.   *)

\* An operation has no result exactly while it waits for its fate.
PendingHasNoResult ==
  \A r \in Requests :
    op[r] # Absent => (Pending(op[r]) <=> op[r].result = "none")

\* What was not sent has no life yet, and what was sent is stored.
UnsentIsUntouched ==
  \A r \in Requests :
    /\ sends[r] \in {0, 1}
    /\ op[r] = Absent => sends[r] = 0
    /\ sends[r] = 0 => life[r] = Promise!Unsent

\* At most one call works on a request ID: the one that stored its operation.
OneCallWorks ==
  /\ \A c \in Calls :
       /\ call[c] = "recorded" => op[RequestOf[c]] # Absent /\ sends[RequestOf[c]] = 0
       /\ call[c] = "sent" => sends[RequestOf[c]] = 1
  /\ \A c, d \in Calls :
       Busy(c) /\ Busy(d) /\ RequestOf[c] = RequestOf[d] => c = d

\* A running handler's command was sent, and nobody was told it was rejected.
HandledIsUndecided ==
  \A r \in handling :
    sends[r] = 1 /\ life[r].stage = "started" /\ life[r].verdict \in {"none", "uncertain"}

\* An operation is shown as refused only after the bus said so, for good.
RefusalIsTrue ==
  \A r \in Requests :
    /\ life[r].verdict = "rejected" => life[r].effect = "none"
    /\ op[r] # Absent /\ op[r].status \in {"rejected", "expired"} =>
         life[r].verdict = "rejected"

TrackerInv ==
  /\ TypeOK
  /\ PendingHasNoResult
  /\ UnsentIsUntouched
  /\ OneCallWorks
  /\ HandledIsUndecided
  /\ RefusalIsTrue

-----------------------------------------------------------------------------
(* Properties.                                                             *)

\* A request ID is sent at most once, and only after its operation is stored:
\* callers that repeat themselves, crashes and restarts send nothing again.
SentOnce == \A r \in Requests : sends[r] <= 1 /\ (sends[r] = 1 => op[r] # Absent)

\* An operation shown as rejected or expired had no effect, although its reply,
\* its outcome and its deadline race and any of their commits may be lost.
RefusedHadNoEffect ==
  \A r \in Requests :
    op[r] # Absent /\ op[r].status \in {"rejected", "expired"} =>
      life[r].effect = "none"

\* A result only hardens: uncertain may become definitive and definitive may
\* become a conflict, and nothing ever goes back, whatever arrives late.
Hardness(x) ==
  CASE x = "none" -> 0 [] x = "uncertain" -> 1 [] x \in Definitive -> 2
    [] x = "conflict" -> 3

ResultHardens ==
  [][\A r \in Requests :
       op[r] # Absent =>
         \/ op'[r].result = op[r].result
         \/ Hardness(op[r].result) < Hardness(op'[r].result)]_vars

\* The result is what the outcomes taken say, in whatever order they came: two
\* that differ are a conflict, and one is never hidden by another.
Said(o) == {k.result : k \in o.outcomes} \intersect Definitive

ResultFollowsOutcomes ==
  \A r \in Requests :
    op[r] # Absent =>
      LET o == op[r]
          refusal == IF o.reply \in RefusalCodes THEN {"failed"} ELSE {}
      IN  /\ Said(o) = Definitive => o.result = "conflict"
          /\ \A res \in Said(o) : o.result \in {res, "conflict"}
          /\ o.result = "conflict" => Said(o) \union refusal = Definitive
          /\ o.result \in Definitive => o.result \in Said(o) \union refusal

\* Two callers of one action are never told opposite things about it, and an
\* answer is about the caller's own action, not about another's of the same ID.
Told(c, a) == answer[c] \in a

AnswersAgree ==
  /\ \A c, d \in Calls :
       RequestOf[c] = RequestOf[d] /\ Told(c, {"accepted"}) => ~Told(d, {"rejected"})
  /\ \A c \in Calls :
       Told(c, {"accepted", "rejected", "uncertain"}) =>
         op[RequestOf[c]].action = ActionOf[c]

\* Once the core stays up, every pending operation ends without another caller,
\* even if its owner hangs, its reply's commit failed or its outcome is lost.
PendingEnds ==
  <>[](core = "up") =>
    \A r \in Requests :
      (op[r] # Absent /\ Pending(op[r])) ~> (op[r] # Absent /\ ~Pending(op[r]))

\* ... and every caller the core did not crash under gets an answer.
CallersAnswered ==
  <>[](core = "up") =>
    \A c \in Calls : (call[c] \in {"recorded", "sent"}) ~> (call[c] = "over")
=============================================================================
