---------------------------- MODULE TrackerProofs ----------------------------
(***************************************************************************)
(* What the tracker guarantees for every number of callers, requests and   *)
(* reports, with any number of stops, crashes and refused commits: an      *)
(* action is sent once, its result only hardens, and what it shows as      *)
(* refused had no effect.                                                  *)
(***************************************************************************)
EXTENDS Tracker, TLAPS

USE OperationsAssumption

-----------------------------------------------------------------------------
(* How one event changes one operation.                                    *)

\* What the tracker needs of an operation: it has no result while it is pending.
Sound(o) == o \in Operation /\ (Pending(o) <=> o.result = "none")

Hardens(o, p) ==
  p.result = o.result \/ Hardness(o.result) < Hardness(p.result)

\* An event that refuses nothing leaves an operation's status not refused.
StaysUnrefused(o, p) ==
  p.status \in {"rejected", "expired"} => p.status = o.status

LEMMA SentIsSound ==
  ASSUME NEW a \in Actions
  PROVE  Sound(Sent(a)) /\ Sent(a).status = "sent"
BY DEF Sound, Sent, Operation, Pending, Evidence, OutcomeResults

LEMMA HardnessValues ==
  /\ Hardness("none") = 0 /\ Hardness("uncertain") = 1 /\ Hardness("conflict") = 3
  /\ Hardness("succeeded") = 2 /\ Hardness("failed") = 2
BY DEF Hardness, Definitive

LEMMA EndsUncertainIsSound ==
  ASSUME NEW o, Sound(o)
  PROVE  LET p == EndsUncertain(o)
         IN  Sound(p) /\ p.status = "uncertain" /\ p.result = "uncertain"
<1>1. EndsUncertain(o) \in Operation
  BY DEF Sound, EndsUncertain, Operation, Evidence, OutcomeResults
<1>2. EndsUncertain(o).status = "uncertain" /\ EndsUncertain(o).result = "uncertain"
  BY DEF Sound, EndsUncertain, Operation
<1> QED BY <1>1, <1>2 DEF Sound, Pending

\* A passed deadline ends a pending operation as uncertain and no other.
LEMMA DeadlineHardens ==
  ASSUME NEW o, Sound(o)
  PROVE  LET p == AfterDeadline(o)
         IN  Sound(p) /\ Hardens(o, p) /\ StaysUnrefused(o, p)
<1>1. CASE Pending(o)
  BY <1>1, EndsUncertainIsSound, HardnessValues
  DEF AfterDeadline, Sound, Hardens, StaysUnrefused
<1>2. CASE ~Pending(o)
  BY <1>2 DEF AfterDeadline, Hardens, StaysUnrefused
<1> QED BY <1>1, <1>2

\* So does a reply nobody heard.
LEMMA UncertainReplyHardens ==
  ASSUME NEW o, Sound(o)
  PROVE  LET p == AfterUncertainReply(o)
         IN  Sound(p) /\ Hardens(o, p) /\ StaysUnrefused(o, p)
<1>1. CASE o.status = "sent"
  BY <1>1, EndsUncertainIsSound, HardnessValues
  DEF AfterUncertainReply, Sound, Pending, Hardens, StaysUnrefused
<1>2. CASE o.status # "sent"
  BY <1>2 DEF AfterUncertainReply, Hardens, StaysUnrefused
<1> QED BY <1>1, <1>2

\* A reply settles an operation that waits for it; only a refusal refuses it.
LEMMA ReplyHardens ==
  ASSUME NEW o, Sound(o), NEW code \in {"accepted"} \union RefusalCodes,
         NEW by \in Sources \union {NoOne}
  PROVE  LET p == AfterReply(o, code, by)
         IN  /\ Sound(p) /\ Hardens(o, p)
             /\ code = "accepted" => StaysUnrefused(o, p)
<1> DEFINE q == Replied(o, code, by)
<1>1. q \in Operation /\ q.status = o.status /\ q.result = o.result
  BY DEF Replied, Sound, Operation
<1>2. CASE o.status # "sent"
  BY <1>1, <1>2 DEF AfterReply, Sound, Pending, Hardens, StaysUnrefused
<1>3. CASE o.status = "sent" /\ code = "accepted"
  <2>1. AfterReply(o, code, by) = [q EXCEPT !.status = "accepted"]
    BY <1>3 DEF AfterReply
  <2> QED
    BY <1>1, <1>3, <2>1
    DEF Sound, Pending, Operation, Hardens, StaysUnrefused
<1>4. CASE o.status = "sent" /\ code # "accepted"
  <2> DEFINE st == IF code = "expired" THEN "expired" ELSE "rejected"
  <2>1. AfterReply(o, code, by) =
          [q EXCEPT !.status = st, !.result = "failed", !.evidence = "none"]
    BY <1>4 DEF AfterReply
  <2>2. st \in {"expired", "rejected"}
    OBVIOUS
  <2> HIDE DEF q, st
  <2>3. AfterReply(o, code, by) \in Operation
    BY <1>1, <2>1, <2>2 DEF Operation, OutcomeResults, Evidence
  <2>4. /\ AfterReply(o, code, by).status = st
        /\ AfterReply(o, code, by).result = "failed"
    BY <1>1, <2>1 DEF Operation
  <2>5. o.result = "none"
    BY <1>4 DEF Sound, Pending
  <2> QED
    BY <1>4, <2>2, <2>3, <2>4, <2>5, HardnessValues DEF Sound, Pending, Hardens
<1> QED
  BY <1>2, <1>3, <1>4

LEMMA StrongestIsOne ==
  ASSUME NEW a \in Evidence, NEW b \in Evidence
  PROVE  Strongest(a, b) \in Evidence
BY DEF Strongest

\* An outcome settles what is open, or shows a contradiction; it refuses nothing.
LEMMA OutcomeHardens ==
  ASSUME NEW o, Sound(o), NEW taken \in Outcomes
  PROVE  LET p == AfterOutcome(o, taken)
         IN  Sound(p) /\ Hardens(o, p) /\ StaysUnrefused(o, p)
<1> DEFINE base == [o EXCEPT !.outcomes = @ \union {taken}]
           both == Strongest(o.evidence, taken.evidence)
           done == [base EXCEPT !.status = "completed", !.result = taken.result,
                                !.evidence = taken.evidence]
           clash == [base EXCEPT !.status = "conflict", !.result = "conflict",
                                 !.evidence = both]
<1>1. taken.result \in OutcomeResults /\ taken.evidence \in Evidence
  BY DEF Outcomes
<1>2. base \in Operation /\ base.status = o.status /\ base.result = o.result
  BY DEF Sound, Operation
<1>3. both \in Evidence
  BY <1>1, StrongestIsOne DEF Sound, Operation
<1>4. \/ AfterOutcome(o, taken) = o
      \/ AfterOutcome(o, taken) = base
      \/ AfterOutcome(o, taken) = [base EXCEPT !.evidence = both]
      \/ Settles(o, taken) /\ AfterOutcome(o, taken) = done
      \/ ~Settles(o, taken) /\ Contradicts(o, taken) /\ AfterOutcome(o, taken) = clash
  BY DEF AfterOutcome
<1>5. CASE AfterOutcome(o, taken) = o
  BY <1>5 DEF Hardens, StaysUnrefused
<1>6. CASE AfterOutcome(o, taken) = base
  BY <1>2, <1>6 DEF Sound, Pending, Hardens, StaysUnrefused
<1> HIDE DEF base, both
<1>7. CASE AfterOutcome(o, taken) = [base EXCEPT !.evidence = both]
  <2>1. [base EXCEPT !.evidence = both] \in Operation
    BY <1>2, <1>3 DEF Operation
  <2>2. /\ [base EXCEPT !.evidence = both].status = o.status
        /\ [base EXCEPT !.evidence = both].result = o.result
    BY <1>2 DEF Operation
  <2> QED BY <1>7, <2>1, <2>2 DEF Sound, Pending, Hardens, StaysUnrefused
<1>8. CASE Settles(o, taken) /\ AfterOutcome(o, taken) = done
  <2>1. done \in Operation /\ done.status = "completed" /\ done.result = taken.result
    BY <1>1, <1>2 DEF Operation
  <2>2. Hardness(o.result) < Hardness(taken.result)
    BY <1>1, <1>8 DEF Settles, Hardness, Definitive, OutcomeResults
  <2>3. taken.result # "none"
    BY <1>1 DEF OutcomeResults
  <2> QED BY <1>8, <2>1, <2>2, <2>3 DEF Sound, Pending, Hardens, StaysUnrefused
<1>9. CASE ~Settles(o, taken) /\ Contradicts(o, taken) /\ AfterOutcome(o, taken) = clash
  <2>1. clash \in Operation /\ clash.status = "conflict" /\ clash.result = "conflict"
    BY <1>2, <1>3 DEF Operation
  <2>2. o.result = "conflict" \/ Hardness(o.result) < Hardness("conflict")
    BY <1>9 DEF Settles, Contradicts, Hardness, Definitive, Sound, Operation, OutcomeResults
  <2> QED BY <1>9, <2>1, <2>2 DEF Sound, Pending, Hardens, StaysUnrefused
<1> QED
  BY <1>4, <1>5, <1>6, <1>7, <1>8, <1>9

-----------------------------------------------------------------------------
(* The inductive invariant.                                                *)

USE TrackerAssumption

LEMMA RequestOfCall == \A c \in Calls : RequestOf[c] \in Requests /\ ActionOf[c] \in Actions
BY DEF TrackerAssumption

\* An operation that is stored is sound: the types and the invariant say so.
LEMMA StoredIsSound ==
  ASSUME TypeOK, PendingHasNoResult, NEW r \in Requests, op[r] # Absent
  PROVE  Sound(op[r])
BY DEF TypeOK, PendingHasNoResult, Sound

\* The stages of a life the tracker's requests go through.
LEMMA LifeStages ==
  /\ Promise!Unsent \in Promise!Life /\ Promise!Waits \in Promise!Life
  /\ Promise!Withdrawn \in Promise!Life
  /\ Promise!Unsent.verdict = "none" /\ Promise!Waits.verdict = "none"
  /\ Promise!Waits # Promise!Unsent /\ Promise!Withdrawn # Promise!Unsent
  /\ Promise!Waits.stage = "waiting" /\ Promise!Unsent.stage = "unsent"
  /\ Promise!Waits.effect = "none"
  /\ Promise!Withdrawn.effect = "none"
  /\ Promise!Withdrawn.verdict = "rejected"
BY DEF Promise!Unsent, Promise!Waits, Promise!Withdrawn, Promise!Life,
       Promise!Stages, Promise!Verdicts

LEMMA InitEstablishes == Init => TrackerInv
<1> SUFFICES ASSUME Init PROVE TrackerInv
  OBVIOUS
<1>1. life = [r \in Requests |-> Promise!Unsent]
  BY DEF Init, Promise!Init
<1>2. TypeOK
  BY <1>1, LifeStages DEF Init, TypeOK, Answers
<1> QED
  BY <1>1, <1>2, LifeStages
  DEF Init, TrackerInv, PendingHasNoResult, UnsentIsUntouched, OneCallWorks,
      HandledIsUndecided, RefusalIsTrue, Busy

\* A step that leaves sends and lives alone, ends calls and advances operations,
\* refusing only what the bus refused, keeps the invariant.
LEMMA OperationsAdvance ==
  ASSUME TrackerInv, TypeOK',
         \A r \in Requests :
           \/ op'[r] = op[r]
           \/ /\ op[r] # Absent /\ op'[r] # Absent
              /\ Sound(op'[r])
              /\ StaysUnrefused(op[r], op'[r]) \/ life[r].verdict = "rejected",
         \A c \in Calls : call'[c] = call[c] \/ call'[c] = "over",
         UNCHANGED <<sends, life, handling>>
  PROVE  TrackerInv'
<1>1. PendingHasNoResult'
  BY DEF TrackerInv, PendingHasNoResult, Sound
<1>2. UnsentIsUntouched'
  BY DEF TrackerInv, UnsentIsUntouched
<1>3. OneCallWorks'
  BY RequestOfCall DEF TrackerInv, OneCallWorks, Busy
<1>4. HandledIsUndecided'
  BY DEF TrackerInv, HandledIsUndecided
<1>5. RefusalIsTrue'
  BY DEF TrackerInv, RefusalIsTrue, StaysUnrefused
<1> QED BY <1>1, <1>2, <1>3, <1>4, <1>5 DEF TrackerInv

\* A step of one request's life, from a command that was sent, that never makes
\* an effect after a rejection or a rejection after an effect.
LEMMA LifeAdvances ==
  ASSUME TrackerInv, TypeOK', NEW r \in Requests, NEW m \in Promise!Life,
         sends[r] = 1, life[r] # Promise!Unsent,
         life' = [life EXCEPT ![r] = m],
         life[r].verdict = "rejected" => m.verdict = "rejected",
         m.verdict = "rejected" => m.effect = "none",
         handling' \subseteq handling \union {r},
         r \in handling' => m.stage = "started" /\ m.verdict \in {"none", "uncertain"},
         UNCHANGED <<op, call, sends>>
  PROVE  TrackerInv'
<1>1. life'[r] = m /\ \A s \in Requests \ {r} : life'[s] = life[s]
  BY DEF TrackerInv, TypeOK
<1>2. PendingHasNoResult'
  BY DEF TrackerInv, PendingHasNoResult
<1>3. UnsentIsUntouched'
  BY <1>1 DEF TrackerInv, UnsentIsUntouched
<1>4. OneCallWorks'
  BY DEF TrackerInv, OneCallWorks, Busy
<1>5. HandledIsUndecided'
  <2> SUFFICES ASSUME NEW s \in handling'
               PROVE  /\ sends'[s] = 1 /\ life'[s].stage = "started"
                      /\ life'[s].verdict \in {"none", "uncertain"}
    BY DEF HandledIsUndecided
  <2> s \in Requests
    BY DEF TypeOK
  <2> QED BY <1>1 DEF TrackerInv, HandledIsUndecided
<1>6. RefusalIsTrue'
  BY <1>1 DEF TrackerInv, RefusalIsTrue
<1> QED BY <1>2, <1>3, <1>4, <1>5, <1>6 DEF TrackerInv

\* An operation is never the absent one, so it is stored also in the next state.
LEMMA SoundIsStored == ASSUME NEW o, Sound(o) PROVE o # Absent
BY DEF TrackerAssumption, Sound

\* Every step keeps the invariant: one case per action.
LEMMA StepKeeps == TrackerInv /\ [Next]_vars => TrackerInv'
<1> SUFFICES ASSUME TrackerInv, [Next]_vars PROVE TrackerInv'
  OBVIOUS
<1> USE RequestOfCall
<1>t. TypeOK
  BY DEF TrackerInv
<1>1. ASSUME NEW c \in Calls, Record(c) PROVE TrackerInv'
  <2> DEFINE r == RequestOf[c]
  <2>1. /\ op[r] = Absent /\ sends[r] = 0 /\ call[c] = "idle"
        /\ op' = [op EXCEPT ![r] = Sent(ActionOf[c])]
        /\ call' = [call EXCEPT ![c] = "recorded"]
        /\ UNCHANGED <<life, handling, sends>>
    BY <1>1 DEF Record, TrackerInv, UnsentIsUntouched
  <2>2. Sound(Sent(ActionOf[c])) /\ Sent(ActionOf[c]) # Absent
        /\ Sent(ActionOf[c]).status = "sent"
    BY SentIsSound, SoundIsStored
  <2>3. /\ op'[r] = Sent(ActionOf[c])
        /\ \A s \in Requests \ {r} : op'[s] = op[s]
        /\ call'[c] = "recorded" /\ \A d \in Calls \ {c} : call'[d] = call[d]
    BY <1>t, <2>1 DEF TypeOK
  <2>4. TypeOK'
    <3>1. admission' \in [Requests -> {"none", "given", "bound"}]
      BY <1>1, <1>t DEF Record, TypeOK
    <3> QED
      BY <1>1, <1>t, <2>1, <2>2, <3>1 DEF Record, TypeOK, Sound
  <2>5. PendingHasNoResult'
    BY <2>2, <2>3 DEF TrackerInv, PendingHasNoResult, Sound
  <2>6. UnsentIsUntouched'
    BY <2>1, <2>2, <2>3 DEF TrackerInv, UnsentIsUntouched
  <2>7. OneCallWorks'
    <3>1. \A d \in Calls : RequestOf[d] = r => ~Busy(d)
      BY <2>1 DEF TrackerInv, OneCallWorks, Busy
    <3> QED
      BY <2>1, <2>2, <2>3, <3>1 DEF TrackerInv, OneCallWorks, Busy
  <2>8. HandledIsUndecided'
    BY <2>1 DEF TrackerInv, HandledIsUndecided
  <2>9. RefusalIsTrue'
    BY <2>1, <2>2, <2>3 DEF TrackerInv, RefusalIsTrue
  <2> QED BY <2>4, <2>5, <2>6, <2>7, <2>8, <2>9 DEF TrackerInv
<1>2. ASSUME NEW c \in Calls, Decline(c) PROVE TrackerInv'
  <2>1. TypeOK'
    BY <1>2, <1>t DEF Decline, Tell, Trouble, Fine, TypeOK, Answers
  <2>2. \A d \in Calls : call'[d] = call[d] \/ call'[d] = "over"
    BY <1>2, <1>t DEF Decline, Tell, TypeOK
  <2> QED BY <1>2, <2>1, <2>2, OperationsAdvance DEF Decline
<1>3. ASSUME NEW c \in Calls, Again(c) PROVE TrackerInv'
  <2>1. EarlierAnswer(op[RequestOf[c]], ActionOf[c]) \in Answers
    BY DEF EarlierAnswer, Answers
  <2>2. TypeOK'
    BY <1>3, <1>t, <2>1 DEF Again, Tell, TypeOK
  <2>3. \A d \in Calls : call'[d] = call[d] \/ call'[d] = "over"
    BY <1>3, <1>t DEF Again, Tell, TypeOK
  <2> QED BY <1>3, <2>2, <2>3, OperationsAdvance DEF Again
<1>4. ASSUME NEW c \in Calls, Send(c) PROVE TrackerInv'
  <2> DEFINE r == RequestOf[c]
  <2>0. life[r] = Promise!Unsent
    BY <1>4, <1>t DEF Send, TrackerInv, OneCallWorks, UnsentIsUntouched, TrackerAssumption
  <2>1. PICK m \in Promise!Life :
          Promise!Issue(life[r], m) /\ life' = [life EXCEPT ![r] = m]
    BY <1>4, <2>0 DEF Send
  <2>2. /\ call[c] = "recorded" /\ op[r] # Absent /\ sends[r] = 0
        /\ call' = [call EXCEPT ![c] = "sent"]
        /\ sends' = [sends EXCEPT ![r] = @ + 1]
        /\ UNCHANGED <<op, handling>>
    BY <1>4 DEF Send, TrackerInv, OneCallWorks
  <2>3. /\ call'[c] = "sent" /\ \A d \in Calls \ {c} : call'[d] = call[d]
        /\ sends'[r] = 1 /\ \A s \in Requests \ {r} : sends'[s] = sends[s]
        /\ life'[r] = m /\ \A s \in Requests \ {r} : life'[s] = life[s]
    BY <1>t, <2>1, <2>2 DEF TypeOK
  <2>4. TypeOK'
    BY <1>4, <1>t, <2>1 DEF Send, TypeOK
  <2>5. PendingHasNoResult'
    BY <2>2 DEF TrackerInv, PendingHasNoResult
  <2>6. UnsentIsUntouched'
    BY <2>2, <2>3 DEF TrackerInv, UnsentIsUntouched
  <2>7. OneCallWorks'
    <3>1. \A d \in Calls \ {c} : RequestOf[d] = r => ~Busy(d)
      BY <2>2 DEF TrackerInv, OneCallWorks, Busy
    <3> QED
      BY <2>2, <2>3, <3>1 DEF TrackerInv, OneCallWorks, Busy
  <2>8. r \notin handling
    BY <2>2 DEF TrackerInv, HandledIsUndecided
  <2>9. HandledIsUndecided'
    BY <1>t, <2>2, <2>3, <2>8 DEF TrackerInv, TypeOK, HandledIsUndecided
  <2>10. m.effect = "none" /\ life[r].verdict # "rejected"
    BY <2>1, LifeStages DEF Promise!Issue
  <2>11. RefusalIsTrue'
    BY <2>2, <2>3, <2>10 DEF TrackerInv, RefusalIsTrue
  <2> QED BY <2>4, <2>5, <2>6, <2>7, <2>9, <2>11 DEF TrackerInv
<1>5. ASSUME NEW c \in Calls, Reply(c) PROVE TrackerInv'
  <2> DEFINE r == RequestOf[c]
  <2>1. /\ call[c] = "sent" /\ sends[r] = 1 /\ op[r] # Absent
        /\ call' = [call EXCEPT ![c] = "over"]
        /\ UNCHANGED <<sends, life, handling>>
    BY <1>5 DEF Reply, Tell, TrackerInv, OneCallWorks, UnsentIsUntouched
  <2>2. Sound(op[r])
    BY <2>1, StoredIsSound DEF TrackerInv
  <2>3. \A o \in AfterResult(r, op[r]) :
          /\ Sound(o)
          /\ StaysUnrefused(op[r], o) \/ life[r].verdict = "rejected"
    <3>1. life[r].verdict \in {"accepted", "rejected", "uncertain"}
      <4>1. life[r] \in Promise!Life /\ life[r].verdict # "none"
        BY <1>5, <1>t DEF Reply, TypeOK
      <4> QED BY <4>1 DEF Promise!Life, Promise!Verdicts
    <3>2. (IF r \in CoreOwned THEN Core ELSE Owner) \in Sources
      BY DEF TrackerAssumption
    <3>3. \A by \in RefusedBy(r) : by \in Sources \union {NoOne}
      BY <3>2 DEF RefusedBy
    <3>4. CASE life[r].verdict = "uncertain"
      BY <2>2, <3>4, UncertainReplyHardens DEF AfterResult
    <3>5. CASE life[r].verdict = "accepted"
      BY <2>2, <3>2, <3>5, ReplyHardens DEF AfterResult
    <3>6. CASE life[r].verdict = "rejected"
      BY <2>2, <3>3, <3>6, ReplyHardens DEF AfterResult
    <3> QED BY <3>1, <3>4, <3>5, <3>6
  <2>4. \/ op' = op
        \/ \E o \in AfterResult(r, op[r]) : op' = [op EXCEPT ![r] = o]
    BY <1>5 DEF Reply
  <2>5. \A s \in Requests :
          \/ op'[s] = op[s]
          \/ /\ op[s] # Absent /\ op'[s] # Absent
             /\ Sound(op'[s])
             /\ StaysUnrefused(op[s], op'[s]) \/ life[s].verdict = "rejected"
    BY <1>t, <2>1, <2>3, <2>4, SoundIsStored DEF TypeOK
  <2>6. op' \in [Requests -> Operation \union {Absent}]
    BY <1>t, <2>3, <2>4 DEF TypeOK, Sound
  <2>7. admission' \in [Requests -> {"none", "given", "bound"}]
    BY <1>5, <1>t DEF Reply, TypeOK
  <2>8. answer' \in [Calls -> Answers]
    <3>1. life[r].verdict \in Answers
      BY <1>t DEF TypeOK, Promise!Life, Promise!Verdicts, Answers
    <3> QED BY <1>5, <1>t, <3>1 DEF Reply, Tell, TypeOK
  <2>9. TypeOK'
    <3>1. trouble' \in Nat /\ UNCHANGED <<history, core, late>>
      BY <1>5, <1>t DEF Reply, Trouble, Fine, TypeOK
    <3>2. call' \in [Calls -> {"idle", "recorded", "sent", "over"}]
      BY <1>t, <2>1 DEF TypeOK
    <3> QED BY <1>t, <2>1, <2>6, <2>7, <2>8, <3>1, <3>2 DEF TypeOK
  <2>10. \A d \in Calls : call'[d] = call[d] \/ call'[d] = "over"
    BY <1>t, <2>1 DEF TypeOK
  <2> QED BY <2>1, <2>5, <2>9, <2>10, OperationsAdvance
<1>6. ASSUME NEW r \in Requests, Withdraw(r) PROVE TrackerInv'
  <2>1. /\ life[r] = Promise!Waits /\ life' = [life EXCEPT ![r] = Promise!Withdrawn]
        /\ UNCHANGED <<op, history, core, call, answer, handling, admission, late,
                       sends, trouble>>
    BY <1>6 DEF Withdraw, Promise!Withdraw
  <2>2. TypeOK'
    BY <1>t, <2>1, LifeStages DEF TypeOK
  <2>3. r \notin handling
    BY <2>1, LifeStages DEF TrackerInv, HandledIsUndecided
  <2>4. sends[r] = 1
    BY <2>1, LifeStages DEF TrackerInv, UnsentIsUntouched
  <2> QED BY <2>1, <2>2, <2>3, <2>4, LifeStages, LifeAdvances
<1>7. ASSUME NEW r \in Requests, Begin(r) PROVE TrackerInv'
  <2>1. PICK m \in Promise!Life :
          Promise!Begin(life[r], m) /\ life' = [life EXCEPT ![r] = m]
    BY <1>7 DEF Begin
  <2>2. /\ life[r] = Promise!Waits
        /\ m.stage = "started" /\ m.verdict = "none" /\ m.effect = "none"
    BY <2>1 DEF Promise!Begin, Promise!Waits
  <2>3. /\ handling' = handling \union {r}
        /\ UNCHANGED <<op, history, core, call, answer, late, sends, trouble>>
        /\ admission' \in [Requests -> {"none", "given", "bound"}]
    BY <1>7, <1>t DEF Begin, TypeOK
  <2>4. TypeOK'
    BY <1>t, <2>1, <2>3 DEF TypeOK
  <2>5. sends[r] = 1
    BY <2>2, LifeStages DEF TrackerInv, UnsentIsUntouched
  <2> QED BY <2>1, <2>2, <2>3, <2>4, <2>5, LifeStages, LifeAdvances
<1>8. ASSUME NEW r \in handling \ CoreOwned, TakeEffect(r) PROVE TrackerInv'
  <2> DEFINE m == [life[r] EXCEPT !.effect = "made"]
  <2>0. r \in Requests
    BY <1>t DEF TypeOK
  <2>1. /\ sends[r] = 1 /\ life[r].stage = "started"
        /\ life[r].verdict \in {"none", "uncertain"} /\ life[r] \in Promise!Life
    BY <1>t, <2>0 DEF TypeOK, TrackerInv, HandledIsUndecided
  <2>2. life' = [life EXCEPT ![r] = m]
    BY <1>8 DEF TakeEffect
  <2>3. /\ m \in Promise!Life /\ m.stage = "started" /\ m.verdict = life[r].verdict
    BY <2>1 DEF Promise!Life
  <2>4. /\ UNCHANGED <<op, history, core, call, answer, handling, admission, late,
                       sends, trouble>>
    BY <1>8 DEF TakeEffect
  <2> HIDE DEF m
  <2>5. TypeOK'
    BY <1>t, <2>0, <2>2, <2>3, <2>4 DEF TypeOK
  <2> QED BY <2>0, <2>1, <2>2, <2>3, <2>4, <2>5, LifeStages, LifeAdvances
<1>9. ASSUME NEW r \in Requests, ReplyDeadline(r) PROVE TrackerInv'
  <2> DEFINE m == [life[r] EXCEPT !.verdict = "uncertain"]
  <2>1. /\ life[r].stage = "started" /\ life[r].verdict = "none"
        /\ life[r] \in Promise!Life
    BY <1>9, <1>t DEF ReplyDeadline, TypeOK
  <2>2. /\ life' = [life EXCEPT ![r] = m]
        /\ UNCHANGED <<op, history, core, call, answer, handling, admission, late,
                       sends, trouble>>
    BY <1>9 DEF ReplyDeadline
  <2>3. /\ m \in Promise!Life /\ m.stage = "started" /\ m.verdict = "uncertain"
    BY <2>1 DEF Promise!Life, Promise!Verdicts
  <2>4. sends[r] = 1
    BY <2>1, LifeStages DEF TrackerInv, UnsentIsUntouched
  <2> HIDE DEF m
  <2>5. TypeOK'
    BY <1>t, <2>2, <2>3 DEF TypeOK
  <2> QED BY <2>1, <2>2, <2>3, <2>4, <2>5, LifeStages, LifeAdvances
<1>10. ASSUME NEW r \in Requests, Due(r) PROVE TrackerInv'
  <2>1. TypeOK'
    BY <1>10, <1>t DEF Due, TypeOK
  <2> QED BY <1>10, <2>1, OperationsAdvance DEF Due
<1>11. ASSUME NEW r \in Requests, NEW v \in Promise!Verdicts, End(r, v) PROVE TrackerInv'
  <2> DEFINE m == [life[r] EXCEPT !.verdict = IF @ = "none" THEN v ELSE @]
  <2>1. /\ sends[r] = 1 /\ life[r].stage = "started"
        /\ life[r].verdict \in {"none", "uncertain"} /\ life[r] \in Promise!Life
    BY <1>11, <1>t DEF End, TypeOK, TrackerInv, HandledIsUndecided
  <2>2. /\ life' = [life EXCEPT ![r] = m]
        /\ handling' = handling \ {r}
        /\ UNCHANGED <<op, history, core, call, answer, late, sends, trouble>>
        /\ admission' \in [Requests -> {"none", "given", "bound"}]
    BY <1>11, <1>t DEF End, TypeOK
  <2>3. /\ m \in Promise!Life /\ m.effect = life[r].effect
        /\ m.verdict = IF life[r].verdict = "none" THEN v ELSE life[r].verdict
    BY <2>1 DEF Promise!Life
  <2>4. v = "rejected" => life[r].effect = "none"
    <3>1. v \in Verdicts(r) /\ life[r].effect \in {"none", "made"}
      BY <1>11, <2>1 DEF End, Promise!Life
    <3> QED BY <3>1 DEF Verdicts
  <2> HIDE DEF m
  <2>5. TypeOK'
    BY <1>t, <2>2, <2>3 DEF TypeOK
  <2> QED BY <2>1, <2>2, <2>3, <2>4, <2>5, LifeStages, LifeAdvances
<1>12. ASSUME NEW r \in Requests, NEW taken \in Reports, TakeOutcome(r, taken)
       PROVE  TrackerInv'
  <2>1. taken \in Outcomes
    BY DEF TrackerAssumption
  <2>2. \/ op' = op
        \/ op[r] # Absent /\ op' = [op EXCEPT ![r] = AfterOutcome(op[r], taken)]
    BY <1>12 DEF TakeOutcome
  <2>3. op[r] # Absent =>
          /\ Sound(AfterOutcome(op[r], taken))
          /\ StaysUnrefused(op[r], AfterOutcome(op[r], taken))
    BY <2>1, StoredIsSound, OutcomeHardens DEF TrackerInv
  <2>4. TypeOK'
    <3>1. history' \in [Requests -> SUBSET Outcomes]
      BY <1>12, <1>t, <2>1 DEF TakeOutcome, TypeOK
    <3>2. op' \in [Requests -> Operation \union {Absent}]
      BY <1>t, <2>2, <2>3 DEF TypeOK, Sound
    <3> QED BY <1>12, <1>t, <3>1, <3>2 DEF TakeOutcome, TypeOK
  <2>5. \A s \in Requests :
          \/ op'[s] = op[s]
          \/ /\ op[s] # Absent /\ op'[s] # Absent
             /\ Sound(op'[s]) /\ StaysUnrefused(op[s], op'[s])
    BY <1>t, <2>2, <2>3, SoundIsStored DEF TypeOK
  <2> QED BY <1>12, <2>4, <2>5, OperationsAdvance DEF TakeOutcome
<1>13. ASSUME NEW r \in Requests, NEW id \in OutcomeIds, CoreComplete(r, id)
       PROVE  TrackerInv'
  <2> DEFINE o == [op[r] EXCEPT !.responder = Core]
             p == AfterOutcome(o, CoreOutcome(id))
             m == [life[r] EXCEPT !.effect = "made"]
  <2>1. /\ r \in handling /\ op' = [op EXCEPT ![r] = p]
        /\ life' = [life EXCEPT ![r] = m]
        /\ UNCHANGED <<core, call, answer, handling, admission, late, sends, trouble>>
    BY <1>13 DEF CoreComplete
  <2>2. /\ sends[r] = 1 /\ op[r] # Absent /\ life[r].stage = "started"
        /\ life[r].verdict \in {"none", "uncertain"} /\ life[r] \in Promise!Life
    BY <1>t, <2>1 DEF TypeOK, TrackerInv, HandledIsUndecided, UnsentIsUntouched
  <2>3. Sound(o) /\ o.status = op[r].status
    <3>1. Sound(op[r])
      BY <2>2, StoredIsSound DEF TrackerInv
    <3>2. Core \in Sources
      BY DEF TrackerAssumption
    <3>3. o \in Operation /\ o.status = op[r].status /\ o.result = op[r].result
      BY <3>1, <3>2 DEF Sound, Operation
    <3> QED BY <3>1, <3>3 DEF Sound, Pending
  <2>4. CoreOutcome(id) \in Outcomes
    BY DEF TrackerAssumption, CoreOutcome, Outcomes, OutcomeResults, Evidence
  <2> HIDE DEF o
  <2>5. Sound(p) /\ StaysUnrefused(o, p) /\ p # Absent
    BY <2>3, <2>4, OutcomeHardens, SoundIsStored
  <2>6. m \in Promise!Life /\ m.stage = "started" /\ m.verdict = life[r].verdict
    BY <2>2 DEF Promise!Life
  <2> HIDE DEF p, m
  <2>7. /\ op'[r] = p /\ \A s \in Requests \ {r} : op'[s] = op[s]
        /\ life'[r] = m /\ \A s \in Requests \ {r} : life'[s] = life[s]
    BY <1>t, <2>1 DEF TypeOK
  <2>8. TypeOK'
    <3>1. history' \in [Requests -> SUBSET Outcomes]
      BY <1>13, <1>t, <2>4 DEF CoreComplete, TypeOK
    <3>2. op' \in [Requests -> Operation \union {Absent}]
      BY <1>t, <2>1, <2>5 DEF TypeOK, Sound
    <3> QED BY <1>t, <2>1, <2>6, <3>1, <3>2 DEF TypeOK
  <2>9. PendingHasNoResult'
    BY <2>5, <2>7 DEF TrackerInv, PendingHasNoResult, Sound
  <2>10. UnsentIsUntouched'
    BY <2>1, <2>2, <2>5, <2>7 DEF TrackerInv, UnsentIsUntouched
  <2>11. OneCallWorks'
    BY <2>1, <2>5, <2>7 DEF TrackerInv, OneCallWorks, Busy
  <2>12. HandledIsUndecided'
    BY <1>t, <2>1, <2>2, <2>6, <2>7 DEF TrackerInv, TypeOK, HandledIsUndecided
  <2>13. RefusalIsTrue'
    BY <2>2, <2>3, <2>5, <2>6, <2>7 DEF TrackerInv, RefusalIsTrue, StaysUnrefused
  <2> QED BY <2>8, <2>9, <2>10, <2>11, <2>12, <2>13 DEF TrackerInv
<1>14. ASSUME Sweep PROVE TrackerInv'
  <2>1. \A s \in Requests : Overdue(s) =>
          /\ op[s] # Absent /\ Sound(AfterDeadline(op[s]))
          /\ StaysUnrefused(op[s], AfterDeadline(op[s]))
    BY StoredIsSound, DeadlineHardens DEF TrackerInv, Overdue
  <2>2. \A s \in Requests :
          op'[s] = IF Overdue(s) THEN AfterDeadline(op[s]) ELSE op[s]
    BY <1>14 DEF Sweep
  <2>3. TypeOK'
    BY <1>14, <1>t, <2>1 DEF Sweep, TypeOK, Sound
  <2> QED BY <1>14, <2>1, <2>2, <2>3, OperationsAdvance, SoundIsStored DEF Sweep
<1>15. ASSUME Stop \/ Start PROVE TrackerInv'
  <2>1. TypeOK'
    BY <1>15, <1>t DEF Stop, Start, Trouble, TypeOK
  <2> QED BY <1>15, <2>1, OperationsAdvance DEF Stop, Start
<1>16. ASSUME Halt \/ Crash PROVE TrackerInv'
  <2>1. Die /\ trouble' \in Nat
    BY <1>16, <1>t DEF Halt, Crash, Trouble, Fine, TypeOK
  <2>2. /\ handling' \subseteq handling
        /\ UNCHANGED <<op, sends>>
        /\ \A c \in Calls : call'[c] = call[c] \/ call'[c] = "over"
        /\ \A r \in Requests :
             \/ life'[r] = life[r]
             \/ life[r] = Promise!Waits /\ life'[r] = Promise!Withdrawn
    BY <2>1, <1>t DEF Die, TypeOK
  <2>3. TypeOK'
    BY <2>1, <1>t, LifeStages DEF Die, TypeOK
  <2>4. PendingHasNoResult'
    BY <2>2 DEF TrackerInv, PendingHasNoResult
  <2>5. UnsentIsUntouched'
    BY <2>2, LifeStages DEF TrackerInv, UnsentIsUntouched
  <2>6. OneCallWorks'
    BY <2>2 DEF TrackerInv, OneCallWorks, Busy
  <2>7. HandledIsUndecided'
    BY <1>t, <2>2, LifeStages DEF TrackerInv, TypeOK, HandledIsUndecided
  <2>8. RefusalIsTrue'
    BY <2>2, LifeStages DEF TrackerInv, RefusalIsTrue
  <2> QED BY <2>3, <2>4, <2>5, <2>6, <2>7, <2>8 DEF TrackerInv
<1>17. CASE UNCHANGED vars
  <2>1. TypeOK'
    BY <1>17, <1>t DEF vars, TypeOK
  <2> QED BY <1>17, <2>1, OperationsAdvance DEF vars
<1>18. CASE Next
  <2>1. \A r : TakeEffect(r) => r \in handling \ CoreOwned
    BY DEF TakeEffect
  <2> QED
    BY <1>18, <2>1, <1>1, <1>2, <1>3, <1>4, <1>5, <1>6, <1>7, <1>8, <1>9, <1>10,
       <1>11, <1>12, <1>13, <1>14, <1>15, <1>16 DEF Next
<1> QED BY <1>17, <1>18

-----------------------------------------------------------------------------
(* The theorems.                                                           *)

\* The invariant that explains the tracker holds of every reachable state.
THEOREM TrackerInvariant == Spec => []TrackerInv
BY InitEstablishes, StepKeeps, PTL DEF Spec

\* Every variable keeps its type.
THEOREM TrackerType == Spec => []TypeOK
<1>1. TrackerInv => TypeOK
  BY DEF TrackerInv
<1> QED BY <1>1, TrackerInvariant, PTL

\* #dispatch: no request ID is ever sent twice, nor before its operation is
\* stored, whoever asks again and whatever crashes.
THEOREM TrackerSentOnce == Spec => []SentOnce
<1>1. TrackerInv => SentOnce
  BY DEF TrackerInv, UnsentIsUntouched, SentOnce
<1> QED BY <1>1, TrackerInvariant, PTL

\* advance: what the tracker shows as rejected or expired had no effect, as long
\* as the bus keeps its promise.
THEOREM TrackerRefusedHadNoEffect == Spec => []RefusedHadNoEffect
<1>1. TrackerInv => RefusedHadNoEffect
  BY DEF TrackerInv, RefusalIsTrue, RefusedHadNoEffect
<1> QED BY <1>1, TrackerInvariant, PTL

\* advance: a result only hardens.  Late replies, outcomes in any order and
\* deadlines never weaken it or replace a definitive one by its opposite.
THEOREM TrackerResultHardens == Spec => ResultHardens
<1>1. TrackerInv /\ [Next]_vars =>
        [\A r \in Requests :
           op[r] # Absent =>
             \/ op'[r].result = op[r].result
             \/ Hardness(op[r].result) < Hardness(op'[r].result)]_vars
  <2> SUFFICES ASSUME TrackerInv, [Next]_vars, NEW r \in Requests, op[r] # Absent
               PROVE  Hardens(op[r], op'[r])
    BY DEF Hardens
  <2> USE RequestOfCall
  <2>t. TypeOK /\ Sound(op[r])
    BY StoredIsSound DEF TrackerInv
  <2>0. Hardens(op[r], op[r])
    BY DEF Hardens
  <2>1. ASSUME NEW c \in Calls, Record(c) PROVE Hardens(op[r], op'[r])
    <3>1. op[RequestOf[c]] = Absent /\ op'[r] = op[r]
      BY <2>1, <2>t DEF Record, TypeOK
    <3> QED BY <2>0, <3>1
  <2>2. ASSUME NEW c \in Calls, Reply(c) PROVE Hardens(op[r], op'[r])
    <3>1. \/ op'[r] = op[r]
          \/ r = RequestOf[c] /\ op'[r] \in AfterResult(r, op[r])
      BY <2>2, <2>t DEF Reply, TypeOK
    <3>2. ASSUME NEW o \in AfterResult(RequestOf[c], op[r]), r = RequestOf[c]
          PROVE  Hardens(op[r], o)
      <4>1. (IF r \in CoreOwned THEN Core ELSE Owner) \in Sources
        BY DEF TrackerAssumption
      <4>2. \A by \in RefusedBy(r) : by \in Sources \union {NoOne}
        BY <4>1 DEF RefusedBy
      <4>3. life[r].verdict \in {"accepted", "rejected", "uncertain"}
        <5>1. life[r] \in Promise!Life /\ life[r].verdict # "none"
          BY <2>2, <2>t, <3>2 DEF Reply, TypeOK
        <5> QED BY <5>1 DEF Promise!Life, Promise!Verdicts
      <4>4. CASE life[r].verdict = "uncertain"
        BY <2>t, <3>2, <4>4, UncertainReplyHardens DEF AfterResult
      <4>5. CASE life[r].verdict = "accepted"
        <5> DEFINE by == IF r \in CoreOwned THEN Core ELSE Owner
        <5>1. o = AfterReply(op[r], "accepted", by)
          BY <3>2, <4>5 DEF AfterResult
        <5>2. by \in Sources
          BY <4>1
        <5> HIDE DEF by
        <5> QED BY <2>t, <5>1, <5>2, ReplyHardens
      <4>6. CASE life[r].verdict = "rejected"
        BY <2>t, <3>2, <4>2, <4>6, ReplyHardens DEF AfterResult
      <4> QED BY <4>3, <4>4, <4>5, <4>6
    <3> QED BY <2>0, <3>1, <3>2
  <2>3. ASSUME NEW s \in Requests, NEW taken \in Reports, TakeOutcome(s, taken)
        PROVE  Hardens(op[r], op'[r])
    <3>1. op'[r] = op[r] \/ op'[r] = AfterOutcome(op[r], taken)
      BY <2>3, <2>t DEF TakeOutcome, TypeOK
    <3>2. taken \in Outcomes
      BY DEF TrackerAssumption
    <3> QED BY <2>0, <2>t, <3>1, <3>2, OutcomeHardens
  <2>4. ASSUME NEW s \in Requests, NEW id \in OutcomeIds, CoreComplete(s, id)
        PROVE  Hardens(op[r], op'[r])
    <3> DEFINE o == [op[r] EXCEPT !.responder = Core]
    <3>1. op'[r] = op[r] \/ op'[r] = AfterOutcome(o, CoreOutcome(id))
      BY <2>4, <2>t DEF CoreComplete, TypeOK
    <3>2. CoreOutcome(id) \in Outcomes
      BY DEF TrackerAssumption, CoreOutcome, Outcomes, OutcomeResults, Evidence
    <3>3. o \in Operation /\ o.status = op[r].status /\ o.result = op[r].result
      BY <2>t DEF TrackerAssumption, Sound, Operation
    <3>4. Sound(o)
      BY <2>t, <3>3 DEF Sound, Pending
    <3> HIDE DEF o
    <3>5. Hardens(o, AfterOutcome(o, CoreOutcome(id)))
      BY <3>2, <3>4, OutcomeHardens
    <3> QED BY <2>0, <3>1, <3>3, <3>5 DEF Hardens
  <2>5. ASSUME Sweep PROVE Hardens(op[r], op'[r])
    BY <2>0, <2>5, <2>t, DeadlineHardens DEF Sweep
  <2>6. ASSUME op' = op PROVE Hardens(op[r], op'[r])
    BY <2>0, <2>6
  <2>7. CASE UNCHANGED vars
    BY <2>6, <2>7 DEF vars
  <2>8. CASE Next
    BY <2>1, <2>2, <2>3, <2>4, <2>5, <2>6, <2>8
    DEF Next, Decline, Again, Send, Withdraw, Begin, TakeEffect, ReplyDeadline,
        Due, End, Stop, Halt, Crash, Die, Start
  <2> QED BY <2>7, <2>8
<1> QED
  BY <1>1, TrackerInvariant, PTL DEF Spec, ResultHardens

-----------------------------------------------------------------------------
(* What the tracker tells: a result is what the outcomes taken say, and the *)
(* answers given to the callers of one request agree, because each was true *)
(* of the bus when it was given (AnswersAreTrue) and the bus's verdicts are *)
(* final (VerdictsStay).                                                    *)

USE TrackerAssumption

\* A refusal counts as a failure, whether or not it decided the operation.
Refusal(o) == IF o.reply \in RefusalCodes THEN {"failed"} ELSE {}

Follows(o) ==
  /\ Said(o) = Definitive => o.result = "conflict"
  /\ \A res \in Said(o) : o.result \in {res, "conflict"}
  /\ o.result = "conflict" => Said(o) \union Refusal(o) = Definitive
  /\ o.result \in Definitive => o.result \in Said(o) \union Refusal(o)

\* What one event may do to a stored operation of a request with this verdict.
Advances(o, p, verdict) ==
  /\ Sound(p) /\ p.action = o.action
  /\ p.reply = "accepted" => o.reply = "accepted" \/ verdict = "accepted"
  /\ Follows(o) => Follows(p)

\* Whoever works on a request or was answered about it asked for its action.
ActionsAreOwn ==
  \A c \in Calls :
    Busy(c) \/ answer[c] \in {"accepted", "rejected", "uncertain"} =>
      op[RequestOf[c]] # Absent /\ op[RequestOf[c]].action = ActionOf[c]

\* A definite answer, or a stored acceptance, is what the bus decided.
AnswersAreTrue ==
  /\ \A c \in Calls :
       answer[c] \in {"accepted", "rejected"} => life[RequestOf[c]].verdict = answer[c]
  /\ \A r \in Requests :
       op[r] # Absent /\ op[r].reply = "accepted" => life[r].verdict = "accepted"

AnswerInv ==
  /\ TrackerInv
  /\ ResultFollowsOutcomes
  /\ ActionsAreOwn /\ AnswersAreTrue

-----------------------------------------------------------------------------
(* How one event changes what an operation says.                           *)

LEMMA FollowsByFields ==
  ASSUME NEW o, NEW p, Follows(o),
         p.result = o.result, p.reply = o.reply, p.outcomes = o.outcomes
  PROVE  Follows(p)
BY DEF Follows, Said, Refusal

\* An operation without a definite result was told of none.
LEMMA OpenSaidNothing ==
  ASSUME NEW o, Follows(o), o.result \in {"none", "uncertain"}
  PROVE  Said(o) = {}
BY DEF Follows, Said, Definitive

LEMMA SentFollows ==
  ASSUME NEW a \in Actions
  PROVE  Follows(Sent(a)) /\ Sent(a).action = a /\ Sent(a).reply = "none"
BY DEF Follows, Said, Refusal, Sent, Definitive

LEMMA EndsUncertainAdvances ==
  ASSUME NEW o, Sound(o), Pending(o), NEW v
  PROVE  Advances(o, EndsUncertain(o), v)
<1> DEFINE p == EndsUncertain(o)
<1>1. /\ p.result = "uncertain" /\ p.reply = o.reply /\ p.outcomes = o.outcomes
      /\ p.action = o.action /\ o.result = "none"
  BY DEF Sound, Operation, EndsUncertain
<1>2. Sound(p)
  BY EndsUncertainIsSound
<1> HIDE DEF p
<1>3. Follows(o) => Follows(p)
  <2> SUFFICES ASSUME Follows(o) PROVE Follows(p)
    OBVIOUS
  <2>1. Said(o) = {} /\ Said(p) = Said(o)
    BY <1>1, OpenSaidNothing DEF Said
  <2> QED BY <1>1, <2>1 DEF Follows, Definitive
<1> QED BY <1>1, <1>2, <1>3 DEF Advances, p

LEMMA StaysAdvances ==
  ASSUME NEW o, Sound(o), NEW v
  PROVE  Advances(o, o, v)
BY DEF Advances

LEMMA DeadlineAdvances ==
  ASSUME NEW o, Sound(o), NEW v
  PROVE  Advances(o, AfterDeadline(o), v) /\ Advances(o, AfterUncertainReply(o), v)
BY EndsUncertainAdvances, StaysAdvances DEF AfterDeadline, AfterUncertainReply, Pending

LEMMA ReplyAdvances ==
  ASSUME NEW o, Sound(o), NEW code \in {"accepted"} \union RefusalCodes,
         NEW by \in Sources \union {NoOne}, NEW v, code = "accepted" => v = "accepted"
  PROVE  Advances(o, AfterReply(o, code, by), v)
<1> DEFINE p == AfterReply(o, code, by)
           q == Replied(o, code, by)
<1>1. Sound(p)
  BY ReplyHardens
<1>2. /\ q \in Operation /\ q.action = o.action /\ q.result = o.result /\ q.status = o.status
      /\ q.reply = code /\ q.outcomes = o.outcomes
  BY DEF Sound, Operation, Replied
<1>3. CASE p = o
  BY <1>3, StaysAdvances
<1>4. CASE p = q /\ o.reply = "none"
  <2>1. Said(q) = Said(o) /\ Refusal(o) = {} /\ Refusal(q) \subseteq {"failed"}
    BY <1>2, <1>4 DEF Said, Refusal, RefusalCodes
  <2>2. Follows(o) => Follows(q)
    BY <1>2, <2>1 DEF Follows, Said, Definitive
  <2> QED BY <1>1, <1>2, <1>4, <2>2 DEF Advances
<1>5. CASE o.status = "sent" /\ code = "accepted"
  <2>1. p = [q EXCEPT !.status = "accepted"]
    BY <1>5 DEF AfterReply
  <2>2. /\ p.action = o.action /\ p.result = "none" /\ p.reply = code
        /\ p.outcomes = o.outcomes /\ o.result = "none"
    BY <1>2, <1>5, <2>1 DEF Operation, Sound, Pending
  <2>3. Follows(o) => Follows(p)
    <3> SUFFICES ASSUME Follows(o) PROVE Follows(p)
      OBVIOUS
    <3>1. Said(o) = {} /\ Said(p) = Said(o)
      BY <2>2, OpenSaidNothing DEF Said
    <3> QED BY <2>2, <3>1 DEF Follows, Definitive
  <2> QED BY <1>1, <1>5, <2>2, <2>3 DEF Advances
<1>6. CASE o.status = "sent" /\ code # "accepted"
  <2> DEFINE st == IF code = "expired" THEN "expired" ELSE "rejected"
  <2>1. p = [q EXCEPT !.status = st, !.result = "failed", !.evidence = "none"]
    BY <1>6 DEF AfterReply
  <2> HIDE DEF st
  <2>2. /\ p.action = o.action /\ p.result = "failed" /\ p.reply = code
        /\ p.outcomes = o.outcomes /\ o.result = "none"
    BY <1>2, <1>6, <2>1 DEF Operation, Sound, Pending
  <2>3. Follows(o) => Follows(p)
    <3> SUFFICES ASSUME Follows(o) PROVE Follows(p)
      OBVIOUS
    <3>1. Said(o) = {} /\ Said(p) = Said(o) /\ Refusal(p) = {"failed"}
      BY <1>6, <2>2, OpenSaidNothing DEF Said, Refusal
    <3> QED BY <2>2, <3>1 DEF Follows, Definitive
  <2> QED BY <1>1, <1>6, <2>2, <2>3 DEF Advances
<1> QED BY <1>3, <1>4, <1>5, <1>6 DEF AfterReply

LEMMA OutcomeAdvances ==
  ASSUME NEW o, Sound(o), NEW taken \in Outcomes, NEW v
  PROVE  Advances(o, AfterOutcome(o, taken), v)
<1> DEFINE p == AfterOutcome(o, taken)
           base == [o EXCEPT !.outcomes = @ \union {taken}]
           both == Strongest(o.evidence, taken.evidence)
           done == [base EXCEPT !.status = "completed", !.result = taken.result,
                                !.evidence = taken.evidence]
           clash == [base EXCEPT !.status = "conflict", !.result = "conflict",
                                 !.evidence = both]
<1>1. Sound(p) /\ taken.result \in OutcomeResults
  BY OutcomeHardens DEF Outcomes
<1>2. /\ base \in Operation /\ base.action = o.action /\ base.reply = o.reply
      /\ base.result = o.result /\ base.outcomes = o.outcomes \union {taken}
  BY DEF Sound, Operation
<1>3. \/ p = o
      \/ /\ p \in {base, [base EXCEPT !.evidence = both], done, clash}
         /\ \/ Settles(o, taken) /\ p.result = taken.result
            \/ ~Settles(o, taken) /\ o.result = "uncertain" /\ p.result = o.result
            \/ Contradicts(o, taken) /\ ~Settles(o, taken) /\ p.result = "conflict"
            \/ ~Contradicts(o, taken) /\ ~Settles(o, taken) /\ p.result = o.result
  BY <1>2 DEF AfterOutcome, Operation
<1>4. CASE p = o
  BY <1>4, StaysAdvances
<1>5. CASE p # o
  <2>1. /\ p.action = o.action /\ p.reply = o.reply
        /\ p.outcomes = o.outcomes \union {taken}
    BY <1>2, <1>3, <1>5 DEF Operation
  <2> HIDE DEF p, base, done, clash, both
  <2>2. Said(p) = Said(o) \union ({taken.result} \intersect Definitive)
    BY <2>1 DEF Said
  <2>3. Refusal(p) = Refusal(o)
    BY <2>1 DEF Refusal
  <2>4. ASSUME Follows(o) PROVE Follows(p)
    <3>1. o.result \in {"none", "uncertain", "succeeded", "failed", "conflict"}
      BY DEF Sound, Operation, OutcomeResults
    <3>2. CASE Settles(o, taken) /\ p.result = taken.result
      <4>1. Said(o) = {}
        BY <2>4, <3>2, OpenSaidNothing DEF Settles
      <4>2. CASE taken.result \in Definitive
        <5>1. Said(p) = {taken.result}
          BY <2>2, <4>1, <4>2
        <5>2. Said(p) # Definitive /\ p.result # "conflict"
          BY <3>2, <4>2, <5>1 DEF Definitive
        <5> QED BY <3>2, <5>1, <5>2 DEF Follows
      <4>3. CASE taken.result \notin Definitive
        <5>1. Said(p) = {} /\ p.result = "uncertain"
          BY <1>1, <2>2, <3>2, <4>1, <4>3 DEF OutcomeResults, Definitive
        <5> QED BY <5>1 DEF Follows, Definitive
      <4> QED BY <4>2, <4>3
    <3>3. CASE ~Settles(o, taken) /\ o.result = "uncertain" /\ p.result = o.result
      <4>1. Said(p) = {}
        BY <2>2, <2>4, <3>3, OpenSaidNothing DEF Settles
      <4> QED BY <3>3, <4>1 DEF Follows, Definitive
    <3>4. CASE Contradicts(o, taken) /\ ~Settles(o, taken) /\ p.result = "conflict"
      <4>1. /\ taken.result \in Definitive /\ o.result \in {"succeeded", "failed", "conflict"}
            /\ taken.result # o.result
        BY <3>1, <3>4 DEF Contradicts, Settles
      <4>2. Said(p) \union Refusal(p) = Definitive
        <5>1. Said(p) \subseteq Definitive /\ Refusal(p) \subseteq Definitive
          BY DEF Said, Refusal, Definitive
        <5>2. CASE o.result = "conflict"
          BY <2>2, <2>3, <2>4, <5>1, <5>2 DEF Follows
        <5>3. CASE o.result \in Definitive
          <6>1. o.result \in Said(o) \union Refusal(o)
            BY <2>4, <5>3 DEF Follows
          <6>2. {o.result, taken.result} \subseteq Said(p) \union Refusal(p)
            BY <2>2, <2>3, <4>1, <6>1
          <6>3. {o.result, taken.result} = Definitive
            BY <4>1, <5>3 DEF Definitive
          <6> QED BY <5>1, <6>2, <6>3
        <5> QED BY <4>1, <5>2, <5>3 DEF Definitive
      <4> QED BY <3>4, <4>2 DEF Follows, Definitive
    <3>5. CASE ~Contradicts(o, taken) /\ ~Settles(o, taken) /\ p.result = o.result
      <4>1. taken.result \notin Definitive \/ o.result = taken.result
        BY <3>5 DEF Contradicts
      <4>2. CASE taken.result \notin Definitive
        <5>1. Said(p) = Said(o)
          BY <2>2, <4>2
        <5> QED BY <2>3, <2>4, <3>5, <5>1 DEF Follows
      <4>3. CASE o.result = taken.result /\ taken.result \in Definitive
        <5>1. o.result # "conflict"
          BY <4>3 DEF Definitive
        <5>2. \A res \in Said(o) : res = o.result
          BY <2>4, <5>1 DEF Follows
        <5>3. Said(p) = {o.result}
          BY <2>2, <4>3, <5>2
        <5>4. Said(p) # Definitive
          BY <5>3 DEF Definitive
        <5> QED BY <3>5, <5>1, <5>3, <5>4 DEF Follows
      <4> QED BY <4>1, <4>2, <4>3
    <3> QED BY <1>3, <1>5, <3>2, <3>3, <3>4, <3>5
  <2> QED BY <1>1, <2>1, <2>4 DEF Advances, p
<1> QED BY <1>4, <1>5

-----------------------------------------------------------------------------

\* What a step does to the operation of one request.
LEMMA StepOnOperation ==
  ASSUME TrackerInv, [Next]_vars, NEW r \in Requests
  PROVE  \/ op'[r] = op[r]
         \/ /\ op[r] = Absent
            /\ \E c \in Calls : /\ r = RequestOf[c] /\ Record(c)
                              /\ op'[r] = Sent(ActionOf[c])
         \/ op[r] # Absent /\ Advances(op[r], op'[r], life[r].verdict)
<1> DEFINE Goal ==
      \/ op'[r] = op[r]
      \/ /\ op[r] = Absent
         /\ \E c \in Calls : /\ r = RequestOf[c] /\ Record(c)
                           /\ op'[r] = Sent(ActionOf[c])
      \/ op[r] # Absent /\ Advances(op[r], op'[r], life[r].verdict)
<1> SUFFICES Goal
  OBVIOUS
<1>t. TypeOK /\ (op[r] # Absent => Sound(op[r]))
  BY StoredIsSound DEF TrackerInv
<1>1. ASSUME NEW c \in Calls, Record(c) PROVE Goal
  BY <1>1, <1>t, RequestOfCall DEF Record, TypeOK
<1>2. ASSUME NEW c \in Calls, Reply(c) PROVE Goal
  <2>1. \/ op'[r] = op[r]
        \/ r = RequestOf[c] /\ op'[r] \in AfterResult(r, op[r])
    BY <1>2, <1>t DEF Reply, TypeOK
  <2>2. ASSUME r = RequestOf[c], NEW o \in AfterResult(r, op[r])
        PROVE  op[r] # Absent /\ Advances(op[r], o, life[r].verdict)
    <3>1. op[r] # Absent /\ Sound(op[r])
      BY <1>2, <1>t, <2>2 DEF Reply, TrackerInv, OneCallWorks, UnsentIsUntouched
    <3>2. life[r].verdict \in {"accepted", "rejected", "uncertain"}
      <4>1. life[r] \in Promise!Life /\ life[r].verdict # "none"
        BY <1>2, <1>t, <2>2 DEF Reply, TypeOK
      <4> QED BY <4>1 DEF Promise!Life, Promise!Verdicts
    <3>3. (IF r \in CoreOwned THEN Core ELSE Owner) \in Sources
      BY DEF TrackerAssumption
    <3>4. \A by \in RefusedBy(r) : by \in Sources \union {NoOne}
      BY <3>3 DEF RefusedBy
    <3>5. CASE life[r].verdict = "uncertain"
      BY <2>2, <3>1, <3>5, DeadlineAdvances DEF AfterResult
    <3>6. CASE life[r].verdict = "accepted"
      <4> DEFINE by == IF r \in CoreOwned THEN Core ELSE Owner
      <4>1. o = AfterReply(op[r], "accepted", by)
        BY <2>2, <3>6 DEF AfterResult
      <4>2. by \in Sources \union {NoOne}
        BY <3>3
      <4> HIDE DEF by
      <4> QED BY <3>1, <3>6, <4>1, <4>2, ReplyAdvances
    <3>7. CASE life[r].verdict = "rejected"
      <4>1. PICK code \in RefusalCodes, by \in RefusedBy(r) :
              o = AfterReply(op[r], code, by)
        BY <2>2, <3>7 DEF AfterResult
      <4>2. code # "accepted"
        BY DEF RefusalCodes
      <4> QED BY <3>1, <3>4, <4>1, <4>2, ReplyAdvances
    <3> QED BY <3>1, <3>2, <3>5, <3>6, <3>7
  <2> QED BY <2>1, <2>2
<1>3. ASSUME NEW s \in Requests, NEW taken \in Reports, TakeOutcome(s, taken) PROVE Goal
  <2>1. op'[r] = op[r] \/ (op[r] # Absent /\ op'[r] = AfterOutcome(op[r], taken))
    BY <1>3, <1>t DEF TakeOutcome, TypeOK
  <2>2. taken \in Outcomes
    BY DEF TrackerAssumption
  <2> QED BY <1>t, <2>1, <2>2, OutcomeAdvances
<1>4. ASSUME NEW s \in Requests, NEW id \in OutcomeIds, CoreComplete(s, id) PROVE Goal
  <2> DEFINE o == [op[r] EXCEPT !.responder = Core]
             p == AfterOutcome(o, CoreOutcome(id))
  <2>1. op'[r] = op[r] \/ (r = s /\ op'[r] = p)
    BY <1>4, <1>t DEF CoreComplete, TypeOK
  <2>2. CoreOutcome(id) \in Outcomes
    BY DEF TrackerAssumption, CoreOutcome, Outcomes, OutcomeResults, Evidence
  <2>3. ASSUME r = s PROVE op[r] # Absent /\ Advances(op[r], p, life[r].verdict)
    <3>1. op[r] # Absent /\ Sound(op[r])
      BY <1>4, <1>t, <2>3
      DEF CoreComplete, TrackerInv, HandledIsUndecided, UnsentIsUntouched
    <3>2. /\ o \in Operation /\ o.status = op[r].status /\ o.result = op[r].result
          /\ o.action = op[r].action /\ o.reply = op[r].reply
          /\ o.outcomes = op[r].outcomes
      BY <3>1 DEF TrackerAssumption, Sound, Operation
    <3>3. Sound(o)
      BY <3>1, <3>2 DEF Sound, Pending
    <3> HIDE DEF o
    <3>4. Advances(o, p, life[r].verdict)
      BY <2>2, <3>3, OutcomeAdvances
    <3> HIDE DEF p
    <3>5. Follows(op[r]) => Follows(o)
      BY <3>2, FollowsByFields
    <3> QED BY <3>1, <3>2, <3>4, <3>5 DEF Advances
  <2> QED BY <2>1, <2>3
<1>5. ASSUME Sweep PROVE Goal
  <2>1. op'[r] = op[r] \/ (op[r] # Absent /\ op'[r] = AfterDeadline(op[r]))
    BY <1>5 DEF Sweep, Overdue
  <2> QED BY <1>t, <2>1, DeadlineAdvances
<1>6. ASSUME op' = op PROVE Goal
  BY <1>6
<1>7. CASE UNCHANGED vars
  BY <1>6, <1>7 DEF vars
<1>8. CASE Next
  <2> HIDE DEF Goal
  <2> QED
    BY <1>1, <1>2, <1>3, <1>4, <1>5, <1>6, <1>8
    DEF Next, Decline, Again, Send, Withdraw, Begin, TakeEffect, ReplyDeadline,
        Due, End, Stop, Halt, Crash, Die, Start
<1> QED BY <1>7, <1>8

\* The bus's verdict on a request is final.
LEMMA VerdictsStay ==
  ASSUME TrackerInv, [Next]_vars, NEW r \in Requests,
         life[r].verdict \in {"accepted", "rejected"}
  PROVE  life'[r].verdict = life[r].verdict
<1> DEFINE Goal == life'[r].verdict = life[r].verdict
<1>t. TypeOK /\ life[r] \in Promise!Life
  BY DEF TrackerInv, TypeOK
<1>0. life[r] # Promise!Unsent /\ life[r] # Promise!Waits
  BY LifeStages
<1>1. ASSUME NEW c \in Calls, Send(c) PROVE Goal
  BY <1>0, <1>1, <1>t DEF Send, TypeOK, Promise!Issue
<1>2. ASSUME NEW s \in Requests, Withdraw(s) \/ Begin(s) PROVE Goal
  BY <1>0, <1>2, <1>t DEF Withdraw, Begin, TypeOK, Promise!Withdraw, Promise!Begin
<1>3. ASSUME NEW s \in Requests, TakeEffect(s) PROVE Goal
  <2> DEFINE m == [life[s] EXCEPT !.effect = "made"]
  <2>1. life' = [life EXCEPT ![s] = m]
    BY <1>3 DEF TakeEffect
  <2>2. r = s => m.verdict = life[r].verdict
    BY <1>t DEF Promise!Life
  <2> HIDE DEF m
  <2> QED BY <1>t, <2>1, <2>2 DEF TypeOK
<1>4. ASSUME NEW s \in Requests, NEW v, End(s, v) PROVE Goal
  <2> DEFINE m == [life[s] EXCEPT !.verdict = IF @ = "none" THEN v ELSE @]
  <2>1. life' = [life EXCEPT ![s] = m]
    BY <1>4 DEF End
  <2>2. r = s => m.verdict = life[r].verdict
    BY <1>t DEF Promise!Life
  <2> HIDE DEF m
  <2> QED BY <1>t, <2>1, <2>2 DEF TypeOK
<1>5. ASSUME NEW s \in Requests, NEW id \in OutcomeIds, CoreComplete(s, id) PROVE Goal
  <2> DEFINE m == [life[s] EXCEPT !.effect = "made"]
  <2>1. life' = [life EXCEPT ![s] = m]
    BY <1>5 DEF CoreComplete
  <2>2. r = s => m.verdict = life[r].verdict
    BY <1>t DEF Promise!Life
  <2> HIDE DEF m
  <2> QED BY <1>t, <2>1, <2>2 DEF TypeOK
<1>6. ASSUME NEW s \in Requests, ReplyDeadline(s) PROVE Goal
  <2> DEFINE m == [life[s] EXCEPT !.verdict = "uncertain"]
  <2>1. life' = [life EXCEPT ![s] = m] /\ life[s].verdict = "none"
    BY <1>6 DEF ReplyDeadline
  <2> HIDE DEF m
  <2> QED BY <1>t, <2>1 DEF TypeOK
<1>7. ASSUME Die PROVE Goal
  BY <1>0, <1>7, <1>t DEF Die, TypeOK
<1>8. ASSUME UNCHANGED life PROVE Goal
  BY <1>8
<1> SUFFICES Goal
  OBVIOUS
<1> HIDE DEF Goal
<1> QED
  BY <1>1, <1>2, <1>3, <1>4, <1>5, <1>6, <1>7, <1>8
  DEF Next, Record, Decline, Again, Reply, TakeOutcome, Due, Sweep, Stop, Halt, Crash,
      Start, vars

\* What a step does to one call.
LEMMA StepOnCall ==
  ASSUME TrackerInv, [Next]_vars, NEW c \in Calls
  PROVE  \/ (Busy(c)' => Busy(c)) /\ answer'[c] = answer[c]
         \/ Record(c) /\ answer'[c] = answer[c]
         \/ answer'[c] = "unavailable" /\ ~Busy(c)'
         \/ /\ op[RequestOf[c]] # Absent /\ ~Busy(c)'
            /\ answer'[c] = EarlierAnswer(op[RequestOf[c]], ActionOf[c])
         \/ Busy(c) /\ answer'[c] = life[RequestOf[c]].verdict /\ ~Busy(c)'
<1> DEFINE Goal ==
      \/ (Busy(c)' => Busy(c)) /\ answer'[c] = answer[c]
      \/ Record(c) /\ answer'[c] = answer[c]
      \/ answer'[c] = "unavailable" /\ ~Busy(c)'
      \/ /\ op[RequestOf[c]] # Absent /\ ~Busy(c)'
         /\ answer'[c] = EarlierAnswer(op[RequestOf[c]], ActionOf[c])
      \/ Busy(c) /\ answer'[c] = life[RequestOf[c]].verdict /\ ~Busy(c)'
<1>t. TypeOK
  BY DEF TrackerInv
<1>1. ASSUME NEW d \in Calls, Record(d) PROVE Goal
  BY <1>1, <1>t DEF Record, Busy, TypeOK
<1>2. ASSUME NEW d \in Calls, Decline(d) PROVE Goal
  BY <1>2, <1>t DEF Decline, Tell, Busy, TypeOK
<1>3. ASSUME NEW d \in Calls, Again(d) PROVE Goal
  BY <1>3, <1>t DEF Again, Tell, Busy, TypeOK
<1>4. ASSUME NEW d \in Calls, Send(d) PROVE Goal
  BY <1>4, <1>t DEF Send, Busy, TypeOK
<1>5. ASSUME NEW d \in Calls, Reply(d) PROVE Goal
  BY <1>5, <1>t DEF Reply, Tell, Busy, TypeOK
<1>6. ASSUME Die PROVE Goal
  BY <1>6, <1>t DEF Die, Busy, TypeOK
<1>7. ASSUME UNCHANGED <<call, answer>> PROVE Goal
  BY <1>7 DEF Busy
<1> SUFFICES Goal
  OBVIOUS
<1> HIDE DEF Goal
<1> QED
  BY <1>1, <1>2, <1>3, <1>4, <1>5, <1>6, <1>7
  DEF Next, Withdraw, Begin, TakeEffect, ReplyDeadline, Due, End, TakeOutcome,
      CoreComplete, Sweep, Stop, Halt, Crash, Start, vars

LEMMA FollowsIsTheProperty ==
  ResultFollowsOutcomes <=> \A r \in Requests : op[r] # Absent => Follows(op[r])
BY DEF ResultFollowsOutcomes, Follows, Refusal

LEMMA AnswerInit == Init => AnswerInv
<1> SUFFICES ASSUME Init PROVE AnswerInv
  OBVIOUS
<1>1. TrackerInv
  BY InitEstablishes
<1>2. ResultFollowsOutcomes
  BY FollowsIsTheProperty DEF Init
<1>3. ActionsAreOwn /\ AnswersAreTrue
  BY RequestOfCall DEF Init, ActionsAreOwn, AnswersAreTrue, Busy
<1> QED BY <1>1, <1>2, <1>3 DEF AnswerInv

LEMMA AnswerStep == AnswerInv /\ [Next]_vars => AnswerInv'
<1> SUFFICES ASSUME AnswerInv, [Next]_vars PROVE AnswerInv'
  OBVIOUS
<1>1. TrackerInv /\ TrackerInv'
  BY StepKeeps DEF AnswerInv
<1>2. \A r \in Requests : op[r] # Absent => Follows(op[r])
  BY FollowsIsTheProperty DEF AnswerInv
<1>3. ResultFollowsOutcomes'
  <2> SUFFICES ASSUME NEW r \in Requests, op'[r] # Absent PROVE Follows(op'[r])
    BY DEF ResultFollowsOutcomes, Follows, Refusal, Said
  <2> QED BY <1>1, <1>2, StepOnOperation, SentFollows, RequestOfCall DEF Advances
<1>4. \A r \in Requests : op[r] # Absent =>
        op'[r] # Absent /\ op'[r].action = op[r].action
  BY <1>1, StepOnOperation, SoundIsStored DEF Advances
<1>5. ActionsAreOwn'
  <2> SUFFICES ASSUME NEW c \in Calls,
                      Busy(c)' \/ answer'[c] \in {"accepted", "rejected", "uncertain"}
               PROVE  /\ op'[RequestOf[c]] # Absent
                      /\ op'[RequestOf[c]].action = ActionOf[c]
    BY DEF ActionsAreOwn
  <2> DEFINE r == RequestOf[c]
  <2>1. r \in Requests /\ ActionOf[c] \in Actions
    BY RequestOfCall
  <2>2. CASE op[r] # Absent /\ op[r].action = ActionOf[c]
    BY <1>4, <2>1, <2>2
  <2>3. CASE Record(c)
    <3>1. op'[r] = Sent(ActionOf[c])
      BY <1>1, <2>1, <2>3 DEF Record, TrackerInv, TypeOK
    <3> QED BY <2>1, <3>1, SentIsSound, SentFollows, SoundIsStored
  <2>4. CASE op[r] # Absent /\ answer'[c] = EarlierAnswer(op[r], ActionOf[c]) /\ ~Busy(c)'
    <3>1. op[r].action = ActionOf[c]
      BY <2>4 DEF EarlierAnswer
    <3> QED BY <2>2, <2>4, <3>1
  <2> QED BY <1>1, <2>2, <2>3, <2>4, StepOnCall DEF AnswerInv, ActionsAreOwn
<1>6. \A c \in Calls : answer'[c] \in {"accepted", "rejected"} =>
        life'[RequestOf[c]].verdict = answer'[c]
  <2> SUFFICES ASSUME NEW c \in Calls, answer'[c] \in {"accepted", "rejected"}
               PROVE  life[RequestOf[c]].verdict = answer'[c]
    BY <1>1, VerdictsStay, RequestOfCall
  <2> DEFINE r == RequestOf[c]
  <2>1. CASE answer'[c] = answer[c]
    BY <2>1 DEF AnswerInv, AnswersAreTrue
  <2>2. CASE op[r] # Absent /\ answer'[c] = EarlierAnswer(op[r], ActionOf[c])
    <3>1. CASE answer'[c] = "accepted"
      <4>1. op[r].reply = "accepted"
        BY <2>2, <3>1 DEF EarlierAnswer
      <4> QED BY <2>2, <3>1, <4>1, RequestOfCall DEF AnswerInv, AnswersAreTrue
    <3>2. CASE answer'[c] = "rejected"
      <4>1. op[r].status \in {"rejected", "expired"}
        BY <2>2, <3>2 DEF EarlierAnswer
      <4> QED BY <2>2, <3>2, <4>1, RequestOfCall DEF AnswerInv, TrackerInv, RefusalIsTrue
    <3> QED BY <3>1, <3>2
  <2>3. CASE answer'[c] = life[r].verdict
    BY <2>3
  <2> QED BY <1>1, <2>1, <2>2, <2>3, StepOnCall
<1>7. \A r \in Requests : op'[r] # Absent /\ op'[r].reply = "accepted" =>
        life'[r].verdict = "accepted"
  <2> SUFFICES ASSUME NEW r \in Requests, op'[r] # Absent, op'[r].reply = "accepted"
               PROVE  life[r].verdict = "accepted"
    BY <1>1, VerdictsStay
  <2>1. \A c \in Calls : Sent(ActionOf[c]).reply # "accepted"
    BY RequestOfCall, SentFollows
  <2> QED BY <1>1, <2>1, StepOnOperation DEF Advances, AnswerInv, AnswersAreTrue
<1>8. AnswersAreTrue'
  BY <1>6, <1>7 DEF AnswersAreTrue
<1> QED BY <1>1, <1>3, <1>5, <1>8 DEF AnswerInv

-----------------------------------------------------------------------------

\* What the tracker tells is true of the bus, and what it stores follows what
\* was reported, in every reachable state.
THEOREM AnswerInvariant == Spec => []AnswerInv
BY AnswerInit, AnswerStep, PTL DEF Spec

\* ResultFollowsOutcomes: an operation's result is what the outcomes taken and
\* the owner's refusal say, in whatever order they came (advance).
THEOREM TrackerResultFollowsOutcomes == Spec => []ResultFollowsOutcomes
<1>1. AnswerInv => ResultFollowsOutcomes
  BY DEF AnswerInv
<1> QED BY <1>1, AnswerInvariant, PTL

\* AnswersAgree: two callers of one request are never told opposite things, and
\* an answer is about the caller's own action (#dispatch, #again).
THEOREM TrackerAnswersAgree == Spec => []AnswersAgree
<1>1. AnswerInv => AnswersAgree
  BY DEF AnswerInv, AnswersAreTrue, ActionsAreOwn, AnswersAgree, Told
<1> QED BY <1>1, AnswerInvariant, PTL

=============================================================================
