----------------------------- MODULE Operations -----------------------------
(***************************************************************************)
(* The state machine of one tracked action: `advance' in                   *)
(* apps/runtime/src/core/operations.ts, as functions of an operation and   *)
(* of what happened to it.  An event that changes nothing returns the      *)
(* operation as it was.  A refusal's error body is its code; times, texts  *)
(* and the command's payload are left out.                                 *)
(***************************************************************************)
EXTENDS Naturals

CONSTANTS
  Sources,      \* participants that report outcomes
  OutcomeIds,   \* a source's message IDs
  NoOne,        \* no responder is known
  Actions       \* who asks for what: caller, key, command and payload

ASSUME OperationsAssumption == NoOne \notin Sources

OutcomeResults == {"succeeded", "failed", "uncertain"}
Definitive     == {"succeeded", "failed"}
Evidence       == {"none", "transmitted", "observed"}
Outcomes == [source : Sources, id : OutcomeIds, result : OutcomeResults,
             evidence : Evidence]

RefusalCodes == {"expired", "refused"}

Operation ==
  [action : Actions,
   status : {"sent", "accepted", "rejected", "expired", "uncertain",
             "completed", "conflict"},
   result : {"none", "conflict"} \union OutcomeResults,
   evidence : Evidence,
   reply : {"none", "accepted"} \union RefusalCodes,
   responder : Sources \union {NoOne},
   outcomes : SUBSET Outcomes]

Sent(action) ==
  [action |-> action, status |-> "sent", result |-> "none", evidence |-> "none",
   reply |-> "none", responder |-> NoOne, outcomes |-> {}]

Pending(o) == o.status \in {"sent", "accepted"}

EndsUncertain(o) ==
  [o EXCEPT !.status = "uncertain", !.result = "uncertain", !.evidence = "none"]

\* The deadline passed.
AfterDeadline(o) == IF Pending(o) THEN EndsUncertain(o) ELSE o

\* Mutant: a reply that never came is taken for a refusal.
UncertainAsRefusal(o) ==
  IF o.status = "sent"
  THEN [o EXCEPT !.status = "rejected", !.result = "failed", !.evidence = "none"]
  ELSE o

\* The reply was uncertain: nobody knows what the owner said.
AfterUncertainReply(o) == IF o.status = "sent" THEN EndsUncertain(o) ELSE o

\* The owner's reply, or the bus's refusal (of no responder).  After an outcome
\* or a deadline it only records what the owner said.
Replied(o, code, responder) ==
  [o EXCEPT !.reply = code,
            !.responder = IF responder = NoOne THEN @ ELSE responder]

\* Mutants: a reply overwrites what an outcome or the deadline decided, or the
\* refusal's code becomes the result.
AfterReplyOverwrites(o, code, responder) ==
  IF code = "accepted"
  THEN [Replied(o, code, responder) EXCEPT !.status = "accepted"]
  ELSE [Replied(o, code, responder) EXCEPT
          !.status = IF code = "expired" THEN "expired" ELSE "rejected",
          !.result = "failed", !.evidence = "none"]

AfterReplyUntranslated(o, code, responder) ==
  IF o.status # "sent" \/ code = "accepted" THEN Replied(o, code, responder)
  ELSE [Replied(o, code, responder) EXCEPT !.status = "rejected", !.result = code]

AfterReply(o, code, responder) ==
  IF o.status # "sent"
  THEN IF o.reply = "none" THEN Replied(o, code, responder) ELSE o
  ELSE IF code = "accepted"
  THEN [Replied(o, code, responder) EXCEPT !.status = "accepted"]
  ELSE [Replied(o, code, responder) EXCEPT
          !.status = IF code = "expired" THEN "expired" ELSE "rejected",
          !.result = "failed", !.evidence = "none"]

Strength(e) == CASE e = "none" -> 0 [] e = "transmitted" -> 1 [] e = "observed" -> 2
Strongest(a, b) == IF Strength(a) >= Strength(b) THEN a ELSE b

\* An outcome by its (source, id), once: it settles a pending or uncertain
\* operation; two definitive ones that differ are a conflict for good.
Known(o, taken) ==
  \E k \in o.outcomes : k.source = taken.source /\ k.id = taken.id

Settles(o, taken) ==
  \/ o.result = "none"
  \/ o.result = "uncertain" /\ taken.result \in Definitive

\* Mutant: a success does not contradict an earlier failure.
ContradictsOneWay(o, taken) ==
  taken.result = "failed" /\ o.result = "succeeded"

Contradicts(o, taken) ==
  taken.result \in Definitive /\ o.result # taken.result

AfterOutcome(o, taken) ==
  LET base == [o EXCEPT !.outcomes = @ \union {taken}]
      both == Strongest(o.evidence, taken.evidence)
  IN  IF Known(o, taken) THEN o
      ELSE IF Settles(o, taken)
      THEN [base EXCEPT !.status = "completed", !.result = taken.result,
                        !.evidence = taken.evidence]
      ELSE IF o.result = "uncertain" THEN [base EXCEPT !.evidence = both]
      ELSE IF Contradicts(o, taken)
      THEN [base EXCEPT !.status = "conflict", !.result = "conflict",
                        !.evidence = both]
      ELSE base

\* `completes' in tracker.ts: once the owner replied, only that owner reports.
Completes(o, taken) == o.responder \in {NoOne, taken.source}
=============================================================================
