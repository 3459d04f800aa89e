--------------------------- MODULE CommandPromise ---------------------------
(***************************************************************************)
(* What the SDK promises about one request (ADR 0012, "Errors, effects and *)
(* outcomes"; RequestResult in packages/sdk/src/sdk.ts): a command reaches *)
(* its handler at most once, `rejected' proves that it had and will have   *)
(* no effect, `accepted' comes after the handler is done, and only a       *)
(* command its handler had can be `uncertain'.  Nothing here says how the  *)
(* bus queues, times out or closes; CommandBus implements this module.     *)
(***************************************************************************)
CONSTANT Commands

VARIABLE life

Stages   == {"unsent", "waiting", "withdrawn", "started"}
Verdicts == {"none", "accepted", "rejected", "uncertain"}
Life     == [stage : Stages, verdict : Verdicts, effect : {"none", "made"}]

Unsent    == [stage |-> "unsent", verdict |-> "none", effect |-> "none"]
Waits     == [stage |-> "waiting", verdict |-> "none", effect |-> "none"]
Withdrawn == [stage |-> "withdrawn", verdict |-> "rejected", effect |-> "none"]

-----------------------------------------------------------------------------
(* The steps one command's life may take.                                  *)

\* The request is made: it waits for its handler, or is refused at once.
Issue(l, m) ==
  /\ l = Unsent
  /\ m \in {Waits, Withdrawn}

\* A command that still waits is taken out: it never runs.
Withdraw(l, m) ==
  /\ l = Waits
  /\ m = Withdrawn

\* Its handler gets it, once.
Begin(l, m) ==
  /\ l = Waits
  /\ m = [l EXCEPT !.stage = "started"]

\* The handler changes the world; an uncertain request may still see that.
TakeEffect(l, m) ==
  /\ l.stage = "started"
  /\ l.verdict \in {"none", "uncertain"}
  /\ m = [l EXCEPT !.effect = "made"]

\* The requester learns the result, once; a refusal needs an idle handler.
Decide(l, m) ==
  /\ l.stage = "started" /\ l.verdict = "none"
  /\ \/ m = [l EXCEPT !.verdict = "accepted"]
     \/ m = [l EXCEPT !.verdict = "uncertain"]
     \/ l.effect = "none" /\ m = [l EXCEPT !.verdict = "rejected"]

LifeStep(l, m) ==
  Issue(l, m) \/ Withdraw(l, m) \/ Begin(l, m) \/ TakeEffect(l, m) \/ Decide(l, m)

-----------------------------------------------------------------------------
Init == life = [c \in Commands |-> Unsent]

\* Closing a participant decides many commands in one turn, so a step may
\* advance several lives, each by one step.
Next ==
  /\ life' \in [Commands -> Life]
  /\ \A c \in Commands : life'[c] = life[c] \/ LifeStep(life[c], life'[c])

Spec == Init /\ [][Next]_life
=============================================================================
