----------------------------- MODULE OutcomeRuns -----------------------------
(***************************************************************************)
(* OutcomeDelivery with a history of what went out since the module        *)
(* started, to check what packages/sdk/src/outbox.ts:120 says of its sends.*)
(***************************************************************************)
EXTENDS OutcomeDelivery

VARIABLE outThisRun   \* rows published since the module last started

InitRuns == Init /\ outThisRun = {}

\* Only Publish adds to `sent'.
WentOutNow == sent' \ sent

NextRuns ==
  /\ Next
  /\ outThisRun' = IF running' THEN outThisRun \union WentOutNow ELSE {}

SpecRuns == InitRuns /\ [][NextRuns]_<<vars, outThisRun>>

\* `Sends run one at a time, so a message never goes out twice in one run'.  It
\* does: a transaction before the start's republish marks an outcome published,
\* and republish sends every outcome not yet acknowledged, that one included.
OnceInOneRun == [][WentOutNow \intersect outThisRun = {}]_<<vars, outThisRun>>
=============================================================================
