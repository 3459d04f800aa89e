-------------------------- MODULE MCOutcomeDelivery --------------------------
(***************************************************************************)
(* A small instance of OutcomeDelivery: the second row is an occurrence,   *)
(* the others are outcomes.                                                *)
(***************************************************************************)
EXTENDS OutcomeDelivery

MCOutcomeRows == 1..MaxRows \ {2}
=============================================================================
