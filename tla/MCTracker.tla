----------------------------- MODULE MCTracker -----------------------------
(***************************************************************************)
(* A small tracker: request dev goes to a module, request lab to the core. *)
(* Two callers repeat one action for dev, a third reuses its ID for        *)
(* another.  The owner may report three outcomes and a stranger one.       *)
(***************************************************************************)
EXTENDS Tracker

CONSTANTS dev, lab, first, repeat, other, label, dim, brighten, rename,
          stranger

MCRequestOf == [c \in Calls |-> IF c = label THEN lab ELSE dev]
MCActionOf ==
  [c \in Calls |->
     CASE c = label -> rename [] c = other -> brighten
       [] c \in {first, repeat} -> dim]

Outcome(source, id, result, evidence) ==
  [source |-> source, id |-> id, result |-> result, evidence |-> evidence]

MCReports ==
  {Outcome(Owner, 1, "uncertain", "transmitted"),
   Outcome(Owner, 2, "succeeded", "observed"),
   Outcome(Owner, 3, "failed", "none"),
   Outcome(stranger, 1, "failed", "none")}

FewReports == {Outcome(Owner, 2, "succeeded", "observed")}
=============================================================================
