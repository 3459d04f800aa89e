---------------------------- MODULE MCCommandBus ----------------------------
(***************************************************************************)
(* A small bus: participant a answers key k and b answers key m.  A remote *)
(* edge and b send commands to k; a's handler may ask b while it runs.     *)
(* Each queue holds one waiting command.                                   *)
(***************************************************************************)
EXTENDS CommandBus

CONSTANTS a, b, ra, rb, ce, cb, ca, k, m

MCOwnerOf     == [r \in Regs |-> IF r = ra THEN a ELSE b]
MCKeysOf      == [r \in Regs |-> IF r = rb THEN {m} ELSE {k}]
MCRequesterOf == [c \in Commands |->
                    CASE c = ce -> Edge [] c = cb -> b [] c = ca -> a]
MCKeyOf       == [c \in Commands |-> IF c = ca THEN m ELSE k]
=============================================================================
