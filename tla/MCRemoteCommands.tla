-------------------------- MODULE MCRemoteCommands --------------------------
(***************************************************************************)
(* A raw HTTP client with two credentials of one source makes two calls to *)
(* a remote responder whose stream may be lost once: the second sends the  *)
(* same message again, or another one, under either credential.  The first *)
(* message's deadline is far away, so it may be forgotten before.          *)
(***************************************************************************)
EXTENDS RemoteCommands

CONSTANTS p, k, c1, c2, m1, m2, q1, q2

MCOwnerOf     == [r \in Regs |-> p]
MCKeysOf      == [r \in Regs |-> {k}]
MCRequesterOf == [c \in Commands |-> Edge]
MCKeyOf       == [c \in Commands |-> k]

First   == [message |-> m1, principal |-> q1]
Seconds == {[message |-> m1, principal |-> q2],
            [message |-> m2, principal |-> q1],
            [message |-> m2, principal |-> q2]}
MCLoads == {[c \in Commands |-> IF c = c1 THEN First ELSE second] :
              second \in Seconds}
=============================================================================
