-------------------------- MODULE MCIdempotencyKey --------------------------
(***************************************************************************)
(* Four requests with one key: three sends of one command, and another     *)
(* command that was given the same key.  One handler may outlive its lease.*)
(***************************************************************************)
EXTENDS IdempotencyKey, TLC

CONSTANTS q1, q2, q3, q4

MCRequests == {q1, q2, q3, q4}
MCPrintOf  == q1 :> "f" @@ q2 :> "f" @@ q3 :> "f" @@ q4 :> "g"
MCSlow     == {q1}
=============================================================================
