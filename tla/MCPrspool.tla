----------------------------- MODULE MCPrspool -----------------------------
(* The process pool with small constants.  Workers are told apart by the   *)
(* round-robin order.  The runs check liveness, so that connections are    *)
(* not declared symmetric either.                                          *)
EXTENDS Prspool

CONSTANTS c1, c2, c3
============================================================================
