----------------------------- MODULE MCMapTable -----------------------------
(* Five keys: three share the last bucket of a table of four, so that       *)
(* probing wraps round, and some of them meet again in the larger tables.   *)
EXTENDS MapTable, TLC

CONSTANTS k1, k2, k3, k4, k5, v1, v2

MCHash == k1 :> 3 @@ k2 :> 19 @@ k3 :> 0 @@ k4 :> 34 @@ k5 :> 7
=============================================================================
