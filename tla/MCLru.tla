------------------------------- MODULE MCLru --------------------------------
(* Four requests, two of which share a bucket in every table; responses of  *)
(* one, three and nine bytes in a cache of eight, so that one is too big.   *)
EXTENDS Lru, TLC

CONSTANTS k1, k2, k3, k4, tiny, page, huge

MCHash == k1 :> 1 @@ k2 :> 17 @@ k3 :> 0 @@ k4 :> 6
MCSize == tiny :> 1 @@ page :> 3 @@ huge :> 9
=============================================================================
