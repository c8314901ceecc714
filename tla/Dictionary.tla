----------------------------- MODULE Dictionary -----------------------------
(***************************************************************************)
(* What a map_t of ehp promises: the value of a key is the one it was set  *)
(* to last, or it is missing.  A call that sets a key may make the map     *)
(* forget every other key; it never changes one, or forgets only some.     *)
(***************************************************************************)
CONSTANTS Keys, Values, NULL

VARIABLES
    store,    \* the value of each key, NULL when it has none
    written   \* the value each key was set to last, NULL before that

vars == <<store, written>>

Init ==
    /\ store = [k \in Keys |-> NULL]
    /\ written = [k \in Keys |-> NULL]

Put(k, v) ==
    /\ written' = [written EXCEPT ![k] = v]
    /\ \/ store' = [store EXCEPT ![k] = v]
       \/ store' = [x \in Keys |-> IF x = k THEN v ELSE NULL]

Next == \E k \in Keys, v \in Values : Put(k, v)

Spec == Init /\ [][Next]_vars
=============================================================================
