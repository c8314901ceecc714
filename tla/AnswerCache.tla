----------------------------- MODULE AnswerCache ----------------------------
(***************************************************************************)
(* What a worker relies on when it asks its cache: a key that is found has *)
(* the value it was stored with, whatever the cache has dropped meanwhile. *)
(* FifoCache.tla says what is dropped, for whoever cares.                  *)
(***************************************************************************)
CONSTANTS Keys, Values

VARIABLE pairs   \* the keys that would be found, with their values

Missing(known, k) == \A e \in known : e[1] # k

\* What the cache may be after value v was stored for k.
Stored(known, k, v) == {kept \cup {<<k, v>>} : kept \in SUBSET known}

Init == pairs = {}

Next == \E e \in pairs' : /\ e \in Keys \X Values
                          /\ Missing(pairs, e[1])
                          /\ pairs' \in Stored(pairs, e[1], e[2])

Spec == Init /\ [][Next]_pairs
=============================================================================
