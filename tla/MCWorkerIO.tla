----------------------------- MODULE MCWorkerIO -----------------------------
(* Two workers, two connections, and a request of each kind: one that keeps *)
(* its connection, one whose header "Connection" is lost, one to close it   *)
(* that may arrive in two parts, and two malformed ones; for two paths,     *)
(* with or without a file.                                                  *)
EXTENDS WorkerIO, TLC

CONSTANTS w1, w2, c1, c2, a, b

Kept ==
    [path |-> a, version |-> "HTTP/1.1", connection |-> "none", grown |-> FALSE,
     form |-> "sound"]
Lost     == [Kept EXCEPT !.path = b, !.version = "HTTP/1.0",
                         !.connection = "keep-alive", !.grown = TRUE]
Closing  == [Kept EXCEPT !.connection = "close"]
NoMatch  == [Kept EXCEPT !.form = "nomatch"]
NoColon  == [Kept EXCEPT !.form = "nocolon"]

MCRequests == {Kept, Lost, Closing, NoMatch, NoColon}
MCTorn     == {Closing}

Symmetry == Permutations(Workers) \cup Permutations(Conns)
=============================================================================
