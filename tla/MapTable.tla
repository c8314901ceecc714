------------------------------ MODULE MapTable ------------------------------
(***************************************************************************)
(* The hash table of ehp (src/src/map.cc): open addressing with linear     *)
(* probing in a ring of buckets, doubled when it is three quarters full.   *)
(* Nothing is ever removed from it.  The server keeps the timers' last     *)
(* use, the poller's files, the headers of a request and the config in it. *)
(***************************************************************************)
EXTENDS Integers, FiniteSets

CONSTANTS
    Keys,      \* the keys the callers use
    Values,
    NULL,      \* no node, no value
    Hash,      \* str_hash of each key
    InitCap,   \* MAP_INIT_CAP, a power of two
    MaxSets    \* bound on the number of calls of map_set

ASSUME TableAssumption ==
    /\ Hash \in [Keys -> Nat]
    /\ InitCap \in Nat /\ InitCap >= 4
    /\ MaxSets \in Nat
    /\ NULL \notin Values
    /\ NULL \notin [key : Keys, value : Values]

VARIABLES
    cap,     \* number of buckets
    bks,     \* the buckets: a node or NULL
    len,     \* the field `len'
    written  \* history: the value each key was set to last

vars == <<cap, bks, len, written>>

Node    == [key : Keys, value : Values]
Buckets(c) == 0 .. c - 1
Factor(c)  == c \div 2 + c \div 4
Empty(c)   == [i \in Buckets(c) |-> NULL]

Occupied == {i \in Buckets(cap) : bks[i] # NULL}

\* The bucket d steps after the home of key k in a ring of c.  The code masks
\* with c - 1, which is the remainder because c is a power of two.
At(c, k, d) ==
    LET i == (Hash[k] % c) + d IN IF i < c THEN i ELSE i - c

\* map_set_actual: the loop stops at the first bucket that is free or has
\* the key already, and fails after a full turn.
Fits(c, b, k, d) == b[At(c, k, d)] = NULL \/ b[At(c, k, d)].key = k

\* Mutant of Targets: only a free bucket will do.
FreeTargets(c, b, k) ==
    {d \in Buckets(c) : /\ b[At(c, k, d)] = NULL
                        /\ \A e \in Buckets(c) : e < d => b[At(c, k, e)] # NULL}

Targets(c, b, k) ==
    {d \in Buckets(c) : /\ Fits(c, b, k, d)
                        /\ \A e \in Buckets(c) : e < d => ~Fits(c, b, k, e)}

\* map_getref: the loop goes on over free buckets until it meets the key.
HasKey(c, b, k, d) == b[At(c, k, d)] # NULL /\ b[At(c, k, d)].key = k

Lookup(c, b, k) ==
    IF \E d \in Buckets(c) : HasKey(c, b, k, d)
    THEN LET d == CHOOSE d \in Buckets(c) :
                    /\ HasKey(c, b, k, d)
                    /\ \A e \in Buckets(c) : e < d => ~HasKey(c, b, k, e)
         IN  b[At(c, k, d)].value
    ELSE NULL

MapGet(k) == Lookup(cap, bks, k)

Init ==
    /\ cap = InitCap
    /\ bks = Empty(InitCap)
    /\ len = 0
    /\ written = [k \in Keys |-> NULL]

\* Mutant of Insert: the element is not counted.
InsertUncounted(c, b, k, v) ==
    /\ \E d \in Targets(c, b, k) :
          bks' = [b EXCEPT ![At(c, k, d)] = [key |-> k, value |-> v]]
    /\ cap' = c
    /\ len' = len
    /\ written' = [written EXCEPT ![k] = v]

\* Mutant of Insert: the new capacity is forgotten.
InsertOldCap(c, b, k, v) ==
    /\ \E d \in Targets(c, b, k) :
          bks' = [b EXCEPT ![At(c, k, d)] = [key |-> k, value |-> v]]
    /\ cap' = cap
    /\ len' = len + 1
    /\ written' = [written EXCEPT ![k] = v]

\* map_set in a table of c buckets b.  A key that is overwritten counts, too.
Insert(c, b, k, v) ==
    /\ \E d \in Targets(c, b, k) :
          bks' = [b EXCEPT ![At(c, k, d)] = [key |-> k, value |-> v]]
    /\ cap' = c
    /\ len' = len + 1
    /\ written' = [written EXCEPT ![k] = v]

\* map_realloc: the loop that moves the nodes looks for them in the new
\* buckets, which are all NULL (line 63), and so moves none of them; `len'
\* stays.
Grown(c) == Empty(2 * c)

MapSetInPlace(k, v) ==
    /\ len < Factor(cap)
    /\ Insert(cap, bks, k, v)

MapSetGrowing(k, v) ==
    /\ len >= Factor(cap)
    /\ Insert(2 * cap, Grown(cap), k, v)

Next ==
    /\ len < MaxSets
    /\ \E k \in Keys, v \in Values : MapSetInPlace(k, v) \/ MapSetGrowing(k, v)

Spec == Init /\ [][Next]_vars

----------------------------------------------------------------------------
(* What the table promises.                                                *)

Dict == INSTANCE Dictionary WITH store <- [k \in Keys |-> MapGet(k)]

\* map_get answers like the abstract dictionary: the value set last, or none
\* at all; never a stale value, and never the value of another key.
ImplementsDictionary == Dict!Spec

----------------------------------------------------------------------------
(* Properties.                                                             *)

\* Types, and the capacity is large enough for the factor to be below it.
TypeOK ==
    /\ cap \in Nat /\ cap >= 4
    /\ bks \in [Buckets(cap) -> Node \cup {NULL}]
    /\ len \in Nat
    /\ written \in [Keys -> Values \cup {NULL}]

\* No key is in two buckets.
KeyUnique ==
    \A i, j \in Occupied : bks[i].key = bks[j].key => i = j

\* From the home of a key to the bucket it is in, no bucket is free: the
\* search of map_set, which stops at a free bucket, cannot miss it.
ProbeChain ==
    \A k \in Keys : \A d, e \in Buckets(cap) :
        HasKey(cap, bks, k, d) /\ e < d => bks[At(cap, k, e)] # NULL

\* map_set always finds a bucket, so it never returns -1: in place as long
\* as the factor is not reached, and in the doubled table otherwise.
AlwaysRoom ==
    len < Factor(cap) =>
        \A k \in Keys : \E d \in Buckets(cap) : Fits(cap, bks, k, d)

\* map_iter stops after `len' elements and still passes over every one:
\* overwriting and growing never make `len' less than their number.
Visited == {i \in Occupied : \/ \A j \in Occupied : i <= j
                             \/ Cardinality({j \in Occupied : j < i}) < len}

IterVisitsAll == Visited = Occupied

\* "return pointer to the value, NULL if no such key" (map.h:39).
GetReturnsLast == \A k \in Keys : MapGet(k) = written[k]
=============================================================================
