-------------------------------- MODULE Lru ---------------------------------
(***************************************************************************)
(* The cache of responses a worker keeps (src/src/lru.cc): a hash table of *)
(* nodes with linear probing, and a list of the same nodes in the order    *)
(* they were stored.  When a new response does not fit, nodes are released *)
(* from the tail of the list.  The table grows when the cache holds as     *)
(* many BYTES as the table has buckets.                                    *)
(*                                                                         *)
(* The worker's loop (process.cc:297) looks a request up and stores it     *)
(* only when it is missing, so that is the one way the cache is used.      *)
(***************************************************************************)
EXTENDS Integers, Sequences, FiniteSets

CONSTANTS
    Keys,      \* the requests
    Values,    \* the responses
    Size,      \* str_len of each response
    Hash,      \* str_hash of each request
    NULL,      \* no node, no value
    Cap,       \* capacity in bytes (256 KiB in the worker)
    HashInit,  \* LRU_HASH_INIT_SIZE, a power of two
    MaxStores  \* bound on the number of calls of lru_set

ASSUME LruAssumption ==
    /\ Size \in [Values -> Nat \ {0}]
    /\ Hash \in [Keys -> Nat]
    /\ Cap \in Nat \ {0}
    /\ HashInit \in Nat \ {0}
    /\ NULL \notin Values
    /\ NULL \notin [key : Keys, value : Values]

VARIABLES
    hashCap,   \* number of buckets
    bks,       \* the buckets: a node or NULL
    list,      \* the list, from head to tail
    len,       \* bytes cached
    stores     \* calls of lru_set so far

vars == <<hashCap, bks, list, len, stores>>

Node       == [key : Keys, value : Values]
Buckets(c) == 0 .. c - 1

\* The bucket d steps after the home of key k in a ring of c.
At(c, k, d) ==
    LET i == (Hash[k] % c) + d IN IF i < c THEN i ELSE i - c

\* Mutant of Indexes: the search ends at the first free bucket, as map_get's.
IndexesUntilFree(b, c, k) ==
    {At(c, k, d) : d \in {d \in Buckets(c) :
        /\ \A e \in 0 .. d : b[At(c, k, e)] # NULL
        /\ b[At(c, k, d)].key = k}}

\* lru_hash_index: the bucket that has the key; free buckets are passed over.
Indexes(b, c, k) == {i \in Buckets(c) : b[i] # NULL /\ b[i].key = k}

Lookup(b, c, k) ==
    IF Indexes(b, c, k) = {} THEN NULL
    ELSE LET d == CHOOSE d \in Buckets(c) :
                    /\ At(c, k, d) \in Indexes(b, c, k)
                    /\ \A e \in Buckets(c) :
                         e < d => At(c, k, e) \notin Indexes(b, c, k)
         IN  b[At(c, k, d)].value

\* lru_hash_set_actual: the first bucket that is free or has the key.
Targets(b, c, k) ==
    {d \in Buckets(c) :
        LET Fits(e) == b[At(c, k, e)] = NULL \/ b[At(c, k, e)].key = k
        IN  Fits(d) /\ \A e \in Buckets(c) : e < d => ~Fits(e)}

\* How many bytes the nodes of s have; each is a pair of a place in s and an
\* offset in the response there.
Bytes(s) == Cardinality(UNION {{i} \X (1 .. Size[s[i].value]) : i \in DOMAIN s})

\* Mutant of Kept: one node makes room for any response.
KeptButOne(need) == SubSeq(list, 1, Len(list) - 1)

\* lru_release: the nodes kept when `need' bytes are wanted.  From the tail
\* on nodes go until enough bytes are released or none is left.
Kept(need) ==
    LET Enough(n) == Bytes(SubSeq(list, n + 1, Len(list))) >= need
    IN  IF need = 0 THEN list
        ELSE IF \E n \in 0 .. Len(list) : Enough(n)
        THEN SubSeq(list, 1, CHOOSE n \in 0 .. Len(list) :
                Enough(n) /\ \A m \in 0 .. Len(list) : m > n => ~Enough(m))
        ELSE <<>>

\* Mutant of Without: the nodes leave the list and not the table.
WithoutNone(b, c, gone) == b

\* lru_hash_release of every node that goes.
Without(b, c, gone) ==
    [i \in Buckets(c) |-> IF \E j \in DOMAIN gone : b[i] # NULL /\ b[i].key = gone[j].key
                          THEN NULL ELSE b[i]]

\* lru_hash_realloc: the nodes move in the order of their buckets, each to
\* the first bucket free on its ring; at most n of them (`cnt >= lru->len').
Moved(b, c, n) ==
    {i \in Buckets(c) : /\ b[i] # NULL
                        /\ Cardinality({j \in Buckets(c) : j < i /\ b[j] # NULL}) < n}

Rehashed(b, c, n) ==
    LET M == Moved(b, c, n)
        FirstFree(i, to, taken) ==
            \E d \in Buckets(2 * c) :
                /\ to = At(2 * c, b[i].key, d)
                /\ to \notin taken
                /\ \A e \in Buckets(2 * c) :
                     e < d => At(2 * c, b[i].key, e) \in taken
        to == CHOOSE f \in [M -> Buckets(2 * c)] :
                \A i \in M : FirstFree(i, f[i], {f[j] : j \in {m \in M : m < i}})
    IN  [x \in Buckets(2 * c) |-> IF \E i \in M : to[i] = x
                                 THEN b[CHOOSE i \in M : to[i] = x] ELSE NULL]

\* Mutant of Grows.
GrowsLate(n) == n > hashCap

\* lru_hash_set grows the table when n bytes are cached.
Grows(n) == n >= hashCap

Init ==
    /\ hashCap = HashInit
    /\ bks = [i \in Buckets(HashInit) |-> NULL]
    /\ list = <<>>
    /\ len = 0
    /\ stores = 0

\* lru_hash_set and lru_list_set of a new node, when `kept' is the list and
\* n bytes are cached.
Put(k, v, b, kept, n) ==
    LET node == [key |-> k, value |-> v]
        c    == IF Grows(n) THEN 2 * hashCap ELSE hashCap
        tab  == IF Grows(n) THEN Rehashed(b, hashCap, n) ELSE b
    IN  /\ hashCap' = c
        /\ \E d \in Targets(tab, c, k) : bks' = [tab EXCEPT ![At(c, k, d)] = node]
        /\ list' = IF n = 0 THEN <<node>> ELSE <<node>> \o kept
        /\ len' = n + Size[v]
        /\ stores' = stores + 1

Miss(k) == stores < MaxStores /\ Lookup(bks, hashCap, k) = NULL

\* lru_set of a response that fits.
StoreFits(k, v) ==
    /\ Miss(k)
    /\ Size[v] + len < Cap
    /\ Put(k, v, bks, list, len)

\* Mutant of StoreReleasing: the bytes released are not taken off `len'.
StoreUncounted(k, v) ==
    /\ Miss(k)
    /\ Size[v] + len >= Cap
    /\ LET kept == Kept(Size[v])
           gone == SubSeq(list, Len(kept) + 1, Len(list))
       IN  Put(k, v, Without(bks, hashCap, gone), kept, len)

\* lru_set of one that does not: room is made for as many bytes as it has.
StoreReleasing(k, v) ==
    /\ Miss(k)
    /\ Size[v] + len >= Cap
    /\ LET kept == Kept(Size[v])
           gone == SubSeq(list, Len(kept) + 1, Len(list))
       IN  Put(k, v, Without(bks, hashCap, gone), kept, len - Bytes(gone))

Next == \E k \in Keys, v \in Values : StoreFits(k, v) \/ StoreReleasing(k, v)

Spec == Init /\ [][Next]_vars

----------------------------------------------------------------------------
(* What the cache promises.                                                *)

Cache == INSTANCE FifoCache WITH
    entries <- [i \in DOMAIN list |-> <<list[i].key, list[i].value>>],
    answer  <- [k \in Keys |-> Lookup(bks, hashCap, k)]

\* Every look-up answers as the list of entries says, entries leave from the
\* tail only, and only when the new one does not fit.
ImplementsFifoCache == Cache!Spec

----------------------------------------------------------------------------
(* Properties.                                                             *)

\* The table and the list hold the same nodes, and no key twice: releasing,
\* probing over the holes it leaves, and growing lose and duplicate nothing.
SameNodes ==
    /\ {bks[i] : i \in Buckets(hashCap)} \ {NULL} = {list[i] : i \in DOMAIN list}
    /\ \A i, j \in Buckets(hashCap) :
          bks[i] # NULL /\ bks[j] # NULL /\ bks[i].key = bks[j].key => i = j
    /\ \A i, j \in DOMAIN list : list[i].key = list[j].key => i = j

\* `len' is the number of bytes in the list, and 0 only when it is empty: on
\* that lru_list_set decides whether there is a list to link the node into.
LenIsBytes == len = Bytes(list)

\* The cache stays below its capacity, unless a single response exceeds it
\* ("what if the file size bigger than the cache cap", lru.cc:162).
Bounded == len < Cap \/ Len(list) = 1

\* Although the table grows by bytes and not by nodes, lru_hash_set always
\* finds a bucket: there are never more nodes than buckets, and one is free
\* when the table is not about to grow.
TableHasRoom ==
    /\ Len(list) <= hashCap
    /\ ~Grows(len) => Len(list) < hashCap
=============================================================================
