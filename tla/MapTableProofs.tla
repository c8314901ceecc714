--------------------------- MODULE MapTableProofs ---------------------------
(***************************************************************************)
(* Theorems about the hash table, for every set of keys, every hash        *)
(* function and every initial capacity of at least four buckets.           *)
(***************************************************************************)
EXTENDS MapTable, FiniteSetTheorems, TLAPS

----------------------------------------------------------------------------
(* The ring of buckets.  From the home of a key the distances 0 .. c - 1    *)
(* lead to every bucket exactly once.                                       *)

Cap == {c \in Nat : c >= 4}

LEMMA HomeType ==
    ASSUME NEW c \in Cap, NEW k \in Keys
    PROVE  Hash[k] % c \in Buckets(c)
  <1>1. Hash[k] \in Nat /\ c \in Nat /\ c > 0
    BY TableAssumption DEF Cap
  <1> QED
    BY <1>1 DEF Buckets

LEMMA AtType ==
    ASSUME NEW c \in Cap, NEW k \in Keys, NEW d \in Buckets(c)
    PROVE  At(c, k, d) \in Buckets(c)
  <1>1. PICK h \in Buckets(c) : h = Hash[k] % c
    BY HomeType
  <1> QED
    BY <1>1 DEF At, Buckets, Cap

LEMMA AtInjective ==
    ASSUME NEW c \in Cap, NEW k \in Keys,
           NEW d \in Buckets(c), NEW e \in Buckets(c),
           At(c, k, d) = At(c, k, e)
    PROVE  d = e
  <1>1. PICK h \in Buckets(c) : h = Hash[k] % c
    BY HomeType
  <1> QED
    BY <1>1 DEF At, Buckets, Cap

LEMMA AtSurjective ==
    ASSUME NEW c \in Cap, NEW k \in Keys, NEW i \in Buckets(c)
    PROVE  \E d \in Buckets(c) : At(c, k, d) = i
  <1>1. PICK h \in Buckets(c) : h = Hash[k] % c
    BY HomeType
  <1>2. PICK d \in Buckets(c) : d = IF i >= h THEN i - h ELSE i - h + c
    BY <1>1 DEF Buckets, Cap
  <1> QED
    BY <1>1, <1>2 DEF At, Buckets, Cap

LEMMA FactorBelow ==
    ASSUME NEW c \in Cap
    PROVE  Factor(c) \in Nat /\ 0 < Factor(c) /\ Factor(c) < c
  BY DEF Factor, Cap

LEMMA NodeNotNull ==
    ASSUME NEW k \in Keys, NEW v \in Values
    PROVE  [key |-> k, value |-> v] \in Node /\ [key |-> k, value |-> v] # NULL
  BY TableAssumption DEF Node

----------------------------------------------------------------------------
(* Type correctness.                                                       *)

\* A table a call of map_set inserts into: the old one or the grown one.
Table(c) == [Buckets(c) -> Node \cup {NULL}]

LEMMA TypeInsert ==
    ASSUME TypeOK, NEW c \in Cap, NEW b \in Table(c),
           NEW k \in Keys, NEW v \in Values, Insert(c, b, k, v)
    PROVE  TypeOK'
  <1>1. PICK d \in Targets(c, b, k) :
          bks' = [b EXCEPT ![At(c, k, d)] = [key |-> k, value |-> v]]
    BY DEF Insert
  <1>2. bks' \in Table(c)
    BY <1>1, NodeNotNull DEF Table
  <1> QED
    BY <1>2 DEF TypeOK, Insert, Cap, Table

LEMMA CapType == TypeOK => cap \in Cap /\ 2 * cap \in Cap
  BY DEF TypeOK, Cap

LEMMA GrownType == ASSUME NEW c \in Cap PROVE Grown(c) \in Table(2 * c)
  BY DEF Grown, Empty, Table

LEMMA TypeNext == TypeOK /\ [Next]_vars => TypeOK'
  <1> SUFFICES ASSUME TypeOK, [Next]_vars PROVE TypeOK'
    OBVIOUS
  <1>1. CASE UNCHANGED vars
    BY <1>1 DEF TypeOK, vars
  <1>2. ASSUME NEW k \in Keys, NEW v \in Values, MapSetInPlace(k, v)
        PROVE  TypeOK'
    BY <1>2, TypeInsert, CapType DEF MapSetInPlace, TypeOK, Table
  <1>3. ASSUME NEW k \in Keys, NEW v \in Values, MapSetGrowing(k, v)
        PROVE  TypeOK'
    BY <1>3, TypeInsert, CapType, GrownType DEF MapSetGrowing
  <1> QED
    BY <1>1, <1>2, <1>3 DEF Next

\* The table keeps its types, whatever is set in it.
THEOREM TypeCorrect == Spec => []TypeOK
  <1>1. Init => TypeOK
    BY TableAssumption DEF Init, TypeOK, Empty
  <1> QED
    BY <1>1, TypeNext, PTL DEF Spec

----------------------------------------------------------------------------
(* Keys are unique.  KeyUnique alone is not inductive: it needs ProbeChain, *)
(* without which the search of map_set could stop at a free bucket before   *)
(* the bucket its key is in.  Both are stated of any table, for map_set     *)
(* inserts into the old buckets or into grown ones.                         *)

Chain(c, b) ==
    \A k \in Keys : \A d, e \in Buckets(c) :
        HasKey(c, b, k, d) /\ e < d => b[At(c, k, e)] # NULL

Unique(c, b) ==
    \A i, j \in Buckets(c) :
        b[i] # NULL /\ b[j] # NULL /\ b[i].key = b[j].key => i = j

LEMMA ChainIs == ProbeChain <=> Chain(cap, bks)
  BY DEF ProbeChain, Chain

LEMMA UniqueIs == KeyUnique <=> Unique(cap, bks)
  BY DEF KeyUnique, Unique, Occupied

\* What inserting node n at distance t of key k does to a table.
LEMMA InsertChain ==
    ASSUME NEW c \in Cap, NEW b \in Table(c), Chain(c, b),
           NEW k \in Keys, NEW v \in Values, NEW t \in Targets(c, b, k),
           NEW a \in Table(c),
           a = [b EXCEPT ![At(c, k, t)] = [key |-> k, value |-> v]]
    PROVE  Chain(c, a)
  <1> SUFFICES ASSUME NEW x \in Keys, NEW d \in Buckets(c),
                      NEW e \in Buckets(c), HasKey(c, a, x, d), e < d
               PROVE  a[At(c, x, e)] # NULL
    BY DEF Chain
  <1>1. t \in Buckets(c) /\ At(c, k, t) \in Buckets(c)
        /\ At(c, x, d) \in Buckets(c) /\ At(c, x, e) \in Buckets(c)
    BY AtType DEF Targets
  <1>2. \A i \in Buckets(c) : b[i] # NULL => a[i] # NULL
    BY NodeNotNull DEF Table
  <1>3. CASE At(c, x, d) = At(c, k, t)
    <2>1. x = k
      BY <1>1, <1>3 DEF HasKey, Table
    <2>2. d = t
      BY <1>1, <1>3, <2>1, AtInjective
    <2>3. b[At(c, x, e)] # NULL
      BY <2>1, <2>2 DEF Targets, Fits
    <2> QED
      BY <1>1, <1>2, <2>3
  <1>4. CASE At(c, x, d) # At(c, k, t)
    <2>1. HasKey(c, b, x, d)
      BY <1>1, <1>4 DEF HasKey, Table
    <2> QED
      BY <1>1, <1>2, <2>1 DEF Chain
  <1> QED
    BY <1>3, <1>4

LEMMA InsertUnique ==
    ASSUME NEW c \in Cap, NEW b \in Table(c), Chain(c, b), Unique(c, b),
           NEW k \in Keys, NEW v \in Values, NEW t \in Targets(c, b, k),
           NEW a \in Table(c),
           a = [b EXCEPT ![At(c, k, t)] = [key |-> k, value |-> v]]
    PROVE  Unique(c, a)
  <1> DEFINE s == At(c, k, t)
  <1>1. t \in Buckets(c) /\ s \in Buckets(c)
    BY AtType DEF Targets
  <1>2. ASSUME NEW j \in Buckets(c), b[j] # NULL, b[j].key = k
        PROVE  j = s
    <2>1. PICK d \in Buckets(c) : At(c, k, d) = j
      BY AtSurjective
    <2>2. HasKey(c, b, k, d) /\ Fits(c, b, k, d)
      BY <1>2, <2>1 DEF HasKey, Fits
    <2>3. ~(d < t)
      BY <2>2 DEF Targets
    <2>4. CASE d = t
      BY <2>1, <2>4
    <2>5. CASE t < d
      <3>1. b[s] # NULL
        BY <1>1, <2>2, <2>5 DEF Chain
      <3>2. b[s].key = k
        BY <3>1 DEF Targets, Fits
      <3> QED
        BY <1>1, <1>2, <3>1, <3>2 DEF Unique
    <2> QED
      BY <1>1, <2>3, <2>4, <2>5 DEF Buckets
  <1>3. \A j \in Buckets(c) \ {s} : a[j] = b[j]
    BY DEF Table
  <1>4. a[s].key = k
    BY <1>1 DEF Table
  <1> HIDE DEF s
  <1> SUFFICES ASSUME NEW i \in Buckets(c), NEW j \in Buckets(c),
                      a[i] # NULL, a[j] # NULL, a[i].key = a[j].key
               PROVE  i = j
    BY DEF Unique
  <1>5. CASE i = s \/ j = s
    BY <1>2, <1>3, <1>4, <1>5
  <1>6. CASE i # s /\ j # s
    BY <1>3, <1>6 DEF Unique
  <1> QED
    BY <1>5, <1>6

LEMMA EmptyIsFine ==
    ASSUME NEW c \in Cap
    PROVE  /\ Empty(c) \in Table(c)
           /\ Chain(c, Empty(c))
           /\ Unique(c, Empty(c))
  <1>1. Empty(c) \in Table(c) /\ \A i \in Buckets(c) : Empty(c)[i] = NULL
    BY DEF Empty, Table
  <1> QED
    BY <1>1, AtType DEF Chain, HasKey, Unique

KeyInv == TypeOK /\ ProbeChain /\ KeyUnique

LEMMA KeyInsert ==
    ASSUME NEW c \in Cap, NEW b \in Table(c), Chain(c, b), Unique(c, b),
           NEW k \in Keys, NEW v \in Values, Insert(c, b, k, v)
    PROVE  Chain(cap', bks') /\ Unique(cap', bks')
  <1>1. PICK t \in Targets(c, b, k) :
          bks' = [b EXCEPT ![At(c, k, t)] = [key |-> k, value |-> v]]
    BY DEF Insert
  <1>2. bks' \in Table(c)
    BY <1>1, NodeNotNull DEF Table
  <1> QED
    BY <1>1, <1>2, InsertChain, InsertUnique DEF Insert

LEMMA KeyNext == KeyInv /\ [Next]_vars => KeyInv'
  <1> SUFFICES ASSUME KeyInv, [Next]_vars PROVE KeyInv'
    OBVIOUS
  <1>1. TypeOK'
    BY TypeNext DEF KeyInv
  <1>2. Chain(cap, bks) /\ Unique(cap, bks) /\ cap \in Cap
        /\ 2 * cap \in Cap /\ bks \in Table(cap)
    BY ChainIs, UniqueIs, CapType DEF KeyInv, TypeOK, Table
  <1>3. Chain(cap', bks') /\ Unique(cap', bks')
    <2>1. CASE UNCHANGED vars
      BY <1>2, <2>1 DEF vars
    <2>2. ASSUME NEW k \in Keys, NEW v \in Values, MapSetInPlace(k, v)
          PROVE  Chain(cap', bks') /\ Unique(cap', bks')
      BY <1>2, <2>2, KeyInsert DEF MapSetInPlace
    <2>3. ASSUME NEW k \in Keys, NEW v \in Values, MapSetGrowing(k, v)
          PROVE  Chain(cap', bks') /\ Unique(cap', bks')
      BY <1>2, <2>3, KeyInsert, EmptyIsFine DEF MapSetGrowing, Grown
    <2> QED
      BY <2>1, <2>2, <2>3 DEF Next
  <1>4. (ProbeChain <=> Chain(cap, bks))' /\ (KeyUnique <=> Unique(cap, bks))'
    BY ChainIs, UniqueIs, PTL
  <1> QED
    BY <1>1, <1>3, <1>4 DEF KeyInv

LEMMA KeyInvCorrect == Spec => []KeyInv
  <1>1. Init => KeyInv
    <2> SUFFICES ASSUME Init PROVE KeyInv
      OBVIOUS
    <2>1. TypeOK
      BY TableAssumption DEF Init, TypeOK, Empty
    <2>2. InitCap \in Cap
      BY TableAssumption DEF Cap
    <2> QED
      BY <2>1, <2>2, EmptyIsFine, ChainIs, UniqueIs DEF Init, KeyInv
  <1> QED
    BY <1>1, KeyNext, PTL DEF Spec

\* map_set never stores a key twice: whatever the hash function, the search
\* that stops at the first free bucket sees every bucket the key could be in.
THEOREM KeyUniqueHolds == Spec => []KeyUnique
  <1>1. KeyInv => KeyUnique
    BY DEF KeyInv
  <1> QED
    BY <1>1, KeyInvCorrect, PTL

----------------------------------------------------------------------------
(* Room.  `len' counts calls, so it never falls below the number of buckets *)
(* in use; below the factor that leaves a bucket free.                      *)

Used(c, b) == {i \in Buckets(c) : b[i] # NULL}

LEMMA BucketsFinite ==
    ASSUME NEW c \in Cap
    PROVE  IsFiniteSet(Buckets(c)) /\ Cardinality(Buckets(c)) = c
  BY FS_Interval DEF Buckets, Cap

LEMMA UsedFinite ==
    ASSUME NEW c \in Cap, NEW b
    PROVE  IsFiniteSet(Used(c, b)) /\ Cardinality(Used(c, b)) \in Nat
  <1>1. Used(c, b) \subseteq Buckets(c)
    BY DEF Used
  <1>2. IsFiniteSet(Used(c, b))
    BY <1>1, BucketsFinite, FS_Subset
  <1> QED
    BY <1>2, FS_CardinalityType

CountInv == TypeOK /\ Cardinality(Occupied) <= len

LEMMA CountInsert ==
    ASSUME NEW c \in Cap, NEW b \in Table(c), NEW n \in Nat,
           Cardinality(Used(c, b)) <= n, len = n,
           NEW k \in Keys, NEW v \in Values, Insert(c, b, k, v)
    PROVE  Cardinality(Used(cap', bks')) <= len'
  <1>1. PICK t \in Targets(c, b, k) :
          bks' = [b EXCEPT ![At(c, k, t)] = [key |-> k, value |-> v]]
    BY DEF Insert
  <1> DEFINE s == At(c, k, t)
             U == Used(c, b)
             W == Used(c, bks')
  <1>2. W \subseteq U \cup {s}
    BY <1>1 DEF Used, Table
  <1>3. /\ IsFiniteSet(U \cup {s})
        /\ Cardinality(U \cup {s}) \in Nat
        /\ Cardinality(U \cup {s}) <= Cardinality(U) + 1
    <2>1. IsFiniteSet(U) /\ Cardinality(U) \in Nat
      BY UsedFinite
    <2> HIDE DEF U, s
    <2>2. IsFiniteSet(U \cup {s})
      BY <2>1, FS_AddElement
    <2>3. Cardinality(U \cup {s}) = IF s \in U THEN Cardinality(U)
                                              ELSE Cardinality(U) + 1
      BY <2>1, FS_AddElement
    <2> QED
      BY <2>1, <2>2, <2>3
  <1>4. Cardinality(W) <= Cardinality(U \cup {s})
    <2> HIDE DEF U, s, W
    <2> QED
      BY <1>2, <1>3, FS_Subset
  <1>5. Cardinality(W) \in Nat /\ Cardinality(U) \in Nat
    BY UsedFinite
  <1>6. cap' = c /\ len' = n + 1
    BY DEF Insert
  <1>7. Cardinality(W) <= n + 1
    <2> HIDE DEF U, s, W
    <2> QED
      BY <1>3, <1>4, <1>5 DEF U
  <1> QED
    BY <1>6, <1>7

LEMMA CountNext == CountInv /\ [Next]_vars => CountInv'
  <1> SUFFICES ASSUME CountInv, [Next]_vars PROVE CountInv'
    OBVIOUS
  <1>1. TypeOK'
    BY TypeNext DEF CountInv
  <1>2. /\ Cardinality(Used(cap, bks)) <= len /\ len \in Nat
        /\ cap \in Cap /\ 2 * cap \in Cap /\ bks \in Table(cap)
    BY CapType DEF CountInv, Occupied, Used, TypeOK, Table
  <1>3. Cardinality(Used(cap', bks')) <= len'
    <2>1. CASE UNCHANGED vars
      BY <1>2, <2>1 DEF vars
    <2>2. ASSUME NEW k \in Keys, NEW v \in Values, MapSetInPlace(k, v)
          PROVE  Cardinality(Used(cap', bks')) <= len'
      BY <1>2, <2>2, CountInsert DEF MapSetInPlace
    <2>3. ASSUME NEW k \in Keys, NEW v \in Values, MapSetGrowing(k, v)
          PROVE  Cardinality(Used(cap', bks')) <= len'
      <3>1. Used(2 * cap, Grown(cap)) = {}
        BY DEF Used, Grown, Empty
      <3>2. Cardinality(Used(2 * cap, Grown(cap))) <= len
        BY <1>2, <3>1, FS_EmptySet
      <3> QED
        BY <1>2, <2>3, <3>2, CountInsert, GrownType DEF MapSetGrowing
    <2> QED
      BY <2>1, <2>2, <2>3 DEF Next
  <1> QED
    BY <1>1, <1>3 DEF CountInv, Occupied, Used

LEMMA CountInvCorrect == Spec => []CountInv
  <1>1. Init => CountInv
    <2> SUFFICES ASSUME Init PROVE CountInv
      OBVIOUS
    <2>1. TypeOK
      BY TableAssumption DEF Init, TypeOK, Empty
    <2>2. Occupied = {}
      BY DEF Init, Occupied, Empty
    <2> QED
      BY <2>1, <2>2, FS_EmptySet DEF CountInv, Init
  <1> QED
    BY <1>1, CountNext, PTL DEF Spec

\* map_set never fails: below the factor there is a free bucket on the ring
\* of every key, so map_set_actual never returns -1.
THEOREM AlwaysRoomHolds == Spec => []AlwaysRoom
  <1>1. CountInv => AlwaysRoom
    <2> SUFFICES ASSUME CountInv, len < Factor(cap), NEW k \in Keys
                 PROVE  \E d \in Buckets(cap) : Fits(cap, bks, k, d)
      BY DEF AlwaysRoom
    <2>1. cap \in Cap
      BY CapType DEF CountInv
    <2>2. Cardinality(Occupied) < cap
      <3>1. Cardinality(Occupied) \in Nat
        BY <2>1, UsedFinite DEF Used, Occupied
      <3> QED
        BY <2>1, <3>1, FactorBelow DEF CountInv, TypeOK, Cap
    <2>3. PICK i \in Buckets(cap) : bks[i] = NULL
      <3>1. Occupied # Buckets(cap)
        BY <2>1, <2>2, BucketsFinite DEF Cap
      <3> QED
        BY <3>1 DEF Occupied
    <2>4. PICK d \in Buckets(cap) : At(cap, k, d) = i
      BY <2>1, AtSurjective
    <2> QED
      BY <2>3, <2>4 DEF Fits
  <1> QED
    BY <1>1, CountInvCorrect, PTL

\* map_iter passes over every element before its count reaches `len'.
THEOREM IterVisitsAllHolds == Spec => []IterVisitsAll
  <1>1. CountInv => IterVisitsAll
    <2> SUFFICES ASSUME CountInv, NEW i \in Occupied
                 PROVE  Cardinality({j \in Occupied : j < i}) < len
      BY DEF IterVisitsAll, Visited
    <2> DEFINE B == {j \in Occupied : j < i}
    <2>1. IsFiniteSet(Occupied) /\ Cardinality(Occupied) \in Nat
      BY CapType, UsedFinite DEF CountInv, Used, Occupied
    <2>2. B \in SUBSET Occupied /\ B # Occupied
      BY DEF Occupied, Buckets
    <2>3. IsFiniteSet(B) /\ Cardinality(B) <= Cardinality(Occupied)
          /\ Cardinality(B) # Cardinality(Occupied)
      BY <2>1, <2>2, FS_Subset
    <2>4. Cardinality(B) \in Nat
      BY <2>3, FS_CardinalityType
    <2> HIDE DEF B
    <2>5. Cardinality(B) < len
      BY <2>1, <2>3, <2>4 DEF CountInv, TypeOK
    <2> QED
      BY <2>5 DEF B
  <1> QED
    BY <1>1, CountInvCorrect, PTL

----------------------------------------------------------------------------
(* Lookups.  With unique keys the first bucket map_getref meets is the only *)
(* one that has the key, so map_get returns what map_set stored last.       *)

LEMMA LookupFinds ==
    ASSUME NEW c \in Cap, NEW b \in Table(c), Unique(c, b),
           NEW k \in Keys, NEW i \in Buckets(c), b[i] # NULL, b[i].key = k
    PROVE  Lookup(c, b, k) = b[i].value
  <1>1. PICK d \in Buckets(c) : At(c, k, d) = i
    BY AtSurjective
  <1>2. HasKey(c, b, k, d)
    BY <1>1 DEF HasKey
  <1>3. \A e \in Buckets(c) : HasKey(c, b, k, e) => At(c, k, e) = i
    BY AtType DEF HasKey, Unique
  <1>4. \A e \in Buckets(c) : HasKey(c, b, k, e) => e = d
    BY <1>1, <1>3, AtInjective
  <1>5. \A e \in Buckets(c) : e < d => ~HasKey(c, b, k, e)
    BY <1>4 DEF Buckets, Cap
  <1> DEFINE f == CHOOSE x \in Buckets(c) :
                    /\ HasKey(c, b, k, x)
                    /\ \A e \in Buckets(c) : e < x => ~HasKey(c, b, k, e)
  <1>6. f \in Buckets(c) /\ HasKey(c, b, k, f)
    BY <1>2, <1>5
  <1>7. Lookup(c, b, k) = b[At(c, k, f)].value
    BY <1>2 DEF Lookup
  <1> QED
    BY <1>3, <1>6, <1>7

LEMMA LookupMisses ==
    ASSUME NEW c \in Cap, NEW b \in Table(c), NEW k \in Keys,
           \A i \in Buckets(c) : b[i] # NULL => b[i].key # k
    PROVE  Lookup(c, b, k) = NULL
  BY AtType DEF Lookup, HasKey

LEMMA LookupAfterInsert ==
    ASSUME NEW c \in Cap, NEW b \in Table(c), Chain(c, b), Unique(c, b),
           NEW k \in Keys, NEW v \in Values, NEW t \in Targets(c, b, k),
           NEW a \in Table(c),
           a = [b EXCEPT ![At(c, k, t)] = [key |-> k, value |-> v]],
           NEW x \in Keys
    PROVE  Lookup(c, a, x) = IF x = k THEN v ELSE Lookup(c, b, x)
  <1> DEFINE s == At(c, k, t)
  <1>1. s \in Buckets(c) /\ (b[s] = NULL \/ b[s].key = k)
    BY AtType DEF Targets, Fits
  <1>2. Unique(c, a)
    BY InsertUnique
  <1>3. a[s] # NULL /\ a[s].key = k /\ a[s].value = v
    BY <1>1, NodeNotNull DEF Table
  <1>4. \A i \in Buckets(c) \ {s} : a[i] = b[i]
    BY DEF Table
  <1> HIDE DEF s
  <1>5. CASE x = k
    BY <1>1, <1>2, <1>3, <1>5, LookupFinds
  <1>6. CASE x # k /\ \E i \in Buckets(c) : b[i] # NULL /\ b[i].key = x
    <2>1. PICK i \in Buckets(c) : b[i] # NULL /\ b[i].key = x
      BY <1>6
    <2>2. a[i] = b[i]
      BY <1>1, <1>4, <1>6, <2>1
    <2>3. Lookup(c, a, x) = a[i].value
      BY <1>2, <2>1, <2>2, LookupFinds
    <2>4. Lookup(c, b, x) = b[i].value
      BY <2>1, LookupFinds
    <2> QED
      BY <1>6, <2>2, <2>3, <2>4
  <1>7. CASE x # k /\ \A i \in Buckets(c) : b[i] # NULL => b[i].key # x
    <2>1. \A i \in Buckets(c) : a[i] # NULL => a[i].key # x
      BY <1>3, <1>4, <1>7
    <2>2. Lookup(c, a, x) = NULL /\ Lookup(c, b, x) = NULL
      BY <1>7, <2>1, LookupMisses
    <2> QED
      BY <1>7, <2>2
  <1> QED
    BY <1>5, <1>6, <1>7

LEMMA LookupEmpty ==
    ASSUME NEW c \in Cap, NEW x \in Keys
    PROVE  Lookup(c, Empty(c), x) = NULL
  BY EmptyIsFine, LookupMisses DEF Empty

Store == [k \in Keys |-> MapGet(k)]

LEMMA DictInsert ==
    ASSUME NEW c \in Cap, NEW b \in Table(c), Chain(c, b), Unique(c, b),
           NEW k \in Keys, NEW v \in Values, Insert(c, b, k, v)
    PROVE  Store' = [x \in Keys |-> IF x = k THEN v ELSE Lookup(c, b, x)]
  <1>1. PICK t \in Targets(c, b, k) :
          bks' = [b EXCEPT ![At(c, k, t)] = [key |-> k, value |-> v]]
    BY DEF Insert
  <1>2. bks' \in Table(c) /\ cap' = c
    BY <1>1, NodeNotNull DEF Table, Insert
  <1>3. \A x \in Keys :
          Lookup(c, bks', x) = IF x = k THEN v ELSE Lookup(c, b, x)
    <2> DEFINE a == [b EXCEPT ![At(c, k, t)] = [key |-> k, value |-> v]]
    <2>1. a \in Table(c)
      BY <1>1, <1>2
    <2> SUFFICES ASSUME NEW x \in Keys
                 PROVE  Lookup(c, a, x) = IF x = k THEN v ELSE Lookup(c, b, x)
      BY <1>1
    <2> QED
      BY <2>1, LookupAfterInsert
  <1> QED
    BY <1>2, <1>3 DEF Store, MapGet

\* The table implements the abstract dictionary: map_get never returns the
\* value of another key nor one that has been replaced, and a call of map_set
\* forgets all other keys or none of them.
THEOREM TableImplementsDictionary == Spec => ImplementsDictionary
  <1>1. Init => Dict!Init
    <2> SUFFICES ASSUME Init PROVE Dict!Init
      OBVIOUS
    <2>1. InitCap \in Cap
      BY TableAssumption DEF Cap
    <2> QED
      BY <2>1, LookupEmpty DEF Init, Dict!Init, MapGet
  <1>2. KeyInv /\ [Next]_vars => [Dict!Next]_(Dict!vars)
    <2> SUFFICES ASSUME KeyInv, Next PROVE Dict!Next
      BY DEF vars, Dict!vars, MapGet
    <2>1. Chain(cap, bks) /\ Unique(cap, bks) /\ cap \in Cap
          /\ 2 * cap \in Cap /\ bks \in Table(cap)
      BY ChainIs, UniqueIs, CapType DEF KeyInv, TypeOK, Table
    <2>2. ASSUME NEW k \in Keys, NEW v \in Values, MapSetInPlace(k, v)
          PROVE  Dict!Put(k, v)
      <3>1. Store' = [Store EXCEPT ![k] = v]
        <4>1. Store' = [x \in Keys |-> IF x = k THEN v
                                      ELSE Lookup(cap, bks, x)]
          BY <2>1, <2>2, DictInsert DEF MapSetInPlace
        <4> QED
          BY <4>1 DEF Store, MapGet
      <3>2. written' = [written EXCEPT ![k] = v]
        BY <2>2 DEF MapSetInPlace, Insert
      <3> QED
        BY <3>1, <3>2 DEF Dict!Put, Store
    <2>3. ASSUME NEW k \in Keys, NEW v \in Values, MapSetGrowing(k, v)
          PROVE  Dict!Put(k, v)
      <3>1. Store' = [x \in Keys |-> IF x = k THEN v ELSE NULL]
        BY <2>1, <2>3, DictInsert, EmptyIsFine, LookupEmpty
        DEF MapSetGrowing, Grown
      <3>2. written' = [written EXCEPT ![k] = v]
        BY <2>3 DEF MapSetGrowing, Insert
      <3> QED
        BY <3>1, <3>2 DEF Dict!Put, Store
    <2> QED
      BY <2>2, <2>3 DEF Next, Dict!Next
  <1> QED
    BY <1>1, <1>2, KeyInvCorrect, PTL DEF Spec, ImplementsDictionary, Dict!Spec
=============================================================================
