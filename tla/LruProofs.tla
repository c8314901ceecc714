----------------------------- MODULE LruProofs ------------------------------
(***************************************************************************)
(* The cache of responses for any requests, responses, hash function and   *)
(* sizes: its table and its list hold the same nodes, its bytes are        *)
(* counted right, the table never runs out of buckets, and look-ups answer *)
(* as a FIFO cache does.                                                   *)
(***************************************************************************)
EXTENDS Lru, FiniteSetTheorems, FunctionTheorems, SequenceTheorems, TLAPS

\* A set of numbers has a least one.
LEMMA Least ==
    ASSUME NEW S \in SUBSET Nat, S # {}
    PROVE  \E x \in S : \A y \in S : x <= y
  <1> DEFINE R == {p \in Nat \X Nat : p[1] < p[2]}
  <1>1. IsWellFoundedOn(R, Nat)
    BY NatLessThanWellFounded DEF OpToRel
  <1> HIDE DEF R
  <1>2. PICK x \in S : \A y \in S : ~(<<y, x>> \in R)
    BY <1>1, WFMin
  <1>3. ASSUME NEW y \in S, y < x PROVE <<y, x>> \in R
    BY <1>3 DEF R
  <1>4. \A y \in S : ~(y < x)
    BY <1>2, <1>3
  <1> QED
    BY <1>4

\* A bounded set of numbers has a greatest one.
LEMMA Greatest ==
    ASSUME NEW n \in Nat, NEW S \in SUBSET (0 .. n), S # {}
    PROVE  \E x \in S : \A y \in S : y <= x
  <1> DEFINE T == {x \in Nat : n - x \in S}
  <1>1. T # {}
    <2>1. PICK x \in S : TRUE
      OBVIOUS
    <2>2. n - x \in T
      BY <2>1
    <2> QED
      BY <2>2
  <1>2. PICK t \in T : \A y \in T : t <= y
    BY <1>1, Least
  <1>3. ASSUME NEW y \in S PROVE y <= n - t
    <2>1. n - y \in T
      OBVIOUS
    <2> HIDE DEF T
    <2> QED
      BY <1>2, <2>1 DEF T
  <1>4. n - t \in S
    BY <1>2
  <1> QED
    BY <1>3, <1>4

----------------------------------------------------------------------------
(* The ring of buckets.                                                    *)

Caps == Nat \ {0}

LEMMA HomeType ==
    ASSUME NEW c \in Caps, NEW k \in Keys
    PROVE  Hash[k] % c \in Buckets(c)
  <1>1. Hash[k] \in Nat /\ c \in Nat /\ c > 0
    BY LruAssumption DEF Caps
  <1> QED
    BY <1>1 DEF Buckets

\* The distances lead to the buckets one to one.
LEMMA AtRing ==
    ASSUME NEW c \in Caps, NEW k \in Keys
    PROVE  /\ \A d \in Buckets(c) : At(c, k, d) \in Buckets(c)
           /\ \A d, e \in Buckets(c) : At(c, k, d) = At(c, k, e) => d = e
           /\ \A i \in Buckets(c) : \E d \in Buckets(c) : At(c, k, d) = i
  <1>1. PICK h \in Buckets(c) : h = Hash[k] % c
    BY HomeType
  <1>2. ASSUME NEW i \in Buckets(c)
        PROVE  \E d \in Buckets(c) : At(c, k, d) = i
    <2>1. PICK d \in Buckets(c) : d = IF i >= h THEN i - h ELSE i - h + c
      BY <1>1 DEF Buckets, Caps
    <2> QED
      BY <1>1, <2>1 DEF At, Buckets, Caps
  <1>3. ASSUME NEW d \in Buckets(c)
        PROVE  At(c, k, d) \in Buckets(c) /\ At(c, k, d) = IF h + d < c THEN h + d ELSE h + d - c
    BY <1>1 DEF At, Buckets, Caps
  <1>4. ASSUME NEW d \in Buckets(c), NEW e \in Buckets(c), At(c, k, d) = At(c, k, e)
        PROVE  d = e
    <2>1. (IF h + d < c THEN h + d ELSE h + d - c) = IF h + e < c THEN h + e ELSE h + e - c
      BY <1>3, <1>4
    <2> QED
      BY <2>1 DEF Buckets, Caps
  <1> QED
    BY <1>2, <1>3, <1>4

\* Of the distances to some of the buckets there is a least one.
LEMMA FirstDistance ==
    ASSUME NEW c \in Caps, NEW k \in Keys, NEW S \in SUBSET Buckets(c), S # {}
    PROVE  \E d \in Buckets(c) : /\ At(c, k, d) \in S
                                 /\ \A e \in Buckets(c) : e < d => At(c, k, e) \notin S
  <1> DEFINE D == {d \in Buckets(c) : At(c, k, d) \in S}
  <1>1. D # {}
    <2>1. PICK i \in S : i \in Buckets(c)
      OBVIOUS
    <2>2. PICK d \in Buckets(c) : At(c, k, d) = i
      BY <2>1, AtRing
    <2> QED
      BY <2>1, <2>2
  <1>2. Buckets(c) \subseteq Nat
    BY DEF Buckets, Caps
  <1>3. PICK d \in D : \A e \in D : d <= e
    BY <1>1, <1>2, Least
  <1> QED
    BY <1>2, <1>3

----------------------------------------------------------------------------
(* The bytes of a list of nodes.                                           *)

ByteSet(s) == UNION {{i} \X (1 .. Size[s[i].value]) : i \in DOMAIN s}

LEMMA NodeSize ==
    ASSUME NEW s \in Seq(Node), NEW i \in DOMAIN s
    PROVE  Size[s[i].value] \in Nat /\ Size[s[i].value] > 0
  <1>1. s[i].value \in Values
    <2>1. s[i] \in Node
      OBVIOUS
    <2> QED
      BY <2>1 DEF Node
  <1> QED
    BY <1>1, LruAssumption

\* What is a byte of a list.
LEMMA ByteIn ==
    ASSUME NEW s \in Seq(Node)
    PROVE  \A p : p \in ByteSet(s) <=>
              \E i \in DOMAIN s : \E j \in 1 .. Size[s[i].value] : p = <<i, j>>
  BY DEF ByteSet

LEMMA BytesFinite ==
    ASSUME NEW s \in Seq(Node)
    PROVE  /\ IsFiniteSet(ByteSet(s))
           /\ Bytes(s) = Cardinality(ByteSet(s)) /\ Bytes(s) \in Nat
  <1> DEFINE F == {{i} \X (1 .. Size[s[i].value]) : i \in DOMAIN s}
             f == [i \in DOMAIN s |-> {i} \X (1 .. Size[s[i].value])]
  <1>1. IsFiniteSet(DOMAIN s)
    <2>1. DOMAIN s = 1 .. Len(s) /\ Len(s) \in Nat
      OBVIOUS
    <2> QED
      BY <2>1, FS_Interval
  <1>2. f \in Surjection(DOMAIN s, F)
    BY DEF Surjection
  <1>3. IsFiniteSet(F)
    <2> HIDE DEF F, f
    <2> QED
      BY <1>1, <1>2, FS_Surjection
  <1>4. ASSUME NEW T \in F PROVE IsFiniteSet(T)
    <2>1. PICK i \in DOMAIN s : T = {i} \X (1 .. Size[s[i].value])
      OBVIOUS
    <2>2. IsFiniteSet({i})
      BY FS_Singleton
    <2>3. IsFiniteSet(1 .. Size[s[i].value])
      BY NodeSize, FS_Interval
    <2> QED
      BY <2>1, <2>2, <2>3, FS_Product
  <1>5. IsFiniteSet(UNION F)
    <2> HIDE DEF F
    <2> QED
      BY <1>3, <1>4, FS_UNION
  <1>6. ByteSet(s) = UNION F /\ Bytes(s) = Cardinality(ByteSet(s))
    BY DEF ByteSet, Bytes
  <1> QED
    BY <1>5, <1>6, FS_CardinalityType

LEMMA BytesEmpty == Bytes(<<>>) = 0
  <1>1. ByteSet(<<>>) = {}
    BY DEF ByteSet
  <1> QED
    BY <1>1, FS_EmptySet DEF ByteSet, Bytes

\* A node has as many bytes as its response.
LEMMA BytesOne ==
    ASSUME NEW n \in Node
    PROVE  Bytes(<<n>>) = Size[n.value] /\ Size[n.value] \in Nat \ {0}
  <1>1. Size[n.value] \in Nat \ {0}
    BY LruAssumption DEF Node
  <1>2. ByteSet(<<n>>) = {1} \X (1 .. Size[n.value])
    BY DEF ByteSet
  <1>3. IsFiniteSet({1}) /\ Cardinality({1}) = 1
    BY FS_Singleton
  <1> DEFINE z == Size[n.value]
             S == 1 .. z
  <1>4. IsFiniteSet(S) /\ Cardinality(S) = z
    <2>1. z \in Int /\ 1 \in Int /\ z >= 1
      BY <1>1
    <2> HIDE DEF z
    <2> QED
      BY <2>1, FS_Interval
  <1> HIDE DEF S, z
  <1>5. Cardinality({1} \X S) = 1 * z
    BY <1>3, <1>4, FS_Product
  <1>6. Bytes(<<n>>) = Cardinality({1} \X S)
    BY <1>2 DEF ByteSet, Bytes, S, z
  <1>7. 1 * z = z
    BY <1>1 DEF z
  <1> QED
    BY <1>1, <1>5, <1>6, <1>7 DEF z

\* Two lists have together as many bytes as the one they make.
LEMMA BytesConcat ==
    ASSUME NEW s \in Seq(Node), NEW t \in Seq(Node)
    PROVE  Bytes(s \o t) = Bytes(s) + Bytes(t)
  <1> DEFINE n == Len(s)
             u == s \o t
             f == [p \in ByteSet(t) |-> <<p[1] + n, p[2]>>]
             T == {f[p] : p \in ByteSet(t)}
  <1>1. /\ u \in Seq(Node) /\ n \in Nat /\ DOMAIN s = 1 .. n
        /\ DOMAIN t = 1 .. Len(t) /\ Len(t) \in Nat /\ DOMAIN u = 1 .. n + Len(t)
        /\ \A i \in DOMAIN s : i \in DOMAIN u /\ u[i] = s[i]
        /\ \A i \in DOMAIN t : i + n \in DOMAIN u /\ u[i + n] = t[i]
    OBVIOUS
  <1> HIDE DEF u, n
  <1>2. \A p \in ByteSet(t) : p[1] \in Nat /\ p[1] > 0
    BY <1>1, ByteIn
  <1>3. f \in Bijection(ByteSet(t), T)
    <2>1. ASSUME NEW p \in ByteSet(t), NEW q \in ByteSet(t), f[p] = f[q] PROVE p = q
      <3>1. p[1] + n = q[1] + n /\ p[2] = q[2]
        BY <2>1
      <3>2. p[1] = q[1]
        BY <1>1, <1>2, <3>1
      <3>3. p = <<p[1], p[2]>> /\ q = <<q[1], q[2]>>
        BY ByteIn
      <3> QED
        BY <3>1, <3>2, <3>3
    <2>2. f \in [ByteSet(t) -> T]
      OBVIOUS
    <2>3. \A x \in T : \E p \in ByteSet(t) : f[p] = x
      OBVIOUS
    <2> HIDE DEF f, T
    <2> QED
      BY <2>1, <2>2, <2>3 DEF Bijection, Injection, Surjection, IsInjective
  <1>4. IsFiniteSet(T) /\ Cardinality(T) = Bytes(t)
    <2> HIDE DEF f, T
    <2> QED
      BY <1>3, BytesFinite, FS_Bijection DEF ExistsBijection
  <1>5. ByteSet(u) = ByteSet(s) \cup T
    <2>1. ASSUME NEW p \in ByteSet(s) PROVE p \in ByteSet(u)
      <3>1. PICK i \in DOMAIN s : \E j \in 1 .. Size[s[i].value] : p = <<i, j>>
        BY ByteIn
      <3>2. i \in DOMAIN u /\ u[i] = s[i]
        BY <1>1
      <3> QED
        BY <1>1, <3>1, <3>2, ByteIn
    <2>2. ASSUME NEW p \in ByteSet(t) PROVE f[p] \in ByteSet(u)
      <3>0. PICK i \in DOMAIN t : \E j \in 1 .. Size[t[i].value] : p = <<i, j>>
        BY ByteIn
      <3>1. PICK j \in 1 .. Size[t[i].value] : p = <<i, j>>
        BY <3>0
      <3>2. i + n \in DOMAIN u /\ u[i + n] = t[i] /\ f[p] = <<i + n, j>>
        BY <1>1, <3>1
      <3> HIDE DEF f
      <3> QED
        BY <1>1, <3>1, <3>2, ByteIn
    <2>3. ASSUME NEW p \in ByteSet(u) PROVE p \in ByteSet(s) \cup T
      <3>0. PICK i \in DOMAIN u : \E j \in 1 .. Size[u[i].value] : p = <<i, j>>
        BY <1>1, ByteIn
      <3>1. PICK j \in 1 .. Size[u[i].value] : p = <<i, j>>
        BY <3>0
      <3>2. CASE i <= n
        <4>1. i \in DOMAIN s /\ u[i] = s[i]
          BY <1>1, <3>2
        <4> QED
          BY <3>1, <4>1, ByteIn
      <3>3. CASE i > n
        <4>1. i - n \in DOMAIN t /\ (i - n) + n = i
          BY <1>1, <3>3
        <4>2. u[i] = t[i - n]
          BY <1>1, <4>1
        <4>3. <<i - n, j>> \in ByteSet(t)
          BY <3>1, <4>1, <4>2, ByteIn
        <4>4. f[<<i - n, j>>] = p
          BY <3>1, <4>1, <4>3
        <4> QED
          BY <4>3, <4>4
      <3> QED
        BY <1>1, <3>2, <3>3
    <2> HIDE DEF f
    <2> QED
      BY <2>1, <2>2, <2>3
  <1>6. ByteSet(s) \cap T = {}
    <2> SUFFICES ASSUME NEW p \in ByteSet(s), NEW q \in ByteSet(t), p = f[q] PROVE FALSE
      OBVIOUS
    <2>1. p[1] \in 1 .. n
      BY <1>1, ByteIn
    <2>2. p[1] = q[1] + n
      OBVIOUS
    <2> QED
      BY <1>1, <1>2, <2>1, <2>2
  <1> HIDE DEF T
  <1>7. Cardinality(ByteSet(u)) = Cardinality(ByteSet(s)) + Cardinality(T) - Cardinality({})
    BY <1>4, <1>5, <1>6, BytesFinite, FS_Union
  <1>8. /\ Cardinality({}) = 0
        /\ Cardinality(ByteSet(u)) = Bytes(u) /\ Cardinality(ByteSet(s)) = Bytes(s)
        /\ Bytes(s) \in Nat /\ Bytes(t) \in Nat
    BY <1>1, BytesFinite, FS_EmptySet
  <1>9. Bytes(u) = Bytes(s) + Bytes(t)
    BY <1>4, <1>7, <1>8
  <1> QED
    BY <1>9 DEF u

\* A node has at least one byte.
LEMMA BytesAtLeast ==
    ASSUME NEW s \in Seq(Node)
    PROVE  Len(s) <= Bytes(s)
  <1> DEFINE f == [i \in 1 .. Len(s) |-> <<i, 1>>]
  <1>1. Len(s) \in Nat /\ DOMAIN s = 1 .. Len(s)
    OBVIOUS
  <1>2. ASSUME NEW i \in 1 .. Len(s) PROVE f[i] \in ByteSet(s)
    <2>1. 1 \in 1 .. Size[s[i].value]
      BY NodeSize
    <2> QED
      BY <2>1, ByteIn
  <1>3. f \in Injection(1 .. Len(s), ByteSet(s))
    <2>1. \A i, k \in 1 .. Len(s) : f[i] = f[k] => i = k
      OBVIOUS
    <2>2. f \in [1 .. Len(s) -> ByteSet(s)]
      BY <1>2
    <2> HIDE DEF f
    <2> QED
      BY <2>1, <2>2 DEF Injection, IsInjective
  <1>4. Cardinality(1 .. Len(s)) <= Cardinality(ByteSet(s))
    <2> HIDE DEF f
    <2> QED
      BY <1>3, BytesFinite, FS_Injection
  <1>5. Cardinality(1 .. Len(s)) = Len(s)
    BY <1>1, FS_Interval
  <1> QED
    BY <1>4, <1>5, BytesFinite

----------------------------------------------------------------------------
(* A table b of c buckets and a list s of the same nodes, no key twice.    *)

Table(c) == [Buckets(c) -> Node \cup {NULL}]

Matches(b, c, s) ==
    /\ b \in Table(c) /\ s \in Seq(Node)
    /\ \A i \in Buckets(c) : b[i] # NULL => \E j \in DOMAIN s : b[i] = s[j]
    /\ \A j \in DOMAIN s : \E i \in Buckets(c) : b[i] = s[j]
    /\ \A i, j \in Buckets(c) :
          b[i] # NULL /\ b[j] # NULL /\ b[i].key = b[j].key => i = j
    /\ \A i, j \in DOMAIN s : s[i].key = s[j].key => i = j

LEMMA NodeNotNull ==
    ASSUME NEW n \in Node
    PROVE  n # NULL /\ n.key \in Keys /\ n.value \in Values
  BY LruAssumption DEF Node

LEMMA Listed ==
    ASSUME NEW s \in Seq(Node), NEW j \in DOMAIN s
    PROVE  s[j] \in Node /\ s[j] # NULL /\ s[j].key \in Keys /\ s[j].value \in Values
  <1>1. s[j] \in Node
    OBVIOUS
  <1> QED
    BY <1>1, NodeNotNull

\* A look-up finds what the list has.
LEMMA LookupIs ==
    ASSUME NEW c \in Caps, NEW b, NEW s, Matches(b, c, s), NEW k \in Keys
    PROVE  /\ \A j \in DOMAIN s : s[j].key = k => Lookup(b, c, k) = s[j].value
           /\ (\A j \in DOMAIN s : s[j].key # k) => Lookup(b, c, k) = NULL
           /\ Lookup(b, c, k) = NULL => \A i \in Buckets(c) : b[i] # NULL => b[i].key # k
  <1> DEFINE I == Indexes(b, c, k)
             P(d) == /\ At(c, k, d) \in I
                     /\ \A e \in Buckets(c) : e < d => At(c, k, e) \notin I
             d0 == CHOOSE d \in Buckets(c) : P(d)
  <1>1. I = {i \in Buckets(c) : b[i] # NULL /\ b[i].key = k}
    BY DEF Indexes
  <1>2. Lookup(b, c, k) = IF I = {} THEN NULL ELSE b[At(c, k, d0)].value
    BY DEF Lookup
  <1> HIDE DEF I
  <1>3. ASSUME I # {} PROVE At(c, k, d0) \in I
    <2>1. \E d \in Buckets(c) : P(d)
      BY <1>1, <1>3, FirstDistance
    <2>2. P(d0)
      BY <2>1
    <2> QED
      BY <2>2
  <1> HIDE DEF d0
  <1>4. ASSUME NEW j \in DOMAIN s, s[j].key = k
        PROVE  Lookup(b, c, k) = s[j].value
    <2>1. s[j] # NULL
      BY Listed DEF Matches
    <2>2. PICK i \in Buckets(c) : b[i] = s[j]
      BY DEF Matches
    <2>3. i \in I
      BY <1>1, <1>4, <2>1, <2>2
    <2>4. At(c, k, d0) = i
      BY <1>1, <1>3, <2>3 DEF Matches
    <2> QED
      BY <1>2, <2>2, <2>3, <2>4
  <1>5. ASSUME \A j \in DOMAIN s : s[j].key # k
        PROVE  Lookup(b, c, k) = NULL
    BY <1>1, <1>2, <1>5 DEF Matches
  <1>6. ASSUME Lookup(b, c, k) = NULL, NEW i \in Buckets(c), b[i] # NULL, b[i].key = k
        PROVE  FALSE
    <2>1. At(c, k, d0) \in I /\ b[At(c, k, d0)].value = NULL
      BY <1>1, <1>2, <1>3, <1>6
    <2>2. b[At(c, k, d0)] \in Node
      BY <1>1, <2>1 DEF Matches, Table
    <2> QED
      BY <2>1, <2>2, LruAssumption DEF Node
  <1> QED
    BY <1>4, <1>5, <1>6

\* There are as many buckets occupied as nodes in the list, at most.
LEMMA OccupiedCount ==
    ASSUME NEW c \in Caps, NEW b, NEW s, Matches(b, c, s)
    PROVE  LET Occ == {i \in Buckets(c) : b[i] # NULL}
           IN  IsFiniteSet(Occ) /\ Cardinality(Occ) <= Len(s) /\ Cardinality(Occ) \in Nat
  <1> DEFINE Occ == {i \in Buckets(c) : b[i] # NULL}
             f == [i \in Occ |-> CHOOSE j \in DOMAIN s : b[i] = s[j]]
  <1>1. \A i \in Occ : f[i] \in DOMAIN s /\ b[i] = s[f[i]]
    BY DEF Matches
  <1>2. f \in [Occ -> DOMAIN s]
    BY <1>1
  <1> HIDE DEF f
  <1>3. \A i, j \in Occ : f[i] = f[j] => i = j
    BY <1>1 DEF Matches
  <1>4. f \in Injection(Occ, DOMAIN s)
    <2> HIDE DEF Occ
    <2> QED
      BY <1>2, <1>3 DEF Injection, IsInjective
  <1>5. DOMAIN s = 1 .. Len(s) /\ Len(s) \in Nat
    BY DEF Matches
  <1>6. IsFiniteSet(DOMAIN s) /\ Cardinality(DOMAIN s) = Len(s)
    <2> DEFINE n == Len(s)
    <2>1. n \in Nat /\ DOMAIN s = 1 .. n
      BY <1>5
    <2> HIDE DEF n
    <2>2. IsFiniteSet(1 .. n) /\ Cardinality(1 .. n) = n
      BY <2>1, FS_Interval
    <2> QED
      BY <2>1, <2>2 DEF n
  <1> HIDE DEF Occ
  <1>7. IsFiniteSet(Occ) /\ Cardinality(Occ) <= Len(s)
    BY <1>4, <1>6, FS_Injection
  <1> QED
    BY <1>7, FS_CardinalityType DEF Occ

----------------------------------------------------------------------------
(* Setting a node.                                                         *)

\* A key that is not in the table gets a bucket that is free.
LEMMA TargetIsFree ==
    ASSUME NEW c \in Caps, NEW b \in Table(c), NEW k \in Keys,
           \A i \in Buckets(c) : b[i] # NULL => b[i].key # k,
           NEW d \in Targets(b, c, k)
    PROVE  At(c, k, d) \in Buckets(c) /\ b[At(c, k, d)] = NULL
  BY AtRing DEF Targets

\* lru_hash_set_actual and lru_list_set add one node to the table and the list.
LEMMA PutMatches ==
    ASSUME NEW c \in Caps, NEW b, NEW s, Matches(b, c, s),
           NEW n \in Node, \A j \in DOMAIN s : s[j].key # n.key,
           NEW x \in Buckets(c), b[x] = NULL
    PROVE  Matches([b EXCEPT ![x] = n], c, <<n>> \o s)
  <1> DEFINE a == [b EXCEPT ![x] = n]
             t == <<n>> \o s
  <1>1. n # NULL /\ n.key \in Keys
    BY NodeNotNull
  <1>2. /\ a \in Table(c) /\ a[x] = n
        /\ \A i \in Buckets(c) \ {x} : a[i] = b[i]
    BY DEF Matches, Table
  <1>3. /\ s \in Seq(Node) /\ t \in Seq(Node) /\ 1 \in DOMAIN t /\ t[1] = n
        /\ \A j \in DOMAIN s : j \in Nat /\ j + 1 \in DOMAIN t /\ t[j + 1] = s[j]
        /\ \A j \in DOMAIN t \ {1} : j - 1 \in DOMAIN s /\ t[j] = s[j - 1] /\ j \in Nat
    BY DEF Matches
  <1> HIDE DEF a, t
  <1>4. ASSUME NEW i \in Buckets(c), a[i] # NULL
        PROVE  \E j \in DOMAIN t : a[i] = t[j]
    <2>1. CASE i = x
      BY <1>2, <1>3, <2>1
    <2>2. CASE i # x
      <3>1. PICK j \in DOMAIN s : b[i] = s[j]
        BY <1>2, <1>4, <2>2 DEF Matches
      <3> QED
        BY <1>2, <1>3, <2>2, <3>1
    <2> QED
      BY <2>1, <2>2
  <1>5. ASSUME NEW j \in DOMAIN t
        PROVE  \E i \in Buckets(c) : a[i] = t[j]
    <2>1. CASE j = 1
      BY <1>2, <1>3, <2>1
    <2>2. CASE j # 1
      <3>1. j - 1 \in DOMAIN s /\ t[j] = s[j - 1]
        BY <1>3, <2>2
      <3>2. PICK i \in Buckets(c) : b[i] = s[j - 1]
        BY <3>1 DEF Matches
      <3>3. s[j - 1] # NULL
        BY <1>3, <3>1, Listed
      <3>4. i # x
        BY <3>2, <3>3
      <3> QED
        BY <1>2, <3>1, <3>2, <3>4
    <2> QED
      BY <2>1, <2>2
  <1>6. ASSUME NEW i \in Buckets(c), i # x, b[i] # NULL
        PROVE  b[i].key # n.key
    BY <1>6 DEF Matches
  <1>7. ASSUME NEW i \in Buckets(c), NEW j \in Buckets(c),
               a[i] # NULL, a[j] # NULL, a[i].key = a[j].key
        PROVE  i = j
    <2>1. CASE i = x \/ j = x
      BY <1>2, <1>6, <1>7, <2>1
    <2>2. CASE i # x /\ j # x
      <3>1. a[i] = b[i] /\ a[j] = b[j]
        BY <1>2, <2>2
      <3> QED
        BY <1>7, <3>1 DEF Matches
    <2> QED
      BY <2>1, <2>2
  <1>8. ASSUME NEW i \in DOMAIN t, NEW j \in DOMAIN t, t[i].key = t[j].key
        PROVE  i = j
    <2>1. CASE i = 1 \/ j = 1
      BY <1>3, <1>8, <2>1
    <2>2. CASE i # 1 /\ j # 1
      <3>1. \A p, q \in DOMAIN s : s[p].key = s[q].key => p = q
        BY DEF Matches
      <3>2. i - 1 \in DOMAIN s /\ t[i] = s[i - 1] /\ i \in Nat
        BY <1>3, <2>2
      <3>3. j - 1 \in DOMAIN s /\ t[j] = s[j - 1] /\ j \in Nat
        BY <1>3, <2>2
      <3>4. i - 1 = j - 1
        BY <1>8, <3>1, <3>2, <3>3
      <3> QED
        BY <3>2, <3>3, <3>4
    <2> QED
      BY <2>1, <2>2
  <1>9. Matches(a, c, t)
    BY <1>2, <1>3, <1>4, <1>5, <1>7, <1>8 DEF Matches
  <1> QED
    BY <1>9 DEF a, t

----------------------------------------------------------------------------
(* Releasing nodes.                                                        *)

\* What is released leaves the table and the list.
LEMMA WithoutMatches ==
    ASSUME NEW c \in Caps, NEW b, NEW s, NEW kept \in Seq(Node), NEW gone \in Seq(Node),
           s = kept \o gone, Matches(b, c, s)
    PROVE  Matches(Without(b, c, gone), c, kept)
  <1> DEFINE a == Without(b, c, gone)
             Goes(i) == \E j \in DOMAIN gone : b[i] # NULL /\ b[i].key = gone[j].key
  <1>1. a = [i \in Buckets(c) |-> IF Goes(i) THEN NULL ELSE b[i]]
    BY DEF Without
  <1>2. /\ \A i \in DOMAIN kept : i \in DOMAIN s /\ s[i] = kept[i] /\ i <= Len(kept)
        /\ \A i \in DOMAIN gone : i + Len(kept) \in DOMAIN s /\ s[i + Len(kept)] = gone[i]
                                  /\ i + Len(kept) > Len(kept)
        /\ \A i \in DOMAIN s : i \in DOMAIN kept \/ i - Len(kept) \in DOMAIN gone
        /\ \A i \in DOMAIN s : i \in Nat /\ Len(kept) \in Nat
    OBVIOUS
  <1>3. a \in Table(c)
    BY <1>1 DEF Matches, Table
  <1> HIDE DEF a
  <1>4. \A i \in Buckets(c) : a[i] # NULL => a[i] = b[i] /\ ~Goes(i)
    BY <1>1
  <1>5. ASSUME NEW i \in Buckets(c), a[i] # NULL
        PROVE  \E j \in DOMAIN kept : a[i] = kept[j]
    <2>1. a[i] = b[i] /\ ~Goes(i) /\ b[i] # NULL
      BY <1>4, <1>5
    <2>2. PICK j \in DOMAIN s : b[i] = s[j]
      BY <2>1 DEF Matches
    <2>3. CASE j \in DOMAIN kept
      BY <1>2, <2>1, <2>2, <2>3
    <2>4. CASE j - Len(kept) \in DOMAIN gone
      <3>1. gone[j - Len(kept)] = s[(j - Len(kept)) + Len(kept)]
        BY <1>2, <2>4
      <3>2. (j - Len(kept)) + Len(kept) = j
        BY <1>2
      <3> QED
        BY <2>1, <2>2, <2>4, <3>1, <3>2
    <2> QED
      BY <1>2, <2>3, <2>4
  <1>6. ASSUME NEW j \in DOMAIN kept
        PROVE  \E i \in Buckets(c) : a[i] = kept[j]
    <2>1. j \in DOMAIN s /\ s[j] = kept[j]
      BY <1>2
    <2>2. PICK i \in Buckets(c) : b[i] = s[j]
      BY <2>1 DEF Matches
    <2>3. ~Goes(i)
      <3> SUFFICES ASSUME NEW l \in DOMAIN gone, b[i].key = gone[l].key PROVE FALSE
        OBVIOUS
      <3>1. l + Len(kept) \in DOMAIN s /\ s[l + Len(kept)] = gone[l]
        BY <1>2
      <3>2. l + Len(kept) = j
        BY <2>1, <2>2, <3>1 DEF Matches
      <3> QED
        BY <1>2, <2>1, <3>2
    <2> QED
      BY <1>1, <2>1, <2>2, <2>3
  <1>7. \A i, j \in Buckets(c) :
           a[i] # NULL /\ a[j] # NULL /\ a[i].key = a[j].key => i = j
    BY <1>4 DEF Matches
  <1>8. \A i, j \in DOMAIN kept : kept[i].key = kept[j].key => i = j
    BY <1>2 DEF Matches
  <1>9. Matches(a, c, kept)
    BY <1>3, <1>5, <1>6, <1>7, <1>8 DEF Matches
  <1> QED
    BY <1>9 DEF a

----------------------------------------------------------------------------
(* Growing the table.                                                      *)

\* Bucket x is the first one that is not taken on the new ring of the node in
\* bucket i.
FirstFree(b, c, i, x, taken) ==
    \E d \in Buckets(2 * c) :
        /\ x = At(2 * c, b[i].key, d)
        /\ x \notin taken
        /\ \A e \in Buckets(2 * c) : e < d => At(2 * c, b[i].key, e) \in taken

\* f gives the nodes of the buckets in M their places in the order of M.
Places(b, c, M, f) ==
    /\ f \in [M -> Buckets(2 * c)]
    /\ \A i \in M : FirstFree(b, c, i, f[i], {f[j] : j \in {m \in M : m < i}})

LEMMA BucketsCount ==
    ASSUME NEW n \in Nat
    PROVE  IsFiniteSet(Buckets(n)) /\ Cardinality(Buckets(n)) = n
  <1>1. 0 \in Int /\ n - 1 \in Int
    OBVIOUS
  <1>2. /\ IsFiniteSet(0 .. n - 1)
        /\ Cardinality(0 .. n - 1) = IF 0 > n - 1 THEN 0 ELSE n - 1 - 0 + 1
    BY <1>1, FS_Interval
  <1>3. (IF 0 > n - 1 THEN 0 ELSE n - 1 - 0 + 1) = n
    OBVIOUS
  <1> QED
    BY <1>2, <1>3 DEF Buckets

\* Fewer than 2c places leave a bucket free.
LEMMA FreeFor ==
    ASSUME NEW c \in Caps, NEW S \in SUBSET Buckets(c),
           NEW f \in [S -> Buckets(2 * c)], NEW b \in Table(c),
           NEW i \in Buckets(c), b[i] # NULL
    PROVE  \E x \in Buckets(2 * c) : FirstFree(b, c, i, x, {f[j] : j \in S})
  <1> DEFINE R == Buckets(2 * c)
             T == {f[j] : j \in S}
             k == b[i].key
  <1>0. c \in Nat /\ 2 * c \in Caps /\ 2 * c \in Nat /\ c < 2 * c
    BY DEF Caps
  <1>1. k \in Keys
    <2>1. b[i] \in Node
      BY DEF Table
    <2> QED
      BY <2>1, NodeNotNull
  <1>2. IsFiniteSet(S) /\ Cardinality(S) <= c /\ Cardinality(S) \in Nat
    BY <1>0, BucketsCount, FS_Subset, FS_CardinalityType
  <1>3. f \in Surjection(S, T)
    BY DEF Surjection
  <1>4. T \in SUBSET R
    OBVIOUS
  <1> HIDE DEF T
  <1>5. IsFiniteSet(T) /\ Cardinality(T) <= Cardinality(S) /\ Cardinality(T) \in Nat
    BY <1>2, <1>3, FS_Surjection, FS_CardinalityType
  <1>6. IsFiniteSet(R) /\ Cardinality(R) = 2 * c
    BY <1>0, BucketsCount
  <1> HIDE DEF R, k
  <1>7. R \ T # {}
    <2>1. T # R
      BY <1>0, <1>2, <1>5, <1>6
    <2> QED
      BY <1>4, <2>1
  <1>8. R = Buckets(2 * c)
    BY DEF R
  <1>9. PICK d \in Buckets(2 * c) :
           /\ At(2 * c, k, d) \in R \ T
           /\ \A e \in Buckets(2 * c) : e < d => At(2 * c, k, e) \notin R \ T
    <2> DEFINE S0 == R \ T
    <2>1. S0 \in SUBSET Buckets(2 * c) /\ S0 # {}
      BY <1>7, <1>8
    <2> HIDE DEF S0
    <2>2. \E d \in Buckets(2 * c) :
             /\ At(2 * c, k, d) \in S0
             /\ \A e \in Buckets(2 * c) : e < d => At(2 * c, k, e) \notin S0
      BY <1>0, <1>1, <2>1, FirstDistance
    <2> QED
      BY <2>2 DEF S0
  <1>10. \A e \in Buckets(2 * c) : e < d => At(2 * c, k, e) \in T
    BY <1>0, <1>1, <1>8, <1>9, AtRing
  <1>11. FirstFree(b, c, i, At(2 * c, k, d), T)
    BY <1>9, <1>10 DEF FirstFree, k
  <1> QED
    BY <1>8, <1>9, <1>11 DEF T

\* The places of the buckets below m can be extended to the bucket m.
LEMMA PlacesExtend ==
    ASSUME NEW c \in Caps, NEW b \in Table(c), NEW M \in SUBSET Buckets(c),
           \A i \in M : b[i] # NULL, NEW m \in Nat,
           NEW f, Places(b, c, {i \in M : i < m}, f)
    PROVE  \E g : Places(b, c, {i \in M : i < m + 1}, g)
  <1> DEFINE P == {i \in M : i < m}
             Q == {i \in M : i < m + 1}
  <1>0. \A i \in M : i \in Nat
    BY DEF Buckets, Caps
  <1>1. CASE m \notin M
    <2>1. \A i \in M : i < m <=> i < m + 1
      BY <1>0, <1>1
    <2>2. P = Q
      BY <2>1
    <2> QED
      BY <2>2
  <1>2. CASE m \in M
    <2>1. P \in SUBSET Buckets(c) /\ f \in [P -> Buckets(2 * c)]
      BY DEF Places
    <2>2. PICK x \in Buckets(2 * c) : FirstFree(b, c, m, x, {f[j] : j \in P})
      <3> HIDE DEF P
      <3> QED
        BY <1>2, <2>1, FreeFor
    <2> DEFINE g == [i \in Q |-> IF i = m THEN x ELSE f[i]]
    <2>3. \A i \in Q : i # m => i \in P
      BY <1>0
    <2>4. g \in [Q -> Buckets(2 * c)]
      BY <2>1, <2>3
    <2>5. ASSUME NEW i \in Q
          PROVE  FirstFree(b, c, i, g[i], {g[j] : j \in {l \in Q : l < i}})
      <3>1. CASE i = m
        <4>0. \A l \in M : l < m => l < m + 1
          BY <1>0
        <4>1. {l \in Q : l < i} = P
          BY <3>1, <4>0
        <4>2. \A j \in P : g[j] = f[j]
          BY <1>0
        <4>3. {g[j] : j \in P} = {f[j] : j \in P}
          BY <4>2
        <4>4. g[i] = x
          BY <3>1
        <4> HIDE DEF P, g
        <4> QED
          BY <2>2, <3>1, <4>1, <4>3, <4>4
      <3>2. CASE i # m
        <4>1. i \in P /\ g[i] = f[i]
          BY <2>3, <3>2
        <4>0. \A l \in M : l < i => l < m /\ l < m + 1
          BY <1>0, <4>1
        <4>2. {l \in Q : l < i} = {l \in P : l < i}
          BY <4>0
        <4>3. \A j \in {l \in P : l < i} : g[j] = f[j]
          BY <1>0
        <4>4. {g[j] : j \in {l \in P : l < i}} = {f[j] : j \in {l \in P : l < i}}
          BY <4>3
        <4>5. FirstFree(b, c, i, f[i], {f[j] : j \in {l \in P : l < i}})
          BY <4>1 DEF Places
        <4> HIDE DEF P, Q, g
        <4> QED
          BY <4>1, <4>2, <4>4, <4>5
      <3> QED
        BY <3>1, <3>2
    <2> HIDE DEF Q, g
    <2>6. Places(b, c, Q, g)
      BY <2>4, <2>5 DEF Places
    <2> QED
      BY <2>6 DEF Q
  <1> QED
    BY <1>1, <1>2

\* Every node finds a place, and no two the same one.
LEMMA PlacesExist ==
    ASSUME NEW c \in Caps, NEW b \in Table(c), NEW M \in SUBSET Buckets(c),
           \A i \in M : b[i] # NULL
    PROVE  \E f : Places(b, c, M, f)
  <1> DEFINE Done(m) == \E f : Places(b, c, {i \in M : i < m}, f)
             Bad == {m \in Nat : ~Done(m)}
  <1>0. (\A i \in M : i \in Nat) /\ c \in Nat /\ \A i \in M : i < c
    BY DEF Buckets, Caps
  <1>1. Done(0)
    <2>0. \A i \in M : ~(i < 0)
      BY <1>0
    <2>1. {i \in M : i < 0} = {}
      BY <2>0
    <2> DEFINE f == [i \in {} |-> 0]
    <2>2. Places(b, c, {}, f)
      BY DEF Places
    <2> QED
      BY <2>1, <2>2
  <1>2. ASSUME NEW m \in Nat, Done(m) PROVE Done(m + 1)
    <2>1. PICK f : Places(b, c, {i \in M : i < m}, f)
      BY <1>2
    <2> QED
      BY <2>1, PlacesExtend
  <1> HIDE DEF Done
  <1>3. Bad = {}
    <2> SUFFICES ASSUME Bad # {} PROVE FALSE
      OBVIOUS
    <2>1. PICK m \in Bad : \A l \in Bad : m <= l
      BY Least
    <2>2. m \in Nat /\ m # 0
      BY <1>1
    <2>3. m - 1 \in Nat /\ m - 1 \notin Bad /\ (m - 1) + 1 = m
      BY <2>1, <2>2
    <2> QED
      BY <1>2, <2>3
  <1>4. Done(c)
    BY <1>0, <1>3
  <1>5. {i \in M : i < c} = M
    BY <1>0
  <1> QED
    BY <1>4, <1>5 DEF Done

LEMMA PlacesDiffer ==
    ASSUME NEW c \in Caps, NEW b, NEW M \in SUBSET Buckets(c), NEW f, Places(b, c, M, f)
    PROVE  \A i, j \in M : f[i] = f[j] => i = j
  <1>0. M \subseteq Nat
    BY DEF Buckets, Caps
  <1>1. ASSUME NEW i \in M, NEW j \in M, j < i PROVE f[i] # f[j]
    <2>1. FirstFree(b, c, i, f[i], {f[l] : l \in {m \in M : m < i}})
      BY DEF Places
    <2>2. f[i] \notin {f[l] : l \in {m \in M : m < i}}
      BY <2>1 DEF FirstFree
    <2> QED
      BY <1>1, <2>2
  <1> QED
    BY <1>0, <1>1

\* lru_hash_realloc stops after n nodes, and there are no more.
LEMMA AllMoved ==
    ASSUME NEW c \in Caps, NEW b, NEW s, Matches(b, c, s),
           NEW n \in Nat, Len(s) <= n
    PROVE  Moved(b, c, n) = {i \in Buckets(c) : b[i] # NULL}
  <1> DEFINE Occ == {i \in Buckets(c) : b[i] # NULL}
             Before(i) == {j \in Buckets(c) : j < i /\ b[j] # NULL}
  <1>1. IsFiniteSet(Occ) /\ Cardinality(Occ) <= Len(s) /\ Cardinality(Occ) \in Nat
    BY OccupiedCount
  <1>2. Len(s) \in Nat
    BY DEF Matches
  <1>3. ASSUME NEW i \in Occ PROVE Cardinality(Before(i)) < n
    <2>1. Before(i) \in SUBSET (Occ \ {i})
      BY DEF Buckets, Caps
    <2>2. i \in Occ
      OBVIOUS
    <2> HIDE DEF Occ, Before
    <2>3. IsFiniteSet(Occ \ {i}) /\ Cardinality(Occ \ {i}) = Cardinality(Occ) - 1
      BY <1>1, <2>2, FS_RemoveElement
    <2>4. IsFiniteSet(Before(i)) /\ Cardinality(Before(i)) <= Cardinality(Occ \ {i})
      BY <2>1, <2>3, FS_Subset
    <2>5. Cardinality(Before(i)) \in Nat
      BY <2>4, FS_CardinalityType
    <2> QED
      BY <1>1, <1>2, <2>3, <2>4, <2>5
  <1> QED
    BY <1>3 DEF Moved

\* Growing the table loses and duplicates nothing.
LEMMA RehashedMatches ==
    ASSUME NEW c \in Caps, NEW b, NEW s, Matches(b, c, s),
           NEW n \in Nat, Len(s) <= n
    PROVE  Matches(Rehashed(b, c, n), 2 * c, s)
  <1> DEFINE M == Moved(b, c, n)
             Good(f) == \A i \in M : FirstFree(b, c, i, f[i], {f[j] : j \in {m \in M : m < i}})
             to == CHOOSE f \in [M -> Buckets(2 * c)] : Good(f)
             a == [x \in Buckets(2 * c) |-> IF \E i \in M : to[i] = x
                                 THEN b[CHOOSE i \in M : to[i] = x] ELSE NULL]
  <1>1. Rehashed(b, c, n) = a
    BY DEF Rehashed, FirstFree
  <1>2. /\ M = {i \in Buckets(c) : b[i] # NULL}
        /\ b \in Table(c) /\ \A i \in M : b[i] \in Node
    BY AllMoved DEF Matches, Table
  <1>3. /\ to \in [M -> Buckets(2 * c)]
        /\ \A i, j \in M : to[i] = to[j] => i = j
    <2>1. M \in SUBSET Buckets(c) /\ \A i \in M : b[i] # NULL
      BY <1>2
    <2> HIDE DEF M
    <2>2. \E f : Places(b, c, M, f)
      BY <1>2, <2>1, PlacesExist
    <2>3. \E f \in [M -> Buckets(2 * c)] : Good(f)
      BY <2>2 DEF Places
    <2>4. to \in [M -> Buckets(2 * c)] /\ Good(to)
      BY <2>3
    <2> HIDE DEF to
    <2>5. Places(b, c, M, to)
      BY <2>4 DEF Places
    <2> QED
      BY <2>1, <2>4, <2>5, PlacesDiffer
  <1> HIDE DEF M, to
  <1>4. ASSUME NEW i \in M PROVE to[i] \in Buckets(2 * c) /\ a[to[i]] = b[i]
    <2> DEFINE l == CHOOSE l \in M : to[l] = to[i]
    <2>1. l \in M /\ to[l] = to[i]
      OBVIOUS
    <2> HIDE DEF l
    <2>2. l = i
      BY <1>3, <2>1
    <2> QED
      BY <1>3, <2>2 DEF l
  <1>5. ASSUME NEW x \in Buckets(2 * c)
        PROVE  a[x] = NULL \/ \E i \in M : to[i] = x /\ a[x] = b[i]
    BY <1>4
  <1>6. a \in Table(2 * c)
    <2>1. \A x \in Buckets(2 * c) : a[x] \in Node \cup {NULL}
      BY <1>2, <1>5
    <2> QED
      BY <2>1 DEF Table
  <1> HIDE DEF a
  <1>7. ASSUME NEW x \in Buckets(2 * c), a[x] # NULL
        PROVE  \E j \in DOMAIN s : a[x] = s[j]
    BY <1>2, <1>5, <1>7 DEF Matches
  <1>8. ASSUME NEW j \in DOMAIN s
        PROVE  \E x \in Buckets(2 * c) : a[x] = s[j]
    <2>1. s[j] # NULL
      BY Listed DEF Matches
    <2>2. PICK i \in Buckets(c) : b[i] = s[j]
      BY DEF Matches
    <2>3. i \in M
      BY <1>2, <2>1, <2>2
    <2> QED
      BY <1>4, <2>2, <2>3
  <1>9. ASSUME NEW x \in Buckets(2 * c), NEW y \in Buckets(2 * c),
               a[x] # NULL, a[y] # NULL, a[x].key = a[y].key
        PROVE  x = y
    <2>1. PICK i \in M : to[i] = x /\ a[x] = b[i]
      BY <1>5, <1>9
    <2>2. PICK j \in M : to[j] = y /\ a[y] = b[j]
      BY <1>5, <1>9
    <2>3. i = j
      BY <1>2, <1>9, <2>1, <2>2 DEF Matches
    <2> QED
      BY <2>1, <2>2, <2>3
  <1>10. Matches(a, 2 * c, s)
    BY <1>6, <1>7, <1>8, <1>9 DEF Matches
  <1> QED
    BY <1>1, <1>10

----------------------------------------------------------------------------
(* Making room.                                                            *)

LEMMA SplitAt ==
    ASSUME NEW s \in Seq(Node), NEW n \in 0 .. Len(s)
    PROVE  /\ SubSeq(s, 1, n) \in Seq(Node) /\ Len(SubSeq(s, 1, n)) = n
           /\ SubSeq(s, n + 1, Len(s)) \in Seq(Node)
           /\ s = SubSeq(s, 1, n) \o SubSeq(s, n + 1, Len(s))
  <1>1. Len(s) \in Nat /\ n \in 1 - 1 .. Len(s) /\ Len(s) \in n .. Len(s)
        /\ 1 \in 1 .. Len(s) + 1
    OBVIOUS
  <1>2. SubSeq(s, 1, n) \o SubSeq(s, n + 1, Len(s)) = SubSeq(s, 1, Len(s))
    BY <1>1, ConcatAdjacentSubSeq
  <1>3. SubSeq(s, 1, Len(s)) = s
    BY SubSeqFull
  <1>4. /\ SubSeq(s, 1, n) \in Seq(Node) /\ Len(SubSeq(s, 1, n)) = n
        /\ SubSeq(s, n + 1, Len(s)) \in Seq(Node)
    BY <1>1
  <1> QED
    BY <1>2, <1>3, <1>4

\* lru_release keeps a prefix of the list; when it keeps anything, what goes
\* has the bytes wanted.
LEMMA KeptParts ==
    ASSUME list \in Seq(Node), NEW need \in Nat \ {0}
    PROVE  LET kept == Kept(need)
               gone == SubSeq(list, Len(kept) + 1, Len(list))
           IN  /\ kept \in Seq(Node) /\ gone \in Seq(Node)
               /\ Len(kept) \in 0 .. Len(list) /\ kept = SubSeq(list, 1, Len(kept))
               /\ list = kept \o gone
               /\ kept # <<>> => Bytes(gone) >= need /\ Len(kept) < Len(list)
  <1> DEFINE Rest(n) == SubSeq(list, n + 1, Len(list))
             E == {n \in 0 .. Len(list) : Bytes(Rest(n)) >= need}
             P(n) == /\ Bytes(Rest(n)) >= need
                     /\ \A m \in 0 .. Len(list) : m > n => ~(Bytes(Rest(m)) >= need)
             n0 == CHOOSE n \in 0 .. Len(list) : P(n)
  <1>1. Kept(need) = IF E = {} THEN <<>> ELSE SubSeq(list, 1, n0)
    BY DEF Kept
  <1>2. Len(list) \in Nat
    OBVIOUS
  <1>3. CASE E = {}
    <2>1. Kept(need) = <<>>
      BY <1>1, <1>3
    <2>2. SubSeq(list, 0 + 1, Len(list)) = list /\ <<>> \o list = list
          /\ SubSeq(list, 1, 0) = <<>>
      OBVIOUS
    <2>3. Len(<<>>) = 0 /\ <<>> \in Seq(Node)
      OBVIOUS
    <2> QED
      BY <1>2, <2>1, <2>2, <2>3
  <1>4. CASE E # {}
    <2>1. E \in SUBSET (0 .. Len(list))
      OBVIOUS
    <2>2. \E x \in E : \A y \in E : y <= x
      <3> HIDE DEF E
      <3> QED
        BY <1>2, <1>4, <2>1, Greatest
    <2>3. \E n \in 0 .. Len(list) : P(n)
      <3>1. PICK x \in E : \A y \in E : y <= x
        BY <2>2
      <3>2. ASSUME NEW m \in 0 .. Len(list), m > x, Bytes(Rest(m)) >= need PROVE FALSE
        <4>1. m \in E
          BY <3>2
        <4> HIDE DEF E
        <4> QED
          BY <1>2, <2>1, <3>1, <3>2, <4>1
      <3>3. x \in 0 .. Len(list) /\ Bytes(Rest(x)) >= need
        OBVIOUS
      <3>4. P(x)
        BY <3>2, <3>3
      <3> QED
        BY <3>3, <3>4
    <2>4. n0 \in 0 .. Len(list) /\ Bytes(Rest(n0)) >= need
      BY <2>3
    <2> HIDE DEF n0
    <2>5. /\ Kept(need) = SubSeq(list, 1, n0) /\ Len(SubSeq(list, 1, n0)) = n0
          /\ SubSeq(list, 1, n0) \in Seq(Node) /\ Rest(n0) \in Seq(Node)
          /\ list = SubSeq(list, 1, n0) \o Rest(n0)
      BY <1>1, <1>4, <2>4, SplitAt
    <2>6. n0 # Len(list)
      <3> SUFFICES ASSUME n0 = Len(list) PROVE FALSE
        OBVIOUS
      <3>1. Rest(n0) = <<>>
        BY <1>2
      <3>2. Bytes(Rest(n0)) = 0
        BY <3>1, BytesEmpty
      <3> QED
        BY <2>4, <3>2
    <2>7. n0 < Len(list) /\ n0 \in 0 .. Len(list)
      BY <1>2, <2>4, <2>6
    <2> HIDE DEF E, P
    <2> QED
      BY <2>4, <2>5, <2>7
  <1> QED
    BY <1>3, <1>4

----------------------------------------------------------------------------
(* The invariant.                                                          *)

LruInv ==
    /\ hashCap \in Caps
    /\ Matches(bks, hashCap, list)
    /\ LenIsBytes
    /\ Bounded
    /\ TableHasRoom

LEMMA InitHolds == Init => LruInv
  <1> SUFFICES ASSUME Init PROVE LruInv
    OBVIOUS
  <1>1. hashCap \in Caps
    BY LruAssumption DEF Init, Caps
  <1>2. Matches(bks, hashCap, list)
    BY DEF Init, Matches, Table
  <1>3. LenIsBytes /\ Bounded
    BY BytesEmpty, LruAssumption DEF Init, LenIsBytes, Bounded
  <1>4. TableHasRoom
    BY <1>1 DEF Init, TableHasRoom, Grows, Caps
  <1> QED
    BY <1>1, <1>2, <1>3, <1>4 DEF LruInv

\* Putting a node that is missing, in the table as it is or in the grown one.
LEMMA PutHolds ==
    ASSUME hashCap \in Caps, NEW b, NEW kept, Matches(b, hashCap, kept),
           NEW n, n = Bytes(kept), Len(kept) <= hashCap,
           NEW k \in Keys, NEW v \in Values,
           \A j \in DOMAIN kept : kept[j].key # k,
           Put(k, v, b, kept, n)
    PROVE  /\ hashCap' \in Caps
           /\ Matches(bks', hashCap', list')
           /\ list' = <<[key |-> k, value |-> v]>> \o kept
           /\ len' = Bytes(list') /\ len' = n + Size[v]
           /\ TableHasRoom'
  <1> DEFINE node == [key |-> k, value |-> v]
             c    == IF Grows(n) THEN 2 * hashCap ELSE hashCap
             tab  == IF Grows(n) THEN Rehashed(b, hashCap, n) ELSE b
  <1>1. /\ hashCap' = c /\ len' = n + Size[v]
        /\ list' = IF n = 0 THEN <<node>> ELSE <<node>> \o kept
        /\ \E d \in Targets(tab, c, k) : bks' = [tab EXCEPT ![At(c, k, d)] = node]
    BY DEF Put
  <1>2. /\ kept \in Seq(Node) /\ node \in Node /\ node.key = k /\ node.value = v
        /\ <<node>> \in Seq(Node) /\ Len(kept) \in Nat
        /\ hashCap \in Nat /\ hashCap > 0 /\ n \in Nat
    <2>1. kept \in Seq(Node) /\ Len(kept) \in Nat
      BY DEF Matches
    <2>2. n \in Nat
      BY <2>1, BytesFinite
    <2>3. node \in Node /\ node.key = k /\ node.value = v
      BY DEF Node
    <2> HIDE DEF node
    <2>4. <<node>> \in Seq(Node)
      BY <2>3
    <2> QED
      BY <2>1, <2>2, <2>3, <2>4 DEF Caps
  <1>3. Len(kept) <= n
    BY <1>2, BytesAtLeast
  <1>4. list' = <<node>> \o kept
    <2>1. CASE n = 0
      <3>1. kept = <<>>
        BY <1>2, <1>3, <2>1
      <3> HIDE DEF node
      <3> QED
        BY <1>1, <1>2, <2>1, <3>1
    <2>2. CASE n # 0
      BY <1>1, <2>2
    <2> QED
      BY <2>1, <2>2
  <1>5. c \in Caps /\ Matches(tab, c, kept)
    <2>1. CASE Grows(n)
      <3>1. Matches(Rehashed(b, hashCap, n), 2 * hashCap, kept)
        BY <1>2, <1>3, RehashedMatches
      <3>2. 2 * hashCap \in Caps
        BY <1>2 DEF Caps
      <3> QED
        BY <2>1, <3>1, <3>2
    <2>2. CASE ~Grows(n)
      BY <2>2
    <2> QED
      BY <2>1, <2>2
  <1>6. Len(kept) < c
    BY <1>2, <1>3 DEF Grows
  <1> HIDE DEF c, tab
  <1>7. PICK d \in Targets(tab, c, k) : bks' = [tab EXCEPT ![At(c, k, d)] = node]
    BY <1>1
  <1>8. \A i \in Buckets(c) : tab[i] # NULL => tab[i].key # k
    BY <1>5 DEF Matches
  <1>9. At(c, k, d) \in Buckets(c) /\ tab[At(c, k, d)] = NULL
    BY <1>5, <1>8, TargetIsFree DEF Matches
  <1> HIDE DEF node
  <1>10. Matches([tab EXCEPT ![At(c, k, d)] = node], c, <<node>> \o kept)
    BY <1>2, <1>5, <1>9, PutMatches
  <1>11. Matches(bks', hashCap', list')
    BY <1>1, <1>4, <1>7, <1>10
  <1>12. len' = Bytes(list')
    <2>1. Bytes(<<node>> \o kept) = Bytes(<<node>>) + Bytes(kept)
      BY <1>2, BytesConcat
    <2>2. Bytes(<<node>>) = Size[v] /\ Size[v] \in Nat
      BY <1>2, BytesOne
    <2> QED
      BY <1>1, <1>2, <1>4, <2>1, <2>2
  <1>13. TableHasRoom'
    <2>1. Len(list') <= hashCap'
      <3>1. Len(list') = Len(kept) + 1
        BY <1>2, <1>4
      <3> QED
        BY <1>1, <1>2, <1>5, <1>6, <3>1 DEF Caps
    <2>2. list' \in Seq(Node)
      BY <1>11 DEF Matches
    <2>3. Len(list') <= len' /\ Len(list') \in Nat /\ len' \in Nat
      BY <1>12, <2>2, BytesAtLeast, BytesFinite
    <2>4. hashCap' \in Nat
      BY <1>1, <1>5 DEF Caps
    <2> QED
      BY <2>1, <2>3, <2>4 DEF TableHasRoom, Grows
  <1> QED
    BY <1>1, <1>4, <1>5, <1>11, <1>12, <1>13 DEF node

\* A request that is missing is in no node.
LEMMA MissIsMissing ==
    ASSUME LruInv, NEW k \in Keys, Miss(k)
    PROVE  \A j \in DOMAIN list : list[j].key # k
  <1> SUFFICES ASSUME NEW j \in DOMAIN list, list[j].key = k PROVE FALSE
    OBVIOUS
  <1>1. Matches(bks, hashCap, list) /\ hashCap \in Caps /\ Lookup(bks, hashCap, k) = NULL
    BY DEF LruInv, Miss
  <1>2. Lookup(bks, hashCap, k) = list[j].value
    BY <1>1, LookupIs
  <1>3. list[j].value \in Values
    BY <1>1, Listed DEF Matches
  <1> QED
    BY <1>1, <1>2, <1>3, LruAssumption

\* What a store that fits does.
LEMMA FitsHolds ==
    ASSUME LruInv, NEW k \in Keys, NEW v \in Values, StoreFits(k, v)
    PROVE  /\ LruInv'
           /\ list' = <<[key |-> k, value |-> v]>> \o list
  <1>1. /\ hashCap \in Caps /\ Matches(bks, hashCap, list) /\ len = Bytes(list)
        /\ Len(list) <= hashCap
    BY DEF LruInv, LenIsBytes, TableHasRoom
  <1>2. Miss(k) /\ Size[v] + len < Cap /\ Put(k, v, bks, list, len)
    BY DEF StoreFits
  <1>3. \A j \in DOMAIN list : list[j].key # k
    BY <1>2, MissIsMissing
  <1>4. /\ hashCap' \in Caps
        /\ Matches(bks', hashCap', list')
        /\ list' = <<[key |-> k, value |-> v]>> \o list
        /\ len' = Bytes(list') /\ len' = len + Size[v]
        /\ TableHasRoom'
    BY <1>1, <1>2, <1>3, PutHolds
  <1>5. len \in Nat /\ Size[v] \in Nat
    BY <1>1, BytesFinite, LruAssumption DEF Matches
  <1> QED
    BY <1>2, <1>4, <1>5 DEF LruInv, LenIsBytes, Bounded

\* What a store that makes room does.
LEMMA ReleasingHolds ==
    ASSUME LruInv, NEW k \in Keys, NEW v \in Values, StoreReleasing(k, v)
    PROVE  LET kept == Kept(Size[v]) IN
           /\ LruInv'
           /\ list' = <<[key |-> k, value |-> v]>> \o kept
           /\ Len(kept) \in 0 .. Len(list) /\ kept = SubSeq(list, 1, Len(kept))
           /\ kept = <<>> \/ Bytes(kept) + Size[v] < Cap
  <1> DEFINE kept == Kept(Size[v])
             gone == SubSeq(list, Len(kept) + 1, Len(list))
  <1>1. /\ hashCap \in Caps /\ Matches(bks, hashCap, list) /\ len = Bytes(list)
        /\ Len(list) <= hashCap /\ hashCap \in Nat /\ list \in Seq(Node)
        /\ Len(list) \in Nat
    BY DEF LruInv, LenIsBytes, TableHasRoom, Caps, Matches
  <1>2. /\ Miss(k) /\ Size[v] + len >= Cap
        /\ Put(k, v, Without(bks, hashCap, gone), kept, len - Bytes(gone))
    BY DEF StoreReleasing
  <1>3. Size[v] \in Nat \ {0}
    BY LruAssumption
  <1>4. /\ kept \in Seq(Node) /\ gone \in Seq(Node)
        /\ Len(kept) \in 0 .. Len(list) /\ kept = SubSeq(list, 1, Len(kept))
        /\ list = kept \o gone
        /\ kept # <<>> => Bytes(gone) >= Size[v] /\ Len(kept) < Len(list)
    BY <1>1, <1>3, KeptParts
  <1> HIDE DEF kept, gone
  <1>5. Matches(Without(bks, hashCap, gone), hashCap, kept)
    BY <1>1, <1>4, WithoutMatches
  <1>6. /\ Bytes(list) = Bytes(kept) + Bytes(gone)
        /\ Bytes(kept) \in Nat /\ Bytes(gone) \in Nat
    BY <1>4, BytesConcat, BytesFinite
  <1>7. len - Bytes(gone) = Bytes(kept)
    BY <1>1, <1>6
  <1>8. \A j \in DOMAIN kept : kept[j].key # k
    <2>1. \A j \in DOMAIN kept : j \in DOMAIN list /\ list[j] = kept[j]
      BY <1>4
    <2> QED
      BY <1>2, <2>1, MissIsMissing
  <1>9. Len(kept) <= hashCap
    BY <1>1, <1>4
  <1>10. /\ hashCap' \in Caps
         /\ Matches(bks', hashCap', list')
         /\ list' = <<[key |-> k, value |-> v]>> \o kept
         /\ len' = Bytes(list') /\ len' = Bytes(kept) + Size[v]
         /\ TableHasRoom'
    <2>1. Put(k, v, Without(bks, hashCap, gone), kept, Bytes(kept))
      BY <1>2, <1>7
    <2> QED
      BY <1>1, <1>5, <1>8, <1>9, <2>1, PutHolds
  <1>11. kept = <<>> \/ Bytes(kept) + Size[v] < Cap
    <2> SUFFICES ASSUME kept # <<>> PROVE Bytes(kept) + Size[v] < Cap
      OBVIOUS
    <2>1. Len(kept) >= 1 /\ Len(list) # 1
      BY <1>1, <1>4
    <2>2. len < Cap
      BY <2>1 DEF LruInv, Bounded
    <2> QED
      BY <1>1, <1>3, <1>4, <1>6, <2>2, LruAssumption
  <1>12. Bounded'
    <2>1. CASE kept = <<>>
      <3>1. Len(<<[key |-> k, value |-> v]>> \o <<>>) = 1
        OBVIOUS
      <3> QED
        BY <1>10, <2>1, <3>1 DEF Bounded
    <2>2. CASE kept # <<>>
      BY <1>10, <1>11, <2>2 DEF Bounded
    <2> QED
      BY <2>1, <2>2
  <1>13. LruInv'
    BY <1>10, <1>12 DEF LruInv, LenIsBytes
  <1> QED
    BY <1>4, <1>10, <1>11, <1>13 DEF kept

LEMMA NextHolds == LruInv /\ [Next]_vars => LruInv'
  <1> SUFFICES ASSUME LruInv, [Next]_vars PROVE LruInv'
    OBVIOUS
  <1>1. CASE Next
    <2>1. PICK k \in Keys, v \in Values : StoreFits(k, v) \/ StoreReleasing(k, v)
      BY <1>1 DEF Next
    <2> QED
      BY <2>1, FitsHolds, ReleasingHolds
  <1>2. CASE UNCHANGED vars
    BY <1>2 DEF vars, LruInv, LenIsBytes, Bounded, TableHasRoom, Grows
  <1> QED
    BY <1>1, <1>2

LEMMA IInvHolds == Spec => []LruInv
  BY InitHolds, NextHolds, PTL DEF Spec

----------------------------------------------------------------------------
(* The theorems.                                                           *)

\* Releasing nodes, probing over the holes they leave and growing the table
\* lose and duplicate no node (lru_hash_set, lru_hash_release,
\* lru_hash_realloc), for any hash function and any sizes.
THEOREM SameNodesHolds == Spec => []SameNodes
  <1>1. LruInv => SameNodes
    <2> SUFFICES ASSUME LruInv PROVE SameNodes
      OBVIOUS
    <2>1. Matches(bks, hashCap, list)
      BY DEF LruInv
    <2>2. \A j \in DOMAIN list : list[j] # NULL
      BY <2>1, Listed DEF Matches
    <2>3. {bks[i] : i \in Buckets(hashCap)} \ {NULL} = {list[i] : i \in DOMAIN list}
      BY <2>1, <2>2 DEF Matches
    <2> QED
      BY <2>1, <2>3 DEF SameNodes, Matches
  <1> QED
    BY <1>1, IInvHolds, PTL

\* `len' is what the responses in the list have, so lru_list_set links the
\* first node only when the list is empty.
THEOREM LenIsBytesHolds == Spec => []LenIsBytes
  <1>1. LruInv => LenIsBytes
    BY DEF LruInv
  <1> QED
    BY <1>1, IInvHolds, PTL

\* The cache never holds more than its capacity, but for one response that
\* exceeds it alone (lru_set, lru_release).
THEOREM BoundedHolds == Spec => []Bounded
  <1>1. LruInv => Bounded
    BY DEF LruInv
  <1> QED
    BY <1>1, IInvHolds, PTL

\* lru_hash_set always finds a bucket, though it grows the table by bytes.
THEOREM TableHasRoomHolds == Spec => []TableHasRoom
  <1>1. LruInv => TableHasRoom
    BY DEF LruInv
  <1> QED
    BY <1>1, IInvHolds, PTL

----------------------------------------------------------------------------
(* The cache answers as a FIFO cache.                                      *)

Pair == Keys \X Values

\* The entries of a list, as the refinement mapping takes them.
Entries(s) == [i \in DOMAIN s |-> <<s[i].key, s[i].value>>]

LEMMA EntriesAre ==
    ASSUME NEW s \in Seq(Node)
    PROVE  /\ Entries(s) \in Seq(Pair) /\ Len(Entries(s)) = Len(s)
           /\ DOMAIN Entries(s) = DOMAIN s
           /\ \A i \in DOMAIN s : Entries(s)[i] = <<s[i].key, s[i].value>>
           /\ \A i \in DOMAIN s : Entries(s)[i][1] = s[i].key /\ Entries(s)[i][2] = s[i].value
  <1>1. \A i \in DOMAIN s : <<s[i].key, s[i].value>> \in Pair
    BY Listed DEF Pair
  <1>2. DOMAIN s = 1 .. Len(s) /\ Len(s) \in Nat
    OBVIOUS
  <1>3. Entries(s) = [i \in 1 .. Len(s) |-> <<s[i].key, s[i].value>>]
    BY <1>2 DEF Entries
  <1>4. Entries(s) \in Seq(Pair) /\ Len(Entries(s)) = Len(s)
    <2> DEFINE m == Len(s)
    <2>1. Entries(s) \in [1 .. m -> Pair] /\ m \in Nat
      BY <1>1, <1>2, <1>3
    <2> HIDE DEF m
    <2>2. Entries(s) \in Seq(Pair)
      BY <2>1, SeqDef
    <2>3. Len(Entries(s)) = m
      BY <2>1, <2>2, LenProperties
    <2> QED
      BY <2>2, <2>3 DEF m
  <1> QED
    BY <1>2, <1>3, <1>4

\* The promise counts the same bytes.
LEMMA EntriesBytes ==
    ASSUME NEW s \in Seq(Node)
    PROVE  Cache!Bytes(Entries(s)) = Bytes(s)
  <1> DEFINE e == Entries(s)
             F == {{i} \X (1 .. Size[e[i][2]]) : i \in DOMAIN e}
             G == {{i} \X (1 .. Size[s[i].value]) : i \in DOMAIN s}
  <1>1. DOMAIN e = DOMAIN s /\ \A i \in DOMAIN s : e[i][2] = s[i].value
    BY EntriesAre
  <1> HIDE DEF e
  <1>2. F = G
    BY <1>1
  <1>3. Cache!Bytes(e) = Cardinality(UNION F) /\ Bytes(s) = Cardinality(UNION G)
    BY DEF Cache!Bytes, Bytes, Cache!Cardinality, Cardinality
  <1> QED
    BY <1>2, <1>3 DEF e

\* The youngest entries are those of the youngest nodes.
LEMMA EntriesKept ==
    ASSUME NEW s \in Seq(Node), NEW n \in 0 .. Len(s)
    PROVE  Entries(SubSeq(s, 1, n)) = SubSeq(Entries(s), 1, n)
  <1> DEFINE f == SubSeq(s, 1, n)
  <1>1. /\ f \in Seq(Node) /\ Len(f) = n /\ n \in Nat
        /\ \A i \in 1 .. n : f[i] = s[i] /\ i \in DOMAIN s /\ i \in DOMAIN f
    OBVIOUS
  <1> HIDE DEF f
  <1>2. /\ Entries(f) \in Seq(Pair) /\ Len(Entries(f)) = n
        /\ \A i \in 1 .. n : Entries(f)[i] = <<s[i].key, s[i].value>>
    BY <1>1, EntriesAre
  <1>3. /\ Entries(s) \in Seq(Pair) /\ Len(Entries(s)) = Len(s)
        /\ \A i \in 1 .. n : Entries(s)[i] = <<s[i].key, s[i].value>>
    BY <1>1, EntriesAre
  <1> DEFINE g == SubSeq(Entries(s), 1, n)
  <1>4. /\ g \in Seq(Pair) /\ Len(g) = n
        /\ \A i \in 1 .. n : g[i] = Entries(s)[i]
    <2> DEFINE e == Entries(s)
    <2>1. e \in Seq(Pair) /\ n \in 0 .. Len(e)
      BY <1>3
    <2> HIDE DEF e
    <2>2. /\ SubSeq(e, 1, n) \in Seq(Pair) /\ Len(SubSeq(e, 1, n)) = n
          /\ \A i \in 1 .. n : SubSeq(e, 1, n)[i] = e[i]
      BY <2>1
    <2> QED
      BY <2>2 DEF e
  <1> HIDE DEF g
  <1>5. Entries(f) = g
    <2>1. Len(Entries(f)) = Len(g) /\ \A i \in 1 .. Len(g) : Entries(f)[i] = g[i]
      BY <1>2, <1>3, <1>4
    <2> QED
      BY <1>2, <1>4, <2>1, SeqEqual
  <1> QED
    BY <1>5 DEF f, g

LEMMA EntriesPut ==
    ASSUME NEW s \in Seq(Node), NEW k \in Keys, NEW v \in Values
    PROVE  Entries(<<[key |-> k, value |-> v]>> \o s) = <<<<k, v>>>> \o Entries(s)
  <1> DEFINE n == [key |-> k, value |-> v]
             u == <<n>> \o s
             p == <<k, v>>
             e == Entries(s)
             w == <<p>> \o e
  <1>1. n \in Node /\ n.key = k /\ n.value = v /\ p \in Pair
    BY DEF Node, Pair
  <1>2. e \in Seq(Pair) /\ Len(e) = Len(s) /\ DOMAIN s = 1 .. Len(s) /\ Len(s) \in Nat
        /\ \A i \in DOMAIN s : e[i] = <<s[i].key, s[i].value>>
    BY EntriesAre
  <1> HIDE DEF n, p, e
  <1>3. /\ u \in Seq(Node) /\ Len(u) = Len(s) + 1 /\ DOMAIN u = 1 .. Len(s) + 1
        /\ u[1] = n
        /\ \A i \in DOMAIN u \ {1} : i - 1 \in DOMAIN s /\ u[i] = s[i - 1]
    BY <1>1
  <1>4. /\ w \in Seq(Pair) /\ Len(w) = Len(s) + 1
        /\ w[1] = p
        /\ \A i \in DOMAIN u \ {1} : w[i] = e[i - 1]
    BY <1>1, <1>2, <1>3
  <1> HIDE DEF u, w
  <1>5. /\ Entries(u) \in Seq(Pair) /\ Len(Entries(u)) = Len(s) + 1
        /\ \A i \in DOMAIN u : Entries(u)[i] = <<u[i].key, u[i].value>>
    BY <1>3, EntriesAre
  <1>6. ASSUME NEW i \in 1 .. Len(s) + 1 PROVE Entries(u)[i] = w[i]
    <2>1. CASE i = 1
      <3>1. Entries(u)[i] = <<n.key, n.value>>
        BY <1>3, <1>5, <2>1
      <3> QED
        BY <1>1, <1>4, <2>1, <3>1 DEF p
    <2>2. CASE i # 1
      <3>1. i - 1 \in DOMAIN s /\ u[i] = s[i - 1]
        BY <1>3, <2>2
      <3>2. Entries(u)[i] = <<s[i - 1].key, s[i - 1].value>>
        BY <1>3, <1>5, <3>1
      <3> QED
        BY <1>2, <1>3, <1>4, <2>2, <3>1, <3>2
    <2> QED
      BY <2>1, <2>2
  <1>7. Entries(u) = w
    BY <1>4, <1>5, <1>6, SeqEqual
  <1> QED
    BY <1>7 DEF u, w, n, p, e

\* What a look-up finds is what the entries say.
LEMMA AnswerIs ==
    ASSUME NEW c \in Caps, NEW b, NEW s, Matches(b, c, s)
    PROVE  [k \in Keys |-> Lookup(b, c, k)]
             = [x \in Keys |->
                  IF \E i \in DOMAIN Entries(s) : Entries(s)[i][1] = x
                  THEN LET i == CHOOSE i \in DOMAIN Entries(s) : Entries(s)[i][1] = x
                       IN  Entries(s)[i][2]
                  ELSE NULL]
  <1>0. s \in Seq(Node)
    BY DEF Matches
  <1> DEFINE e == Entries(s)
  <1>1. /\ DOMAIN e = DOMAIN s
        /\ \A i \in DOMAIN s : e[i][1] = s[i].key /\ e[i][2] = s[i].value
    BY <1>0, EntriesAre
  <1> HIDE DEF e
  <1>2. ASSUME NEW x \in Keys
        PROVE  Lookup(b, c, x) = IF \E i \in DOMAIN e : e[i][1] = x
                                 THEN e[CHOOSE i \in DOMAIN e : e[i][1] = x][2]
                                 ELSE NULL
    <2>1. CASE \E i \in DOMAIN e : e[i][1] = x
      <3> DEFINE j == CHOOSE i \in DOMAIN e : e[i][1] = x
      <3>1. j \in DOMAIN e /\ e[j][1] = x
        BY <2>1
      <3> HIDE DEF j
      <3>2. j \in DOMAIN s /\ s[j].key = x /\ e[j][2] = s[j].value
        BY <1>1, <3>1
      <3>3. Lookup(b, c, x) = s[j].value
        BY <3>2, LookupIs
      <3> QED
        BY <2>1, <3>2, <3>3 DEF j
    <2>2. CASE ~\E i \in DOMAIN e : e[i][1] = x
      <3>1. \A j \in DOMAIN s : s[j].key # x
        BY <1>1, <2>2
      <3>2. Lookup(b, c, x) = NULL
        BY <3>1, LookupIs
      <3> QED
        BY <2>2, <3>2
    <2> QED
      BY <2>1, <2>2
  <1> QED
    BY <1>2 DEF e

LEMMA MappedInit == Init => Cache!Init
  <1> SUFFICES ASSUME Init PROVE Cache!Init
    OBVIOUS
  <1>1. list = <<>>
    BY DEF Init
  <1>2. [i \in DOMAIN list |-> <<list[i].key, list[i].value>>] = <<>>
    <2>1. Entries(list) = <<>>
      <3>1. list \in Seq(Node) /\ Len(list) = 0
        BY <1>1
      <3>2. Entries(list) \in Seq(Pair) /\ Len(Entries(list)) = 0
        BY <3>1, EntriesAre
      <3> QED
        BY <3>2
    <2> QED
      BY <2>1 DEF Entries
  <1>3. ASSUME NEW k \in Keys PROVE Lookup(bks, hashCap, k) = NULL
    <2>1. hashCap \in Caps /\ Matches(bks, hashCap, list)
      BY InitHolds DEF LruInv
    <2>2. \A j \in DOMAIN list : list[j].key # k
      BY <1>1
    <2> QED
      BY <2>1, <2>2, LookupIs
  <1> QED
    BY <1>2, <1>3 DEF Cache!Init

\* A step that puts the entry in front of the n youngest stores it.
LEMMA MappedStore ==
    ASSUME LruInv, LruInv', NEW k \in Keys, NEW v \in Values, Miss(k),
           NEW n \in 0 .. Len(list),
           list' = <<[key |-> k, value |-> v]>> \o SubSeq(list, 1, n),
           Bytes(list) + Size[v] < Cap => n = Len(list),
           n = 0 \/ Bytes(SubSeq(list, 1, n)) + Size[v] < Cap
    PROVE  Cache!Next
  <1> DEFINE e == Entries(list)
             kept == SubSeq(e, 1, n)
  <1>1. /\ list \in Seq(Node) /\ SubSeq(list, 1, n) \in Seq(Node)
        /\ hashCap' \in Caps /\ Matches(bks', hashCap', list')
    BY SplitAt DEF LruInv, Matches
  <1>2. kept = Entries(SubSeq(list, 1, n)) /\ Len(e) = Len(list)
    BY <1>1, EntriesKept, EntriesAre
  <1>3. Entries(list') = <<<<k, v>>>> \o kept
    BY <1>1, <1>2, EntriesPut
  <1>4. Cache!Bytes(e) = Bytes(list) /\ Cache!Bytes(kept) = Bytes(SubSeq(list, 1, n))
    BY <1>1, <1>2, EntriesBytes
  <1>5. Lookup(bks, hashCap, k) = NULL
    BY DEF Miss
  <1>6. [x \in Keys |-> Lookup(bks', hashCap', x)]
             = [x \in Keys |->
                  IF \E i \in DOMAIN Entries(list') : Entries(list')[i][1] = x
                  THEN LET i == CHOOSE i \in DOMAIN Entries(list') : Entries(list')[i][1] = x
                       IN  Entries(list')[i][2]
                  ELSE NULL]
    <2>1. hashCap' \in Caps /\ Matches(bks', hashCap', list')
      BY <1>1
    <2> QED
      BY <2>1, AnswerIs
  <1>7. Cache!Store(k, v)
    <2>1. [x \in Keys |-> Lookup(bks, hashCap, x)][k] = NULL
      BY <1>5
    <2>2. \E m \in 0 .. Len(e) :
             /\ Cache!Bytes(e) + Size[v] < Cap => m = Len(e)
             /\ m = 0 \/ Cache!Bytes(SubSeq(e, 1, m)) + Size[v] < Cap
             /\ Entries(list') = <<<<k, v>>>> \o SubSeq(e, 1, m)
      <3>1. n \in 0 .. Len(e)
        BY <1>2
      <3>2. Cache!Bytes(e) + Size[v] < Cap => n = Len(e)
        BY <1>2, <1>4
      <3>3. n = 0 \/ Cache!Bytes(kept) + Size[v] < Cap
        BY <1>4
      <3> HIDE DEF e
      <3> QED
        BY <1>3, <3>1, <3>2, <3>3
    <2> QED
      BY <1>6, <2>1, <2>2 DEF Cache!Store, Entries
  <1> QED
    BY <1>7 DEF Cache!Next

LEMMA MappedNext == LruInv /\ LruInv' /\ [Next]_vars => [Cache!Next]_(Cache!vars)
  <1> SUFFICES ASSUME LruInv, LruInv', [Next]_vars PROVE [Cache!Next]_(Cache!vars)
    OBVIOUS
  <1>0. list \in Seq(Node) /\ len = Bytes(list) /\ Bytes(list) \in Nat /\ Len(list) \in Nat
    BY BytesFinite DEF LruInv, LenIsBytes, Matches
  <1>1. ASSUME NEW k \in Keys, NEW v \in Values, StoreFits(k, v)
        PROVE  Cache!Next
    <2>1. SubSeq(list, 1, Len(list)) = list
      BY <1>0, SubSeqFull
    <2>2. list' = <<[key |-> k, value |-> v]>> \o list
      BY <1>1, FitsHolds
    <2>3. Miss(k) /\ Bytes(list) + Size[v] < Cap
      BY <1>0, <1>1, LruAssumption DEF StoreFits
    <2> DEFINE n == Len(list)
    <2>4. n = Len(list) /\ SubSeq(list, 1, n) = list
      BY <2>1
    <2> HIDE DEF n
    <2>5. n \in 0 .. Len(list)
      BY <1>0, <2>4
    <2>6. list' = <<[key |-> k, value |-> v]>> \o SubSeq(list, 1, n)
      BY <2>2, <2>4
    <2>7. Bytes(SubSeq(list, 1, n)) + Size[v] < Cap
      BY <2>3, <2>4
    <2> QED
      BY <2>3, <2>4, <2>5, <2>6, <2>7, MappedStore
  <1>2. ASSUME NEW k \in Keys, NEW v \in Values, StoreReleasing(k, v)
        PROVE  Cache!Next
    <2> DEFINE n == Len(Kept(Size[v]))
    <2>1. /\ list' = <<[key |-> k, value |-> v]>> \o Kept(Size[v])
          /\ n \in 0 .. Len(list) /\ Kept(Size[v]) = SubSeq(list, 1, n)
          /\ Kept(Size[v]) = <<>> \/ Bytes(Kept(Size[v])) + Size[v] < Cap
      BY <1>2, ReleasingHolds
    <2>2. Miss(k) /\ ~(Bytes(list) + Size[v] < Cap)
      BY <1>0, <1>2, LruAssumption DEF StoreReleasing
    <2>3. n = 0 \/ Bytes(SubSeq(list, 1, n)) + Size[v] < Cap
      <3>1. CASE Kept(Size[v]) = <<>>
        <4>1. Len(<<>>) = 0
          OBVIOUS
        <4>2. n = 0
          BY <3>1, <4>1
        <4> HIDE DEF n
        <4> QED
          BY <4>2
      <3>2. CASE Bytes(Kept(Size[v])) + Size[v] < Cap
        <4> HIDE DEF n
        <4> QED
          BY <2>1, <3>2
      <3> QED
        BY <2>1, <3>1, <3>2
    <2>4. list' = <<[key |-> k, value |-> v]>> \o SubSeq(list, 1, n)
      BY <2>1
    <2> HIDE DEF n
    <2> QED
      BY <2>1, <2>2, <2>3, <2>4, MappedStore
  <1>3. CASE UNCHANGED vars
    BY <1>3 DEF vars, Cache!vars
  <1> QED
    BY <1>1, <1>2, <1>3 DEF Next

\* lru_get and lru_set are a FIFO cache: every look-up answers as the entries
\* say, and entries leave from the oldest end only and only to make room.
THEOREM ImplementsFifoCacheHolds == Spec => ImplementsFifoCache
  <1>1. Spec => []LruInv
    BY IInvHolds
  <1> QED
    BY <1>1, MappedInit, MappedNext, PTL DEF Spec, ImplementsFifoCache, Cache!Spec

----------------------------------------------------------------------------
(* The cache keeps the contract that the workers rely on.                  *)

\* What lru_get would find.
Found(b, c) == {<<k, Lookup(b, c, k)>> : k \in {x \in Keys : Lookup(b, c, x) # NULL}}

Contract == INSTANCE AnswerCache WITH pairs <- Found(bks, hashCap)

\* A list as a set of pairs.
Pairs(s) == {<<s[j].key, s[j].value>> : j \in DOMAIN s}

LEMMA FoundIs ==
    ASSUME NEW c \in Caps, NEW b, NEW s, Matches(b, c, s)
    PROVE  Found(b, c) = Pairs(s)
  <1>1. s \in Seq(Node)
    BY DEF Matches
  <1>2. ASSUME NEW k \in Keys, Lookup(b, c, k) # NULL
        PROVE  <<k, Lookup(b, c, k)>> \in Pairs(s)
    <2>1. PICK j \in DOMAIN s : s[j].key = k
      BY <1>2, LookupIs
    <2>2. Lookup(b, c, k) = s[j].value
      BY <2>1, LookupIs
    <2> QED
      BY <2>1, <2>2 DEF Pairs
  <1>3. ASSUME NEW j \in DOMAIN s
        PROVE  <<s[j].key, s[j].value>> \in Found(b, c)
    <2>1. s[j].key \in Keys /\ s[j].value \in Values
      BY <1>1, Listed
    <2>2. PICK k \in Keys : k = s[j].key
      BY <2>1
    <2>3. Lookup(b, c, k) = s[j].value
      BY <2>2, LookupIs
    <2>4. Lookup(b, c, k) # NULL
      BY <2>1, <2>3, LruAssumption
    <2> QED
      BY <2>2, <2>3, <2>4 DEF Found
  <1>4. Found(b, c) \subseteq Pairs(s)
    BY <1>2 DEF Found
  <1>5. Pairs(s) \subseteq Found(b, c)
    BY <1>3 DEF Pairs
  <1> QED
    BY <1>4, <1>5

LEMMA PairsPut ==
    ASSUME NEW s \in Seq(Node), NEW k \in Keys, NEW v \in Values
    PROVE  Pairs(<<[key |-> k, value |-> v]>> \o s) = Pairs(s) \cup {<<k, v>>}
  <1> DEFINE n == [key |-> k, value |-> v]
             u == <<n>> \o s
  <1>1. n \in Node /\ n.key = k /\ n.value = v
    BY DEF Node
  <1> HIDE DEF n
  <1>2. /\ u \in Seq(Node) /\ DOMAIN u = 1 .. Len(s) + 1 /\ u[1] = n
        /\ \A i \in DOMAIN u \ {1} : i - 1 \in DOMAIN s /\ u[i] = s[i - 1]
        /\ \A j \in DOMAIN s : j + 1 \in DOMAIN u /\ u[j + 1] = s[j]
        /\ 1 \in DOMAIN u
    BY <1>1
  <1> HIDE DEF u
  <1>3. ASSUME NEW i \in DOMAIN u PROVE <<u[i].key, u[i].value>> \in Pairs(s) \cup {<<k, v>>}
    <2>1. CASE i = 1
      BY <1>1, <1>2, <2>1
    <2>2. CASE i # 1
      <3>1. PICK j \in DOMAIN s : u[i] = s[j]
        BY <1>2, <2>2
      <3> QED
        BY <3>1 DEF Pairs
    <2> QED
      BY <2>1, <2>2
  <1>4. ASSUME NEW j \in DOMAIN s PROVE <<s[j].key, s[j].value>> \in Pairs(u)
    <2>1. PICK i \in DOMAIN u : u[i] = s[j]
      BY <1>2
    <2> QED
      BY <2>1 DEF Pairs
  <1>5. <<k, v>> \in Pairs(u)
    <2>1. PICK i \in DOMAIN u : u[i] = n
      BY <1>2
    <2>2. <<u[i].key, u[i].value>> \in Pairs(u)
      BY DEF Pairs
    <2> QED
      BY <1>1, <2>1, <2>2
  <1>6. Pairs(u) \subseteq Pairs(s) \cup {<<k, v>>}
    BY <1>3 DEF Pairs
  <1>7. Pairs(s) \subseteq Pairs(u)
    BY <1>4 DEF Pairs
  <1>8. Pairs(u) = Pairs(s) \cup {<<k, v>>}
    BY <1>5, <1>6, <1>7
  <1> QED
    BY <1>8 DEF u, n

\* A step that puts a node in front of some of the list.
LEMMA ContractStore ==
    ASSUME LruInv, LruInv', NEW k \in Keys, NEW v \in Values, Miss(k),
           NEW n \in 0 .. Len(list),
           list' = <<[key |-> k, value |-> v]>> \o SubSeq(list, 1, n)
    PROVE  Contract!Next
  <1>1. /\ list \in Seq(Node) /\ Found(bks, hashCap) = Pairs(list)
        /\ Found(bks', hashCap') = Pairs(list')
    <2>1. hashCap \in Caps /\ Matches(bks, hashCap, list)
      BY DEF LruInv
    <2>2. hashCap' \in Caps /\ Matches(bks', hashCap', list')
      BY DEF LruInv
    <2>3. list \in Seq(Node)
      BY <2>1 DEF Matches
    <2> QED
      BY <2>1, <2>2, <2>3, FoundIs
  <1> DEFINE kept == Pairs(SubSeq(list, 1, n))
  <1>2. kept \subseteq Pairs(list)
    <2>1. \A j \in DOMAIN SubSeq(list, 1, n) :
             j \in DOMAIN list /\ SubSeq(list, 1, n)[j] = list[j]
      BY <1>1
    <2> QED
      BY <2>1 DEF Pairs
  <1>3. Pairs(list') = kept \cup {<<k, v>>}
    BY <1>1, SplitAt, PairsPut
  <1> HIDE DEF kept
  <1>4. PICK e : e = <<k, v>>
    OBVIOUS
  <1>5. e \in Found(bks', hashCap') /\ e \in Keys \X Values
    BY <1>1, <1>3, <1>4
  <1>6. Contract!Missing(Found(bks, hashCap), e[1])
    <2>1. \A j \in DOMAIN list : list[j].key # k
      BY MissIsMissing
    <2>2. \A f \in Pairs(list) : f[1] # k
      BY <2>1 DEF Pairs
    <2> QED
      BY <1>1, <1>4, <2>2 DEF Contract!Missing
  <1>7. Found(bks', hashCap') \in Contract!Stored(Found(bks, hashCap), e[1], e[2])
    <2>1. Found(bks', hashCap') = kept \cup {<<e[1], e[2]>>}
      BY <1>1, <1>3, <1>4
    <2>2. kept \in SUBSET Found(bks, hashCap)
      BY <1>1, <1>2
    <2> QED
      BY <2>1, <2>2 DEF Contract!Stored
  <1> QED
    BY <1>5, <1>6, <1>7 DEF Contract!Next

\* A key that is found has the value it was stored with, whatever was released
\* to make room (lru_get, lru_set, lru_release): what a worker's use of the
\* cache rests on (CachesHold in WorkerIOProofs).
THEOREM KeepsContract == Spec => Contract!Spec
  <1>1. Init => Contract!Init
    <2> SUFFICES ASSUME Init PROVE Found(bks, hashCap) = {}
      BY DEF Contract!Init
    <2>1. Found(bks, hashCap) = Pairs(list)
      BY InitHolds, FoundIs DEF LruInv
    <2>2. list = <<>>
      BY DEF Init
    <2> QED
      BY <2>1, <2>2 DEF Pairs
  <1>2. LruInv /\ LruInv' /\ [Next]_vars => [Contract!Next]_(Found(bks, hashCap))
    <2> SUFFICES ASSUME LruInv, LruInv', [Next]_vars PROVE [Contract!Next]_(Found(bks, hashCap))
      OBVIOUS
    <2>1. ASSUME NEW k \in Keys, NEW v \in Values, StoreFits(k, v)
          PROVE  Contract!Next
      <3>1. list \in Seq(Node)
        BY DEF LruInv, Matches
      <3>2. PICK n : n = Len(list)
        OBVIOUS
      <3>3. n \in 0 .. Len(list) /\ SubSeq(list, 1, n) = list
        BY <3>1, <3>2, SubSeqFull
      <3>4. Miss(k)
        BY <2>1 DEF StoreFits
      <3>5. list' = <<[key |-> k, value |-> v]>> \o SubSeq(list, 1, n)
        BY <2>1, <3>3, FitsHolds
      <3> QED
        BY <3>3, <3>4, <3>5, ContractStore
    <2>2. ASSUME NEW k \in Keys, NEW v \in Values, StoreReleasing(k, v)
          PROVE  Contract!Next
      <3>1. PICK n : n = Len(Kept(Size[v]))
        OBVIOUS
      <3>2. /\ n \in 0 .. Len(list)
            /\ list' = <<[key |-> k, value |-> v]>> \o SubSeq(list, 1, n)
        BY <2>2, <3>1, ReleasingHolds
      <3>3. Miss(k)
        BY <2>2 DEF StoreReleasing
      <3> QED
        BY <3>2, <3>3, ContractStore
    <2>3. CASE UNCHANGED vars
      BY <2>3 DEF vars, Found
    <2> QED
      BY <2>1, <2>2, <2>3 DEF Next
  <1> QED
    BY <1>1, <1>2, IInvHolds, PTL DEF Spec, Contract!Spec
=============================================================================
