-------------------------- MODULE TimerHeapProofs ---------------------------
(***************************************************************************)
(* The heap of timers stays a heap and loses no timer, for any timers and  *)
(* any number of them.                                                     *)
(*                                                                         *)
(* Where an argument goes up or down the heap, it takes the least place    *)
(* for which the claim would fail.                                         *)
(***************************************************************************)
EXTENDS TimerHeap, FiniteSetTheorems, FunctionTheorems, TLAPS

\* A set of numbers has a least one, and Min chooses it.
LEMMA MinIs ==
    ASSUME NEW S \in SUBSET Nat, S # {}
    PROVE  Min(S) \in S /\ \A y \in S : Min(S) <= y
  <1> DEFINE R == {p \in Nat \X Nat : p[1] < p[2]}
  <1>1. IsWellFoundedOn(R, Nat)
    BY NatLessThanWellFounded DEF OpToRel
  <1> HIDE DEF R
  <1>2. PICK x \in S : \A y \in S : ~(<<y, x>> \in R)
    BY <1>1, WFMin
  <1>3. \A y \in S : x <= y
    <2>1. ASSUME NEW y \in S, y < x PROVE <<y, x>> \in R
      BY <2>1 DEF R
    <2>2. \A y \in S : ~(y < x)
      BY <1>2, <2>1
    <2> QED
      BY <2>2
  <1> QED
    BY <1>3 DEF Min

\* A bounded set of numbers has a greatest one, and Max chooses it.
LEMMA MaxIs ==
    ASSUME NEW n \in Nat, NEW S \in SUBSET (0 .. n), S # {}
    PROVE  Max(S) \in S /\ \A y \in S : y <= Max(S)
  <1> DEFINE T == {x \in Nat : n - x \in S}
  <1>1. T # {}
    <2>1. PICK x \in S : TRUE
      OBVIOUS
    <2>2. n - x \in T
      BY <2>1
    <2> QED
      BY <2>2
  <1>2. Min(T) \in T /\ \A y \in T : Min(T) <= y
    BY <1>1, MinIs
  <1>3. ASSUME NEW y \in S PROVE y <= n - Min(T)
    <2>1. n - y \in T
      OBVIOUS
    <2> HIDE DEF T
    <2> QED
      BY <1>2, <2>1 DEF T
  <1> QED
    BY <1>2, <1>3 DEF Max

----------------------------------------------------------------------------
(* The places above a place.                                               *)

\* Half of a place.
LEMMA Half ==
    ASSUME NEW i \in Nat
    PROVE  /\ i \div 2 \in Nat
           /\ i > 0 => i \div 2 < i
           /\ i > 1 => i \div 2 > 0
           /\ 2 * (i \div 2) <= i /\ i <= 2 * (i \div 2) + 1
  OBVIOUS

\* The recursion that defines Upwards has a solution.
LEMMA UpwardsDef ==
    /\ Upwards[0] = {}
    /\ \A i \in Nat : i > 0 => Upwards[i] = {i} \cup Upwards[i \div 2]
  <1> DEFINE Closed(S) == \A x \in S : x > 1 => x \div 2 \in S
             g == [i \in Nat |-> {j \in 1 .. i :
                      \A S \in SUBSET Nat : i \in S /\ Closed(S) => j \in S}]
             F(f) == [i \in Nat |-> IF i = 0 THEN {} ELSE {i} \cup f[i \div 2]]
  <1>1. ASSUME NEW i \in Nat, i # 0
        PROVE  g[i] \subseteq {i} \cup g[i \div 2]
    <2> SUFFICES ASSUME NEW j \in g[i], j # i
                 PROVE  j \in g[i \div 2]
      OBVIOUS
    <2> DEFINE T == {i} \cup 0 .. i \div 2
    <2>1. j \in 1 .. i /\ i > 1
      BY <1>1
    <2>2. T \in SUBSET Nat /\ i \in T
      BY Half
    <2>3. Closed(T)
      <3> SUFFICES ASSUME NEW x \in T, x > 1 PROVE x \div 2 \in 0 .. i \div 2
        OBVIOUS
      <3> QED
        BY Half
    <2>4. j \in T
      BY <2>2, <2>3
    <2>5. j \in 1 .. i \div 2
      BY <2>1, <2>4, Half
    <2>6. ASSUME NEW S \in SUBSET Nat, i \div 2 \in S, Closed(S)
          PROVE  j \in S
      <3>1. S \cup {i} \in SUBSET Nat /\ i \in S \cup {i}
        OBVIOUS
      <3>2. Closed(S \cup {i})
        BY <2>6
      <3>3. j \in S \cup {i}
        BY <3>1, <3>2
      <3> QED
        BY <3>3
    <2> HIDE DEF Closed
    <2> QED
      BY <2>5, <2>6, Half
  <1>2. ASSUME NEW i \in Nat, i # 0
        PROVE  {i} \cup g[i \div 2] \subseteq g[i]
    <2>1. i \in g[i]
      BY <1>2
    <2>2. ASSUME NEW j \in g[i \div 2]
          PROVE  j \in g[i]
      <3>1. i \div 2 \in Nat /\ j \in 1 .. i \div 2 /\ j \in 1 .. i /\ i > 1
        BY Half, <1>2
      <3>2. ASSUME NEW S \in SUBSET Nat, i \in S, Closed(S)
            PROVE  j \in S
        <4>1. i \div 2 \in S
          BY <3>1, <3>2
        <4> QED
          BY <4>1, <3>1, <3>2
      <3> HIDE DEF Closed
      <3> QED
        BY <3>1, <3>2
    <2> QED
      BY <2>1, <2>2
  <1>3. g[0] = {}
    OBVIOUS
  <1>4. g = F(g)
    <2>1. ASSUME NEW i \in Nat
          PROVE  g[i] = IF i = 0 THEN {} ELSE {i} \cup g[i \div 2]
      <3> HIDE DEF g
      <3> QED
        BY <1>1, <1>2, <1>3
    <2>2. g = [i \in Nat |-> g[i]]
      OBVIOUS
    <2> HIDE DEF g
    <2> QED
      BY <2>1, <2>2
  <1> HIDE DEF g
  <1>5. Upwards = CHOOSE f : f = F(f)
    BY DEF Upwards
  <1>6. Upwards = F(Upwards)
    BY <1>4, <1>5
  <1>7. \A i \in Nat : Upwards[i] = IF i = 0 THEN {} ELSE {i} \cup Upwards[i \div 2]
    BY <1>6
  <1>8. Upwards[0] = {}
    BY <1>7
  <1>9. ASSUME NEW i \in Nat, i > 0 PROVE Upwards[i] = {i} \cup Upwards[i \div 2]
    <2>1. i # 0
      BY <1>9
    <2> QED
      BY <1>7, <2>1
  <1> QED
    BY <1>8, <1>9

\* The places above i lie between the root and i.
LEMMA UpwardsRange ==
    ASSUME NEW i \in Nat
    PROVE  Upwards[i] \subseteq 1 .. i
  <1> DEFINE Bad == {k \in Nat : ~(Upwards[k] \subseteq 1 .. k)}
  <1>1. Bad = {}
    <2> SUFFICES ASSUME Bad # {} PROVE FALSE
      OBVIOUS
    <2> DEFINE k == Min(Bad)
    <2>1. k \in Bad /\ \A l \in Bad : k <= l
      BY MinIs
    <2> HIDE DEF k
    <2>2. k > 0
      <3>1. k \in Nat /\ ~(Upwards[k] \subseteq 1 .. k)
        BY <2>1
      <3> QED
        BY <3>1, UpwardsDef
    <2>3. k \div 2 \in Nat /\ k \div 2 < k /\ Upwards[k] = {k} \cup Upwards[k \div 2]
      BY <2>1, <2>2, Half, UpwardsDef
    <2>4. k \div 2 \notin Bad
      BY <2>1, <2>3
    <2>5. Upwards[k \div 2] \subseteq 1 .. k \div 2
      BY <2>3, <2>4
    <2>6. Upwards[k] \subseteq 1 .. k
      BY <2>1, <2>2, <2>3, <2>5
    <2> QED
      BY <2>1, <2>6
  <1> QED
    BY <1>1

\* From any of them the way goes on up to the root.
LEMMA UpwardsClosed ==
    ASSUME NEW i \in Nat, NEW j \in Upwards[i], j > 1
    PROVE  j \div 2 \in Upwards[i]
  <1> DEFINE P(k) == \A l \in Upwards[k] : l > 1 => l \div 2 \in Upwards[k]
             Bad == {k \in Nat : ~P(k)}
  <1>1. Bad = {}
    <2> SUFFICES ASSUME Bad # {} PROVE FALSE
      OBVIOUS
    <2> DEFINE k == Min(Bad)
    <2>1. k \in Bad /\ \A l \in Bad : k <= l
      BY MinIs
    <2> HIDE DEF k
    <2>2. k > 0
      <3>1. k \in Nat /\ ~P(k) /\ P(0)
        BY <2>1, UpwardsDef
      <3> HIDE DEF P
      <3> QED
        BY <3>1
    <2>3. k \div 2 \in Nat /\ k \div 2 < k /\ Upwards[k] = {k} \cup Upwards[k \div 2]
      BY <2>1, <2>2, Half, UpwardsDef
    <2>4. P(k \div 2)
      <3>1. k \div 2 \notin Bad
        BY <2>1, <2>3
      <3> HIDE DEF P
      <3> QED
        BY <2>3, <3>1
    <2>5. k > 1 => k \div 2 \in Upwards[k \div 2]
      <3>1. k > 1 => k \div 2 > 0
        BY <2>1, Half
      <3>2. k \div 2 > 0 => k \div 2 \in Upwards[k \div 2]
        BY <2>3, UpwardsDef
      <3> QED
        BY <3>1, <3>2
    <2>6. P(k)
      BY <2>3, <2>4, <2>5
    <2> HIDE DEF P
    <2> QED
      BY <2>1, <2>6
  <1> QED
    BY <1>1

\* Of two of them, the upper is at or above the parent of the lower.
LEMMA UpwardsChain ==
    ASSUME NEW i \in Nat, NEW j \in Upwards[i], NEW k \in Upwards[i], j < k
    PROVE  j <= k \div 2
  <1> DEFINE P(n) == \A a, b \in Upwards[n] : a < b => a <= b \div 2
             Bad == {n \in Nat : ~P(n)}
  <1>1. Bad = {}
    <2> SUFFICES ASSUME Bad # {} PROVE FALSE
      OBVIOUS
    <2> DEFINE n == Min(Bad)
    <2>1. n \in Bad /\ \A l \in Bad : n <= l
      BY MinIs
    <2> HIDE DEF n
    <2>2. n > 0
      <3>1. n \in Nat /\ ~P(n) /\ P(0)
        BY <2>1, UpwardsDef
      <3> HIDE DEF P
      <3> QED
        BY <3>1
    <2>3. n \div 2 \in Nat /\ n \div 2 < n /\ Upwards[n] = {n} \cup Upwards[n \div 2]
      BY <2>1, <2>2, Half, UpwardsDef
    <2>4. P(n \div 2)
      <3>1. n \div 2 \notin Bad
        BY <2>1, <2>3
      <3> HIDE DEF P
      <3> QED
        BY <2>3, <3>1
    <2>5. Upwards[n \div 2] \subseteq 1 .. n \div 2
      BY <2>3, UpwardsRange
    <2>6. P(n)
      <3> SUFFICES ASSUME NEW a \in Upwards[n], NEW b \in Upwards[n], a < b
                   PROVE  a <= b \div 2
        OBVIOUS
      <3>1. CASE b = n
        BY <2>1, <2>3, <2>5, <3>1
      <3>2. CASE b # n
        BY <2>1, <2>3, <2>4, <2>5, <3>2
      <3> QED
        BY <3>1, <3>2
    <2> HIDE DEF P
    <2> QED
      BY <2>1, <2>6
  <1> QED
    BY <1>1

----------------------------------------------------------------------------
(* A push.                                                                 *)

Ordered(h) == \A i \in 2 .. Len(h) : h[i \div 2].due <= h[i].due

\* Where ptimer_heap_push puts the new timer: all it passed are due no
\* earlier, and the one it stopped below is due before it.
LEMMA PushedShape ==
    ASSUME NEW h \in Seq(Timers), NEW t \in Timers
    PROVE  \E top \in Upwards[Len(h) + 1] :
              /\ \A i \in Upwards[Len(h) + 1] \ {Len(h) + 1} :
                    i >= top => t.due <= h[i].due
              /\ top > 1 => h[top \div 2].due <= t.due
              /\ Pushed(h, t) = [i \in 1 .. Len(h) + 1 |->
                    IF i = top THEN t
                    ELSE IF i \in Upwards[Len(h) + 1] /\ i > top THEN h[i \div 2]
                    ELSE h[i]]
  <1> DEFINE p == Len(h) + 1
             U == Upwards[p]
             Free(q) == \A i \in U \ {p} : i >= q => ~(h[i].due < t.due)
             Q == {q \in U : Free(q)}
             top == Min(Q)
  <1>1. p \in Nat /\ p > 0 /\ U \subseteq 1 .. p /\ p \in U
    BY UpwardsRange, UpwardsDef
  <1>2. \A i \in U \ {p} : h[i].due \in Nat /\ i \in 1 .. Len(h)
    BY <1>1, TimerAssumption
  <1>3. t.due \in Nat
    BY TimerAssumption
  <1>4. p \in Q
    BY <1>1
  <1>5. top \in Q /\ \A q \in Q : top <= q
    <2>1. Q \in SUBSET Nat /\ Q # {}
      BY <1>1, <1>4
    <2> HIDE DEF Q
    <2> QED
      BY <2>1, MinIs
  <1>6. Pushed(h, t) = [i \in 1 .. p |->
            IF i = top THEN t ELSE IF i \in U /\ i > top THEN h[i \div 2] ELSE h[i]]
    BY DEF Pushed
  <1> HIDE DEF top
  <1>7. ASSUME NEW i \in U \ {p}, i >= top PROVE t.due <= h[i].due
    BY <1>2, <1>3, <1>5, <1>7
  <1>8. ASSUME top > 1 PROVE h[top \div 2].due <= t.due
    <2> DEFINE j == top \div 2
    <2>1. j \in U /\ j < top /\ j \in Nat /\ top \in Nat
      BY <1>1, <1>5, <1>8, UpwardsClosed, Half
    <2> HIDE DEF j
    <2>2. ~Free(j)
      BY <1>1, <1>5, <2>1
    <2>3. PICK i \in U \ {p} : i >= j /\ h[i].due < t.due
      BY <2>2
    <2>4. i < top
      BY <1>1, <1>5, <2>3
    <2>5. i <= j
      BY <1>1, <1>5, <2>4, UpwardsChain DEF j
    <2>6. i = j
      BY <1>1, <2>1, <2>3, <2>5
    <2> QED
      BY <1>2, <1>3, <2>3, <2>6 DEF j
  <1> QED
    BY <1>5, <1>6, <1>7, <1>8

\* A push leaves no timer due before the one above it.
LEMMA PushedOrdered ==
    ASSUME NEW h \in Seq(Timers), NEW t \in Timers, Ordered(h)
    PROVE  /\ Pushed(h, t) \in Seq(Timers)
           /\ Len(Pushed(h, t)) = Len(h) + 1
           /\ Ordered(Pushed(h, t))
  <1> DEFINE p == Len(h) + 1
             U == Upwards[p]
  <1>1. PICK top \in U :
              /\ \A i \in U \ {p} : i >= top => t.due <= h[i].due
              /\ top > 1 => h[top \div 2].due <= t.due
              /\ Pushed(h, t) = [i \in 1 .. p |->
                    IF i = top THEN t
                    ELSE IF i \in U /\ i > top THEN h[i \div 2] ELSE h[i]]
    BY PushedShape
  <1> DEFINE g == Pushed(h, t)
  <1>2. p \in Nat /\ p > 0 /\ U \subseteq 1 .. p /\ p \in U
    <2>1. p \in Nat /\ p > 0
      OBVIOUS
    <2> HIDE DEF p
    <2>2. U \subseteq 1 .. p
      BY <2>1, UpwardsRange
    <2>3. p \in U
      BY <2>1, UpwardsDef
    <2> QED
      BY <2>1, <2>2, <2>3
  <1>3. \A i \in U : i > 1 => i \div 2 \in U
    BY <1>2, UpwardsClosed
  <1>4. \A i, j \in U : i < j => i <= j \div 2
    BY <1>2, UpwardsChain
  <1>5. \A i \in 1 .. Len(h) : h[i] \in Timers /\ h[i].due \in Nat
    BY TimerAssumption
  <1>6. \A i \in 1 .. p : g[i] \in Timers
    <2> SUFFICES ASSUME NEW i \in 1 .. p PROVE g[i] \in Timers
      OBVIOUS
    <2>1. CASE i \in U /\ i > top
      BY <1>1, <1>2, <1>5, <2>1, Half
    <2>2. CASE ~(i \in U /\ i > top)
      <3>1. i # top => i # p
        BY <1>1, <1>2, <2>2
      <3> QED
        BY <1>1, <1>2, <1>5, <2>2, <3>1
    <2> QED
      BY <2>1, <2>2
  <1>7. g \in Seq(Timers) /\ Len(g) = p
    BY <1>1, <1>2, <1>6
  <1>8. ASSUME NEW i \in 2 .. p
        PROVE  g[i \div 2].due <= g[i].due
    <2> DEFINE j == i \div 2
    <2>1. j \in 1 .. p /\ j < i /\ j \in 1 .. Len(h) /\ i \in Nat /\ j \in Nat
      BY <1>2, Half
    <2>2. i \in U => j \in U
      BY <1>3
    <2>3. i <= Len(h) => h[j].due <= h[i].due
      BY DEF Ordered
    <2>4. j > 1 => h[j \div 2].due <= h[j].due
      BY <2>1 DEF Ordered
    <2>5. j > 1 => j \div 2 \in 1 .. Len(h)
      BY <2>1, Half
    <2>6. t.due \in Nat /\ top \in 1 .. p
      BY <1>2, TimerAssumption
    <2>7. i \in U /\ top < i => top <= j
      BY <1>4
    <2> HIDE DEF j
    <2>8. g[i] = IF i = top THEN t
                 ELSE IF i \in U /\ i > top THEN h[j] ELSE h[i]
      BY <1>1, <2>1 DEF j
    <2>9. g[j] = IF j = top THEN t
                 ELSE IF j \in U /\ j > top THEN h[j \div 2] ELSE h[j]
      BY <1>1, <2>1
    <2>10. i \in U => i \in 1 .. p
      BY <1>2
    <2>11. ASSUME i \in U, i > top PROVE g[j].due <= g[i].due
      <3>1. g[i] = h[j] /\ j \in U /\ top <= j
        BY <2>2, <2>6, <2>7, <2>8, <2>11
      <3>2. CASE j = top
        <4>1. t.due <= h[j].due
          BY <1>1, <2>1, <3>1, <3>2
        <4> QED
          BY <2>9, <3>1, <3>2, <4>1
      <3>3. CASE j # top
        <4>1. j > top /\ j > 1
          BY <2>1, <2>6, <3>1, <3>3
        <4> QED
          BY <2>1, <2>4, <2>6, <2>9, <3>1, <3>3, <4>1
      <3> QED
        BY <3>2, <3>3
    <2>12. ASSUME i = top PROVE g[j].due <= g[i].due
      <3>1. h[j].due <= t.due
        BY <1>1, <2>1, <2>12 DEF j
      <3> QED
        BY <2>1, <2>8, <2>9, <2>12, <3>1
    <2>13. ASSUME i < top PROVE g[j].due <= g[i].due
      <3>1. i # top /\ ~(i > top) /\ j # top /\ ~(j > top) /\ i <= Len(h)
        BY <1>2, <2>1, <2>6, <2>13
      <3> QED
        BY <2>3, <2>8, <2>9, <3>1
    <2>14. ASSUME i \notin U PROVE g[j].due <= g[i].due
      <3>1. i <= Len(h) /\ i # top
        BY <1>2, <2>14
      <3>2. g[i] = h[i] /\ h[j].due <= h[i].due
        BY <2>3, <2>8, <2>14, <3>1
      <3>3. g[j].due <= h[j].due
        <4>1. CASE j = top
          <5>1. t.due <= h[j].due
            BY <1>1, <1>2, <2>1, <4>1
          <5> QED
            BY <2>9, <4>1, <5>1
        <4>2. CASE j # top /\ j \in U /\ j > top
          <5>1. j > 1
            BY <2>1, <2>6, <4>2
          <5> QED
            BY <2>4, <2>9, <4>2, <5>1
        <4>3. CASE j # top /\ ~(j \in U /\ j > top)
          BY <1>5, <2>1, <2>9, <4>3
        <4> QED
          BY <4>1, <4>2, <4>3
      <3>4. g[j].due \in Nat /\ g[i].due \in Nat /\ h[j].due \in Nat
        BY <1>5, <1>6, <2>1, TimerAssumption
      <3> HIDE DEF g
      <3> QED
        BY <3>2, <3>3, <3>4
    <2> QED
      <3>1. g[j].due <= g[i].due
        BY <2>1, <2>6, <2>11, <2>12, <2>13, <2>14
      <3> QED
        BY <3>1 DEF j
  <1> QED
    BY <1>7, <1>8 DEF Ordered

----------------------------------------------------------------------------
(* A push rearranges the timers.                                           *)

\* How many times t occurs in h.
Count(h, t) == Cardinality({i \in DOMAIN h : h[i] = t})

Rearrangements(n) == {s \in [1 .. n -> 1 .. n] : \A i, k \in 1 .. n : s[i] = s[k] => i = k}

\* g, its first n timers rearranged.
Along(g, s, n) == [i \in 1 .. n |-> g[s[i]]]

\* A rearrangement of 1 .. n reaches every place.
LEMMA Rearranged ==
    ASSUME NEW n \in Nat, NEW s \in Rearrangements(n)
    PROVE  \A j \in 1 .. n : \E i \in 1 .. n : s[i] = j
  <1>1. IsFiniteSet(1 .. n)
    BY FS_Interval
  <1>2. s \in Injection(1 .. n, 1 .. n)
    BY DEF Injection, IsInjective, Rearrangements
  <1>3. s \in Surjection(1 .. n, 1 .. n)
    BY <1>1, <1>2, FS_Injection
  <1> QED
    BY <1>3 DEF Surjection

\* What is rearranged holds each timer as often as before.
LEMMA RearrangedCount ==
    ASSUME NEW n \in Nat, NEW g, DOMAIN g = 1 .. n, NEW s \in Rearrangements(n),
           NEW t
    PROVE  Count(Along(g, s, n), t) = Count(g, t)
  <1> DEFINE f == Along(g, s, n)
             S == {i \in 1 .. n : f[i] = t}
             T == {i \in 1 .. n : g[i] = t}
             r == [i \in S |-> s[i]]
  <1>0. f = [i \in 1 .. n |-> g[s[i]]]
    BY DEF Along
  <1> HIDE DEF f
  <1>1. IsFiniteSet(S)
    <2>1. IsFiniteSet(1 .. n) /\ S \in SUBSET (1 .. n)
      BY FS_Interval
    <2> QED
      BY <2>1, FS_Subset
  <1>2. r \in Bijection(S, T)
    <2>1. r \in [S -> T]
      BY <1>0 DEF Rearrangements
    <2>2. \A i, k \in S : r[i] = r[k] => i = k
      BY <1>0 DEF Rearrangements
    <2>3. ASSUME NEW j \in T PROVE \E i \in S : r[i] = j
      <3>1. PICK i \in 1 .. n : s[i] = j
        BY Rearranged
      <3>2. i \in S
        BY <1>0, <3>1
      <3> QED
        BY <3>1, <3>2
    <2> HIDE DEF r, S, T
    <2> QED
      BY <2>1, <2>2, <2>3 DEF Bijection, Injection, Surjection, IsInjective
  <1>3. Cardinality(S) = Cardinality(T)
    BY <1>1, <1>2, FS_Bijection DEF ExistsBijection
  <1> QED
    BY <1>0, <1>3 DEF Count, f

\* One more timer at the end is one more occurrence of it.
LEMMA LongerCount ==
    ASSUME NEW n \in Nat, NEW f, NEW g, DOMAIN f = 1 .. n + 1, DOMAIN g = 1 .. n,
           \A i \in 1 .. n : f[i] = g[i],
           NEW t
    PROVE  /\ Count(f, t) = Count(g, t) + (IF f[n + 1] = t THEN 1 ELSE 0)
           /\ Count(f, t) \in Nat /\ Count(g, t) \in Nat
  <1> DEFINE S == {i \in 1 .. n + 1 : f[i] = t}
             T == {i \in 1 .. n : g[i] = t}
  <1>1. IsFiniteSet(T) /\ Cardinality(T) \in Nat
    <2>1. IsFiniteSet(1 .. n) /\ T \in SUBSET (1 .. n)
      BY FS_Interval
    <2>2. IsFiniteSet(T)
      BY <2>1, FS_Subset
    <2> QED
      BY <2>2, FS_CardinalityType
  <1>0. Count(f, t) = Cardinality(S) /\ Count(g, t) = Cardinality(T)
    BY DEF Count
  <1>2. n + 1 \notin T
    OBVIOUS
  <1>3. CASE f[n + 1] = t
    <2>1. S = T \cup {n + 1}
      BY <1>3
    <2>2. Cardinality(S) = Cardinality(T) + 1
      <3> HIDE DEF S, T
      <3> QED
        BY <1>1, <1>2, <2>1, FS_AddElement
    <2> QED
      BY <1>0, <1>1, <1>3, <2>2
  <1>4. CASE f[n + 1] # t
    <2>1. S = T
      BY <1>4
    <2> QED
      <3> HIDE DEF S, T
      <3> QED
        BY <1>0, <1>1, <1>4, <2>1
  <1> QED
    BY <1>3, <1>4

\* A push keeps every timer of the heap and adds one: where each timer of the
\* new heap comes from, place Len(h) + 1 standing for the new one.
LEMMA PushedRearranges ==
    ASSUME NEW h \in Seq(Timers), NEW t \in Timers
    PROVE  \E s \in Rearrangements(Len(h) + 1) :
              /\ s[1] \in {1, Len(h) + 1}
              /\ DOMAIN Pushed(h, t) = 1 .. Len(h) + 1
              /\ \A i \in 1 .. Len(h) + 1 :
                    Pushed(h, t)[i] = IF s[i] = Len(h) + 1 THEN t ELSE h[s[i]]
  <1> DEFINE p == Len(h) + 1
             U == Upwards[p]
  <1>1. PICK top \in U :
              Pushed(h, t) = [i \in 1 .. p |->
                    IF i = top THEN t
                    ELSE IF i \in U /\ i > top THEN h[i \div 2] ELSE h[i]]
    BY PushedShape
  <1> DEFINE s == [i \in 1 .. p |->
                     IF i = top THEN p
                     ELSE IF i \in U /\ i > top THEN i \div 2 ELSE i]
  <1>2. p \in Nat /\ p > 0 /\ U \subseteq 1 .. p /\ p \in U /\ top \in 1 .. p
    BY UpwardsRange, UpwardsDef
  <1>3. \A i \in U : i > 1 => i \div 2 \in U
    BY <1>2, UpwardsClosed
  <1>4. \A i, j \in U : i < j => i <= j \div 2
    BY <1>2, UpwardsChain
  <1>5. ASSUME NEW i \in U, i > top
        PROVE  /\ i \div 2 \in U /\ i \div 2 >= top /\ i \div 2 < i
               /\ i \div 2 \in 1 .. p /\ i \div 2 # p
    BY <1>2, <1>3, <1>4, <1>5, Half
  <1>6. ASSUME NEW i \in 1 .. p
        PROVE  /\ i = top => s[i] = p
               /\ i # top /\ i \in U /\ i > top => s[i] = i \div 2
               /\ i # top /\ ~(i \in U /\ i > top) => s[i] = i /\ i # p
    BY <1>2
  <1>7. s \in [1 .. p -> 1 .. p]
    BY <1>2, <1>5
  <1>8. \A i \in 1 .. p : s[i] = p <=> i = top
    <2> SUFFICES ASSUME NEW i \in 1 .. p PROVE s[i] = p <=> i = top
      OBVIOUS
    <2>1. CASE i # top /\ i \in U /\ i > top
      <3>1. s[i] = i \div 2 /\ i \div 2 # p
        BY <1>5, <1>6, <2>1
      <3> QED
        BY <2>1, <3>1
    <2> HIDE DEF s
    <2> QED
      BY <1>6, <2>1
  <1> HIDE DEF s
  <1>9. ASSUME NEW i \in 1 .. p, NEW k \in 1 .. p, s[i] = s[k], i < k
        PROVE  FALSE
    <2> DEFINE Moved(x) == x # top /\ x \in U /\ x > top
    <2>1. CASE i = top \/ k = top
      BY <1>8, <1>9, <2>1
    <2>2. CASE i # top /\ k # top /\ ~Moved(k)
      <3>1. s[k] = k
        BY <1>6, <2>2
      <3>2. s[i] <= i
        BY <1>5, <1>6, <2>2
      <3> QED
        BY <1>9, <3>1, <3>2
    <2>3. CASE i # top /\ Moved(k)
      <3>1. s[k] = k \div 2 /\ k \div 2 \in U /\ k \div 2 >= top /\ k \div 2 \in 1 .. p
        BY <1>5, <1>6, <2>3
      <3>2. CASE Moved(i)
        <4>1. s[i] = i \div 2 /\ i \div 2 < i
          BY <1>5, <1>6, <3>2
        <4>2. i <= k \div 2
          BY <1>4, <1>9, <2>3, <3>2
        <4> QED
          BY <1>9, <3>1, <4>1, <4>2
      <3>3. CASE ~Moved(i)
        <4>1. s[i] = i
          BY <1>6, <2>3, <3>3
        <4>2. i \in U /\ i >= top
          BY <1>9, <3>1, <4>1
        <4> QED
          BY <1>2, <2>3, <3>3, <4>2
      <3> QED
        BY <3>2, <3>3
    <2> QED
      BY <2>1, <2>2, <2>3
  <1>10. \A i, k \in 1 .. p : s[i] = s[k] => i = k
    BY <1>2, <1>9
  <1>11. ASSUME NEW i \in 1 .. p
         PROVE  Pushed(h, t)[i] = IF s[i] = p THEN t ELSE h[s[i]]
    BY <1>1, <1>6, <1>8
  <1> QED
    <2>1. s \in Rearrangements(p)
      BY <1>7, <1>10 DEF Rearrangements
    <2>2. s[1] \in {1, p}
      <3>1. 1 \in 1 .. p /\ ~(1 > top)
        BY <1>2
      <3> QED
        BY <1>6, <3>1
    <2> QED
      BY <1>1, <1>11, <2>1, <2>2

\* The queue's Push.
LEMMA PushedCount ==
    ASSUME NEW h \in Seq(Timers), NEW t \in Timers, NEW u
    PROVE  /\ Count(Pushed(h, t), u) = Count(h, u) + (IF u = t THEN 1 ELSE 0)
           /\ Count(h, u) \in Nat
  <1> DEFINE p == Len(h) + 1
             f == [i \in 1 .. p |-> IF i = p THEN t ELSE h[i]]
  <1>1. PICK s \in Rearrangements(p) :
              /\ DOMAIN Pushed(h, t) = 1 .. p
              /\ \A i \in 1 .. p :
                    Pushed(h, t)[i] = IF s[i] = p THEN t ELSE h[s[i]]
    BY PushedRearranges
  <1>2. Pushed(h, t) = Along(f, s, p)
    <2>1. \A i \in 1 .. p : s[i] \in 1 .. p
      BY DEF Rearrangements
    <2>2. Pushed(h, t) = [i \in 1 .. p |-> Pushed(h, t)[i]]
      BY <1>1, PushedShape
    <2>3. \A i \in 1 .. p : Pushed(h, t)[i] = f[s[i]]
      BY <1>1, <2>1
    <2> HIDE DEF f
    <2> QED
      BY <2>2, <2>3 DEF Along
  <1>3. Count(Pushed(h, t), u) = Count(f, u)
    <2>1. DOMAIN f = 1 .. p /\ p \in Nat
      OBVIOUS
    <2> HIDE DEF f, p
    <2> QED
      BY <1>2, <2>1, RearrangedCount
  <1>4. /\ Count(f, u) = Count(h, u) + (IF f[p] = u THEN 1 ELSE 0)
        /\ Count(h, u) \in Nat
    <2>1. DOMAIN f = 1 .. Len(h) + 1 /\ DOMAIN h = 1 .. Len(h) /\ Len(h) \in Nat
      OBVIOUS
    <2>2. \A i \in 1 .. Len(h) : f[i] = h[i]
      OBVIOUS
    <2> HIDE DEF f
    <2> QED
      BY <2>1, <2>2, LongerCount
  <1>5. f[p] = t
    OBVIOUS
  <1> QED
    BY <1>3, <1>4, <1>5

----------------------------------------------------------------------------
(* A pop.                                                                  *)

\* The child of a place is below it, and is due first of those below it.
LEMMA ChildIs ==
    ASSUME NEW h \in Seq(Timers), NEW i \in Nat \ {0}
    PROVE  /\ Child(h, i) \in Nat /\ Child(h, i) >= 2 /\ Child(h, i) > i
           /\ Child(h, i) \div 2 = i
           /\ \A j \in 1 .. Len(h) : j \div 2 = i =>
                 Child(h, i) <= Len(h) /\ h[Child(h, i)].due <= h[j].due
  <1>1. \A j \in 1 .. Len(h) : h[j].due \in Nat
    BY TimerAssumption
  <1>2. Child(h, i) \in {2 * i, 2 * i + 1}
    BY DEF Child
  <1>3. (2 * i) \div 2 = i /\ (2 * i + 1) \div 2 = i
    OBVIOUS
  <1>4. ASSUME NEW j \in 1 .. Len(h), j \div 2 = i
        PROVE  Child(h, i) <= Len(h) /\ h[Child(h, i)].due <= h[j].due
    <2>1. j = 2 * i \/ j = 2 * i + 1
      BY <1>4, Half
    <2>2. 2 * i \in 1 .. Len(h)
      BY <2>1
    <2>3. CASE 2 * i + 1 <= Len(h) /\ h[2 * i + 1].due < h[2 * i].due
      <3>1. Child(h, i) = 2 * i + 1 /\ 2 * i + 1 \in 1 .. Len(h)
        BY <2>3 DEF Child
      <3> QED
        BY <1>1, <2>1, <2>2, <2>3, <3>1
    <2>4. CASE ~(2 * i + 1 <= Len(h) /\ h[2 * i + 1].due < h[2 * i].due)
      <3>1. Child(h, i) = 2 * i
        BY <2>4 DEF Child
      <3>2. j = 2 * i + 1 => h[2 * i].due <= h[j].due
        BY <1>1, <2>2, <2>4
      <3>3. h[2 * i].due <= h[2 * i].due
        BY <1>1, <2>2
      <3> QED
        BY <2>1, <2>2, <3>1, <3>2, <3>3
    <2> QED
      BY <2>3, <2>4
  <1>5. Child(h, i) \in Nat /\ Child(h, i) >= 2 /\ Child(h, i) > i
    BY <1>2
  <1> QED
    BY <1>2, <1>3, <1>4, <1>5

\* The places a pop empties: the root; a place below the root is among them
\* if its parent is, it is the child that is due first, and the last timer is
\* not due before it.
LEMMA EmptiedIs ==
    ASSUME NEW h \in Seq(Timers), h # <<>>
    PROVE  /\ 1 \in Emptied(h)
           /\ Emptied(h) \subseteq 1 .. Len(h)
           /\ \A i \in 2 .. Len(h) :
                 i \in Emptied(h) <=> /\ i \div 2 \in Emptied(h)
                                     /\ i = Child(h, i \div 2)
                                     /\ ~(h[Len(h)].due < h[i].due)
  <1> DEFINE F(i) == i = Child(h, i \div 2) /\ ~(h[Len(h)].due < h[i].due)
  <1>1. Emptied(h) = {i \in 1 .. Len(h) : \A j \in Upwards[i] : j = 1 \/ F(j)}
    BY DEF Emptied
  <1> HIDE DEF F
  <1>2. 1 \in Emptied(h)
    <2>1. Upwards[1] \subseteq 1 .. 1 /\ 1 \in 1 .. Len(h)
      BY UpwardsRange
    <2> QED
      BY <1>1, <2>1
  <1>3. ASSUME NEW i \in 2 .. Len(h)
        PROVE  i \in Emptied(h) <=> i \div 2 \in Emptied(h) /\ F(i)
    <2>1. i \div 2 \in 1 .. Len(h) /\ i # 1
      BY Half
    <2>2. Upwards[i] = {i} \cup Upwards[i \div 2]
      BY UpwardsDef
    <2> QED
      BY <1>1, <2>1, <2>2
  <1> QED
    BY <1>1, <1>2, <1>3 DEF F

\* They lie on one way down: below each but the last, its child is one too.
LEMMA EmptiedChain ==
    ASSUME NEW h \in Seq(Timers), h # <<>>,
           NEW i \in Emptied(h), NEW k \in Emptied(h), i < k
    PROVE  Child(h, i) \in Emptied(h)
  <1> DEFINE E == Emptied(h)
             P(n) == \A a \in E : a < n => a <= n \div 2 /\ Child(h, a) \in E
             Bad == {n \in E : ~P(n)}
  <1>1. /\ 1 \in E /\ E \subseteq 1 .. Len(h)
        /\ \A n \in E : n > 1 => n \div 2 \in E /\ n = Child(h, n \div 2)
    BY EmptiedIs
  <1> HIDE DEF E
  <1>2. Bad = {}
    <2> SUFFICES ASSUME Bad # {} PROVE FALSE
      OBVIOUS
    <2> DEFINE n == Min(Bad)
    <2>1. n \in Bad /\ \A l \in Bad : n <= l
      <3>1. E \subseteq Nat /\ Bad \subseteq E
        BY <1>1
      <3> HIDE DEF Bad
      <3> QED
        BY <3>1, MinIs
    <2> HIDE DEF n
    <2>2. n \in E /\ n \in Nat /\ n >= 1
      BY <1>1, <2>1
    <2>3. ASSUME NEW a \in E, a < n PROVE P(a)
      <3>1. a \notin Bad
        BY <1>1, <2>1, <2>2, <2>3
      <3> HIDE DEF P
      <3> QED
        BY <3>1
    <2>4. ASSUME NEW a \in E, a < n
          PROVE  a <= n \div 2 /\ Child(h, a) \in E
      <3> DEFINE m == n \div 2
      <3>1. a \in Nat /\ a >= 1 /\ n > 1
        BY <1>1, <2>2, <2>4
      <3>2. m \in E /\ m \in Nat /\ m >= 1 /\ m < n /\ n = Child(h, m)
            /\ n <= 2 * m + 1 /\ 2 * m <= n
        BY <1>1, <2>2, <3>1, Half
      <3> HIDE DEF m
      <3>3. CASE m < a
        <4>1. m <= a \div 2
          BY <2>3, <2>4, <3>2, <3>3
        <4>2. a >= 2 * m
          BY <3>1, <3>2, <4>1, Half
        <4>3. a = 2 * m
          BY <2>2, <2>4, <3>1, <3>2, <4>2
        <4>4. a \div 2 = m /\ a > 1
          BY <3>2, <4>3
        <4>5. a = Child(h, m)
          BY <1>1, <4>4
        <4> QED
          BY <2>2, <2>4, <3>2, <4>5
      <3>4. CASE a = m
        BY <2>2, <3>2, <3>4 DEF m
      <3>5. CASE a < m
        <4>1. Child(h, a) \in E
          BY <2>3, <3>2, <3>5
        <4> QED
          BY <3>1, <3>2, <3>5, <4>1 DEF m
      <3> QED
        BY <3>1, <3>2, <3>3, <3>4, <3>5
    <2>5. P(n)
      BY <2>4
    <2> HIDE DEF P
    <2> QED
      BY <2>1, <2>5
  <1>3. P(k)
    <2> HIDE DEF P
    <2> QED
      BY <1>2 DEF E
  <1> QED
    BY <1>3 DEF E

\* Where ptimer_heap_pop puts the last timer: into the last place it empties.
\* Each of the others is filled with its child.
LEMMA PoppedShape ==
    ASSUME NEW h \in Seq(Timers), h # <<>>
    PROVE  \E m \in Emptied(h) :
              /\ \A i \in Emptied(h) : i <= m
              /\ \A i \in Emptied(h) : i # m => Child(h, i) \in Emptied(h)
              /\ Popped(h) = [i \in 1 .. Len(h) - 1 |->
                    IF i = m THEN h[Len(h)]
                    ELSE IF i \in Emptied(h) THEN h[Child(h, i)]
                    ELSE h[i]]
  <1> DEFINE E == Emptied(h)
             m == Max(E)
  <1>1. E \subseteq 1 .. Len(h) /\ 1 \in E
    BY EmptiedIs
  <1>2. m \in E /\ \A i \in E : i <= m
    <2>1. E \in SUBSET (0 .. Len(h)) /\ E # {} /\ Len(h) \in Nat
      BY <1>1
    <2> HIDE DEF E
    <2> QED
      BY <2>1, MaxIs
  <1>3. Popped(h) = [i \in 1 .. Len(h) - 1 |->
            IF i = m THEN h[Len(h)] ELSE IF i \in E THEN h[Child(h, i)] ELSE h[i]]
    BY DEF Popped
  <1> HIDE DEF m
  <1>4. ASSUME NEW i \in E, i # m PROVE Child(h, i) \in E
    <2>1. i < m
      BY <1>1, <1>2, <1>4
    <2> QED
      BY <1>2, <2>1, EmptiedChain
  <1> QED
    BY <1>2, <1>3, <1>4

\* A pop leaves no timer due before the one above it.
LEMMA PoppedOrdered ==
    ASSUME NEW h \in Seq(Timers), h # <<>>, Ordered(h)
    PROVE  /\ Popped(h) \in Seq(Timers)
           /\ Len(Popped(h)) = Len(h) - 1
           /\ Ordered(Popped(h))
  <1> DEFINE n == Len(h)
             E == Emptied(h)
             g == Popped(h)
  <1>1. PICK m \in E :
              /\ \A i \in E : i <= m
              /\ \A i \in E : i # m => Child(h, i) \in E
              /\ Popped(h) = [i \in 1 .. n - 1 |->
                    IF i = m THEN h[n] ELSE IF i \in E THEN h[Child(h, i)] ELSE h[i]]
    BY PoppedShape
  <1>2. /\ 1 \in E /\ E \subseteq 1 .. n
        /\ \A i \in 2 .. n :
              i \in E <=> /\ i \div 2 \in E
                         /\ i = Child(h, i \div 2)
                         /\ ~(h[n].due < h[i].due)
    BY EmptiedIs
  <1>3. \A i \in 1 .. n : h[i] \in Timers /\ h[i].due \in Nat
    BY TimerAssumption
  <1>4. n \in Nat /\ n \in 1 .. n /\ n - 1 \in Nat
    OBVIOUS
  <1> HIDE DEF n, E
  <1>5. ASSUME NEW i \in 1 .. n - 1
        PROVE  /\ i = m => g[i] = h[n]
               /\ i # m /\ i \in E => g[i] = h[Child(h, i)] /\ Child(h, i) \in E
               /\ i \notin E => g[i] = h[i]
               /\ g[i] \in Timers
    <2>1. i \in 1 .. n
      BY <1>4
    <2>2. g[i] = IF i = m THEN h[n] ELSE IF i \in E THEN h[Child(h, i)] ELSE h[i]
      BY <1>1
    <2>3. i # m /\ i \in E => Child(h, i) \in E /\ Child(h, i) \in 1 .. n
      BY <1>1, <1>2
    <2> HIDE DEF g
    <2> QED
      BY <1>1, <1>3, <1>4, <2>1, <2>2, <2>3
  <1>6. g \in Seq(Timers) /\ Len(g) = n - 1
    BY <1>1, <1>4, <1>5
  <1>7. ASSUME NEW i \in 2 .. n - 1
        PROVE  g[i \div 2].due <= g[i].due
    <2> DEFINE j == i \div 2
    <2>1. j \in 1 .. n - 1 /\ j \in Nat \ {0} /\ j < i /\ i \in 1 .. n /\ i \in 1 .. n - 1
          /\ j \in 1 .. n /\ i \in 2 .. n
      <3>1. i \in Nat /\ i > 1 /\ i <= n - 1
        BY <1>4
      <3>2. j \in Nat /\ j > 0 /\ j < i
        BY <3>1, Half
      <3> HIDE DEF j
      <3> QED
        BY <1>4, <3>1, <3>2
    <2>2. h[j].due <= h[i].due
      BY <2>1 DEF Ordered, n
    <2>3. i \in E => j \in E /\ i = Child(h, j) /\ ~(h[n].due < h[i].due)
      BY <1>2, <2>1
    <2>4. Child(h, j) <= n /\ h[Child(h, j)].due <= h[i].due
      BY <2>1, ChildIs DEF n
    <2>5. Child(h, j) \in 2 .. n /\ Child(h, j) \div 2 = j /\ Child(h, j) > j
      <3>1. /\ Child(h, j) \in Nat /\ Child(h, j) >= 2 /\ Child(h, j) > j
            /\ Child(h, j) \div 2 = j
        BY <2>1, ChildIs
      <3> HIDE DEF j
      <3> QED
        BY <1>4, <2>4, <3>1
    <2>6. g[j].due \in Nat /\ g[i].due \in Nat
      BY <1>5, <2>1, TimerAssumption
    <2> HIDE DEF j, g
    <2>7. ASSUME i \notin E PROVE g[j].due <= g[i].due
      <3>1. g[i] = h[i]
        BY <1>5, <2>1, <2>7
      <3>2. CASE j \notin E
        BY <1>5, <2>1, <2>2, <3>1, <3>2
      <3>3. CASE j \in E /\ j # m
        BY <1>5, <2>1, <2>4, <3>1, <3>3
      <3>4. CASE j = m
        <4>1. g[j] = h[n]
          BY <1>5, <2>1, <3>4
        <4>2. Child(h, j) \notin E
          BY <1>1, <1>2, <1>4, <2>1, <2>5, <3>4
        <4>3. h[n].due < h[Child(h, j)].due
          BY <1>2, <2>5, <3>4, <4>2
        <4> QED
          BY <1>3, <1>4, <2>1, <2>4, <2>5, <3>1, <4>1, <4>3
      <3> QED
        BY <3>2, <3>3, <3>4
    <2>8. ASSUME i \in E PROVE g[j].due <= g[i].due
      <3>1. j \in E /\ i = Child(h, j)
        BY <2>3, <2>8
      <3>2. j # m
        BY <1>1, <2>1, <2>8
      <3>3. g[j] = h[i]
        BY <1>5, <2>1, <3>1, <3>2
      <3>4. CASE i = m
        <4>1. g[i] = h[n]
          BY <1>5, <2>1, <3>4
        <4> QED
          BY <1>3, <1>4, <2>1, <2>3, <2>8, <3>3, <4>1
      <3>5. CASE i # m
        <4>1. g[i] = h[Child(h, i)] /\ Child(h, i) \in E
          BY <1>5, <2>1, <2>8, <3>5
        <4>2. Child(h, i) \in 2 .. n /\ Child(h, i) \div 2 = i
          <5>1. i \in Nat \ {0}
            BY <2>1
          <5>2. Child(h, i) \in Nat /\ Child(h, i) >= 2 /\ Child(h, i) \div 2 = i
            BY <5>1, ChildIs
          <5> QED
            BY <1>2, <1>4, <4>1, <5>2
        <4>3. h[i].due <= h[Child(h, i)].due
          BY <4>2 DEF Ordered, n
        <4> QED
          BY <3>3, <4>1, <4>3
      <3> QED
        BY <3>4, <3>5
    <2>9. g[j].due <= g[i].due
      BY <2>7, <2>8
    <2> QED
      BY <2>9 DEF j
  <1> QED
    BY <1>6, <1>7 DEF Ordered, n

\* A pop takes out the timer at the root and keeps the others: where each
\* timer of the new heap comes from, the last place standing for the one out.
LEMMA PoppedRearranges ==
    ASSUME NEW h \in Seq(Timers), h # <<>>
    PROVE  \E s \in Rearrangements(Len(h)) :
              /\ s[Len(h)] = 1
              /\ Popped(h) = [i \in 1 .. Len(h) - 1 |-> h[s[i]]]
  <1> DEFINE n == Len(h)
             E == Emptied(h)
  <1>1. PICK m \in E :
              /\ \A i \in E : i <= m
              /\ \A i \in E : i # m => Child(h, i) \in E
              /\ Popped(h) = [i \in 1 .. n - 1 |->
                    IF i = m THEN h[n] ELSE IF i \in E THEN h[Child(h, i)] ELSE h[i]]
    BY PoppedShape
  <1>2. 1 \in E /\ E \subseteq 1 .. n
    BY EmptiedIs
  <1>3. n \in Nat /\ n \in 1 .. n
    OBVIOUS
  <1> HIDE DEF n, E
  <1> DEFINE s == [i \in 1 .. n |-> IF i = n THEN 1
                                   ELSE IF i = m THEN n
                                   ELSE IF i \in E THEN Child(h, i)
                                   ELSE i]
  <1>4. ASSUME NEW i \in E, i # m
        PROVE  /\ Child(h, i) \in E /\ Child(h, i) \in 2 .. n
               /\ Child(h, i) \div 2 = i
    <2>1. i \in Nat \ {0}
      BY <1>2
    <2>2. Child(h, i) \in Nat /\ Child(h, i) >= 2 /\ Child(h, i) \div 2 = i
      BY <2>1, ChildIs
    <2>3. Child(h, i) \in E /\ Child(h, i) \in 1 .. n
      BY <1>1, <1>2, <1>4
    <2> QED
      BY <1>3, <2>2, <2>3
  <1>5. s \in [1 .. n -> 1 .. n]
    BY <1>2, <1>3, <1>4
  <1>6. ASSUME NEW i \in 1 .. n, i # n
        PROVE  /\ i = m => s[i] = n
               /\ i # m /\ i \in E => s[i] = Child(h, i)
               /\ i \notin E => s[i] = i
    BY <1>1, <1>6
  <1>7. s[n] = 1
    BY <1>3
  <1>8. Popped(h) = [i \in 1 .. n - 1 |-> h[s[i]]]
    <2>1. \A i \in 1 .. n - 1 : i \in 1 .. n /\ i # n
      BY <1>3
    <2> HIDE DEF s
    <2>2. \A i \in 1 .. n - 1 :
             h[s[i]] = IF i = m THEN h[n] ELSE IF i \in E THEN h[Child(h, i)] ELSE h[i]
      BY <1>1, <1>6, <2>1
    <2> QED
      BY <1>1, <2>2
  <1> HIDE DEF s
  <1>9. ASSUME NEW i \in 1 .. n, NEW k \in 1 .. n, s[i] = s[k] PROVE i = k
    <2>1. ASSUME NEW x \in 1 .. n, x # n, s[x] = 1 PROVE FALSE
      <3>1. CASE x = m
        BY <1>2, <1>3, <1>6, <2>1, <3>1
      <3>2. CASE x # m /\ x \in E
        BY <1>4, <1>6, <2>1, <3>2
      <3>3. CASE x \notin E
        BY <1>2, <1>6, <2>1, <3>3
      <3> QED
        BY <3>1, <3>2, <3>3
    <2>2. ASSUME NEW x \in 1 .. n, x # n, x # m, s[x] = n, m # n PROVE FALSE
      <3>1. CASE x \in E
        <4>1. n \in E
          BY <1>4, <1>6, <2>2, <3>1
        <4> QED
          BY <1>1, <1>2, <1>3, <2>2, <4>1
      <3>2. CASE x \notin E
        BY <1>6, <2>2, <3>2
      <3> QED
        BY <3>1, <3>2
    <2>3. CASE i = n \/ k = n
      BY <1>7, <1>9, <2>1, <2>3
    <2>4. CASE i # n /\ k # n /\ (i = m \/ k = m)
      BY <1>6, <1>9, <2>2, <2>4
    <2>5. CASE i # n /\ k # n /\ i # m /\ k # m
      <3>1. s[i] = IF i \in E THEN Child(h, i) ELSE i
        BY <1>6, <2>5
      <3>2. s[k] = IF k \in E THEN Child(h, k) ELSE k
        BY <1>6, <2>5
      <3>3. i \in E => Child(h, i) \in E /\ Child(h, i) \div 2 = i
        BY <1>4, <2>5
      <3>4. k \in E => Child(h, k) \in E /\ Child(h, k) \div 2 = k
        BY <1>4, <2>5
      <3> QED
        BY <1>9, <3>1, <3>2, <3>3, <3>4
    <2> QED
      BY <2>3, <2>4, <2>5
  <1>10. s \in Rearrangements(n)
    BY <1>5, <1>9 DEF Rearrangements
  <1> QED
    BY <1>7, <1>8, <1>10 DEF n

\* The queue's Pop.
LEMMA PoppedCount ==
    ASSUME NEW h \in Seq(Timers), h # <<>>, NEW u
    PROVE  /\ Count(h, u) = Count(Popped(h), u) + (IF u = h[1] THEN 1 ELSE 0)
           /\ Count(Popped(h), u) \in Nat
  <1> DEFINE n == Len(h)
             g == Popped(h)
  <1>1. PICK s \in Rearrangements(n) :
              s[n] = 1 /\ g = [i \in 1 .. n - 1 |-> h[s[i]]]
    BY PoppedRearranges
  <1> DEFINE f == Along(h, s, n)
  <1>2. n \in Nat /\ n \in 1 .. n /\ n - 1 \in Nat /\ DOMAIN h = 1 .. n
    OBVIOUS
  <1> HIDE DEF n
  <1>3. Count(f, u) = Count(h, u)
    BY <1>2, RearrangedCount
  <1>4. /\ Count(f, u) = Count(g, u) + (IF f[n] = u THEN 1 ELSE 0)
        /\ Count(g, u) \in Nat
    <2> DEFINE k == n - 1
    <2>1. k \in Nat /\ k + 1 = n /\ DOMAIN f = 1 .. k + 1 /\ DOMAIN g = 1 .. k
      BY <1>1, <1>2 DEF Along
    <2>2. \A i \in 1 .. k : f[i] = g[i]
      BY <1>1, <1>2 DEF Along
    <2> HIDE DEF f, g, k
    <2> QED
      BY <2>1, <2>2, LongerCount
  <1>5. f[n] = h[1]
    BY <1>1, <1>2 DEF Along
  <1> QED
    BY <1>3, <1>4, <1>5

----------------------------------------------------------------------------
(* What stays in the heap.                                                 *)

Holds(h, t) == \E i \in DOMAIN h : h[i] = t

\* After a push the heap holds the new timer and all it held before.
LEMMA PushedHolds ==
    ASSUME NEW h \in Seq(Timers), NEW t \in Timers
    PROVE  /\ Holds(Pushed(h, t), t)
           /\ \A i \in 1 .. Len(h) : Holds(Pushed(h, t), h[i])
  <1> DEFINE p == Len(h) + 1
  <1>1. PICK s \in Rearrangements(p) :
              /\ DOMAIN Pushed(h, t) = 1 .. p
              /\ \A i \in 1 .. p :
                    Pushed(h, t)[i] = IF s[i] = p THEN t ELSE h[s[i]]
    BY PushedRearranges
  <1>2. p \in Nat /\ p \in 1 .. p
    OBVIOUS
  <1>3. PICK k \in 1 .. p : s[k] = p
    BY <1>2, Rearranged
  <1>4. Holds(Pushed(h, t), t)
    BY <1>1, <1>3 DEF Holds
  <1>5. ASSUME NEW i \in 1 .. Len(h) PROVE Holds(Pushed(h, t), h[i])
    <2>1. i \in 1 .. p /\ i # p
      OBVIOUS
    <2>2. PICK l \in 1 .. p : s[l] = i
      BY <1>2, <2>1, Rearranged
    <2> QED
      BY <1>1, <2>1, <2>2 DEF Holds
  <1> QED
    BY <1>4, <1>5

\* After a pop the heap holds what it held below the root.
LEMMA PoppedHolds ==
    ASSUME NEW h \in Seq(Timers), h # <<>>, NEW i \in 2 .. Len(h)
    PROVE  Holds(Popped(h), h[i])
  <1> DEFINE n == Len(h)
  <1>1. PICK s \in Rearrangements(n) :
              s[n] = 1 /\ Popped(h) = [j \in 1 .. n - 1 |-> h[s[j]]]
    BY PoppedRearranges
  <1>2. n \in Nat /\ i \in 1 .. n /\ i # 1
    OBVIOUS
  <1>3. PICK k \in 1 .. n : s[k] = i
    BY <1>2, Rearranged
  <1>4. k \in 1 .. n - 1
    BY <1>1, <1>2, <1>3
  <1> QED
    BY <1>1, <1>3, <1>4 DEF Holds

\* A timer goes back into the heap and then the one at the root comes out: that
\* is either the new one or the one that was at the root before.
LEMMA RenewedHolds ==
    ASSUME NEW h \in Seq(Timers), h # <<>>, NEW t \in Timers, Ordered(h)
    PROVE  \/ \A i \in 1 .. Len(h) : Holds(Popped(Pushed(h, t)), h[i])
           \/ /\ Holds(Popped(Pushed(h, t)), t)
              /\ \A i \in 2 .. Len(h) : Holds(Popped(Pushed(h, t)), h[i])
  <1> DEFINE p == Len(h) + 1
             g == Pushed(h, t)
  <1>1. PICK s \in Rearrangements(p) :
              /\ s[1] \in {1, p}
              /\ DOMAIN g = 1 .. p
              /\ \A i \in 1 .. p : g[i] = IF s[i] = p THEN t ELSE h[s[i]]
    BY PushedRearranges
  <1>2. p \in Nat /\ p \in 1 .. p /\ p # 1 /\ 1 \in 1 .. p
    OBVIOUS
  <1>3. g \in Seq(Timers) /\ Len(g) = p /\ g # <<>>
    BY PushedOrdered
  <1>4. ASSUME NEW i \in 1 .. p, i # s[1]
        PROVE  Holds(Popped(g), IF i = p THEN t ELSE h[i])
    <2>1. PICK k \in 1 .. p : s[k] = i
      BY <1>2, Rearranged
    <2>2. k \in 2 .. Len(g)
      BY <1>3, <1>4, <2>1
    <2>3. Holds(Popped(g), g[k])
      BY <1>3, <2>2, PoppedHolds
    <2> QED
      BY <1>1, <2>1, <2>3
  <1>5. CASE s[1] = 1
    BY <1>2, <1>4, <1>5
  <1>6. CASE s[1] = p
    BY <1>2, <1>4, <1>6
  <1> QED
    BY <1>1, <1>5, <1>6

----------------------------------------------------------------------------
(* The heap.                                                               *)

\* No timer of a heap is due before the one at the root.
LEMMA RootIsFirst ==
    ASSUME NEW h \in Seq(Timers), Ordered(h), NEW i \in 1 .. Len(h)
    PROVE  h[1].due <= h[i].due
  <1> DEFINE Bad == {k \in 1 .. Len(h) : ~(h[1].due <= h[k].due)}
  <1>1. \A k \in 1 .. Len(h) : h[k].due \in Nat
    BY TimerAssumption
  <1>2. Bad = {}
    <2> SUFFICES ASSUME Bad # {} PROVE FALSE
      OBVIOUS
    <2> DEFINE k == Min(Bad)
    <2>1. k \in Bad /\ \A l \in Bad : k <= l
      <3>1. Bad \in SUBSET Nat
        OBVIOUS
      <3> HIDE DEF Bad
      <3> QED
        BY <3>1, MinIs
    <2> HIDE DEF k
    <2>2. k # 1 /\ k \in 2 .. Len(h) /\ 1 \in 1 .. Len(h)
      BY <1>1, <2>1
    <2>3. k \div 2 \in 1 .. Len(h) /\ k \div 2 < k
      BY <2>2, Half
    <2>4. k \div 2 \notin Bad
      BY <2>1, <2>2, <2>3
    <2>5. h[k \div 2].due <= h[k].due
      BY <2>2 DEF Ordered
    <2> QED
      BY <1>1, <2>1, <2>2, <2>3, <2>4, <2>5
  <1> QED
    BY <1>2

\* The heap holds timers and is in order.
IInv == heap \in Seq(Timers) /\ HeapOrdered

LEMMA IInvHolds == Spec => []IInv
  <1>1. Init => IInv
    BY DEF Init, IInv, HeapOrdered
  <1>2. IInv /\ [Next]_heap => IInv'
    <2> SUFFICES ASSUME IInv, [Next]_heap PROVE IInv'
      OBVIOUS
    <2>1. Ordered(heap) /\ heap \in Seq(Timers)
      BY DEF IInv, HeapOrdered, Ordered
    <2>2. ASSUME NEW t \in Timers, Push(t)
          PROVE  heap' \in Seq(Timers) /\ Ordered(heap')
      BY <2>1, <2>2, PushedOrdered DEF Push
    <2>3. ASSUME Pop PROVE heap' \in Seq(Timers) /\ Ordered(heap')
      BY <2>1, <2>3, PoppedOrdered DEF Pop
    <2>4. CASE UNCHANGED heap
      BY <2>4 DEF IInv, HeapOrdered
    <2> QED
      BY <2>2, <2>3, <2>4 DEF Next, IInv, HeapOrdered, Ordered
  <1> QED
    BY <1>1, <1>2, PTL DEF Spec

\* No timer is ever due before the one above it, whatever is pushed and popped
\* in whatever order (ptimer_heap_push, ptimer_heap_pop).
THEOREM HeapOrderedHolds == Spec => []HeapOrdered
  <1>1. IInv => HeapOrdered
    BY DEF IInv
  <1> QED
    BY <1>1, IInvHolds, PTL

\* The heap is a queue: a push adds the one timer, a pop takes out one of those
\* due first, and no timer is lost, doubled or made up on the way.
THEOREM ImplementsQueueHolds == Spec => ImplementsQueue
  <1> DEFINE held == [t \in Timers |-> Cardinality({i \in DOMAIN heap : heap[i] = t})]
  <1>1. Init => Queue!Init
    <2> SUFFICES ASSUME Init, NEW t \in Timers
                 PROVE  Cardinality({i \in DOMAIN heap : heap[i] = t}) = 0
      BY DEF Queue!Init
    <2>1. {i \in DOMAIN heap : heap[i] = t} = {}
      BY DEF Init
    <2> QED
      BY <2>1, FS_EmptySet
  <1>2. IInv /\ [Next]_heap => [Queue!Next]_held
    <2> SUFFICES ASSUME IInv, [Next]_heap PROVE Queue!Next \/ held' = held
      OBVIOUS
    <2>1. Ordered(heap) /\ heap \in Seq(Timers)
      BY DEF IInv, HeapOrdered, Ordered
    <2>2. held = [t \in Timers |-> Count(heap, t)]
          /\ held' = [t \in Timers |-> Count(heap', t)]
      BY DEF Count
    <2>3. ASSUME NEW t \in Timers, Push(t) PROVE Queue!Next
      <3>1. heap' = Pushed(heap, t)
        BY <2>3 DEF Push
      <3>2. \A u \in Timers : Count(heap', u) = Count(heap, u) + (IF u = t THEN 1 ELSE 0)
                              /\ Count(heap, u) \in Nat
        BY <2>1, <3>1, PushedCount
      <3>3. held' = [held EXCEPT ![t] = @ + 1]
        <4> HIDE DEF held
        <4> QED
          BY <2>2, <3>2
      <3> QED
        BY <3>3 DEF Queue!Next, Queue!Push
    <2>4. ASSUME Pop PROVE Queue!Next
      <3>1. heap # <<>> /\ heap' = Popped(heap)
        BY <2>4 DEF Pop
      <3>2. heap[1] \in Timers /\ 1 \in 1 .. Len(heap)
        BY <2>1, <3>1
      <3>3. \A u \in Timers : Count(heap, u) = Count(heap', u) + (IF u = heap[1] THEN 1 ELSE 0)
                              /\ Count(heap', u) \in Nat
        BY <2>1, <3>1, PoppedCount
      <3>4. held' = [held EXCEPT ![heap[1]] = @ - 1] /\ held[heap[1]] > 0
        <4> HIDE DEF held
        <4> QED
          BY <2>2, <3>2, <3>3
      <3>5. ASSUME NEW u \in Timers, held[u] > 0
            PROVE  heap[1].due <= u.due
        <4>1. {i \in DOMAIN heap : heap[i] = u} # {}
          BY <3>5, FS_EmptySet
        <4>2. PICK i \in DOMAIN heap : heap[i] = u
          BY <4>1
        <4> QED
          BY <2>1, <4>2, RootIsFirst
      <3> QED
        BY <3>2, <3>4, <3>5 DEF Queue!Next, Queue!Pop
    <2>5. CASE UNCHANGED heap
      BY <2>5
    <2> QED
      BY <2>3, <2>4, <2>5 DEF Next
  <1> QED
    BY <1>1, <1>2, IInvHolds, PTL DEF Spec, ImplementsQueue, Queue!Spec
=============================================================================
