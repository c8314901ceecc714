--------------------------- MODULE LibraryProofs ---------------------------
(***************************************************************************)
(* Theorems about the parts of ehp that others use: the buffers and the    *)
(* list, for every capacity and any number of nodes; the clock, for every  *)
(* year; and the texts that are trimmed and taken for targets, whatever    *)
(* their characters and their length.                                      *)
(***************************************************************************)
EXTENDS MCLibrary, SequenceTheorems, FiniteSetTheorems, TLAPS

----------------------------------------------------------------------------
(* The buffers.                                                             *)

\* What was stored is what the array holds, and neither buffer is overfull.
BuffersInv ==
    /\ arrLen \in Nat /\ arrCap \in Nat \ {0} /\ arrLen <= arrCap
    /\ stored \subseteq 0 .. arrLen - 1
    /\ bufLen \in Nat /\ bufCap \in Nat /\ bufLen < bufCap
    /\ 0 \notin asked

LEMMA GrownHasRoom ==
    ASSUME NEW used \in Nat, NEW cap \in Nat \ {0}, used <= cap
    PROVE  Grown(used, cap) \in Nat /\ used < Grown(used, cap)
  BY DEF Grown

LEMMA BuffersInductive == BuffersInv /\ [BuffersNext]_bvars => BuffersInv'
  <1> SUFFICES ASSUME BuffersInv, [BuffersNext]_bvars PROVE BuffersInv'
    OBVIOUS
  <1>1. CASE PushValue
    <2>1. arrLen < arrCap' /\ arrCap' \in Nat
      BY <1>1, GrownHasRoom DEF PushValue, BuffersInv
    <2> QED
      BY <1>1, <2>1 DEF PushValue, BuffersInv
  <1>2. CASE ReadSome
    <2>1. PICK n \in 1 .. bufCap - bufLen :
             bufLen' = bufLen + n /\ bufCap' = Grown(bufLen + n, bufCap)
      BY <1>2 DEF ReadSome
    <2>2. bufLen' \in Nat /\ bufCap' \in Nat /\ bufLen' < bufCap'
      BY <2>1, GrownHasRoom DEF BuffersInv
    <2> QED
      BY <1>2, <2>2 DEF ReadSome, BuffersInv
  <1>3. CASE ReadDone
    BY <1>3, BuffersAssumption DEF ReadDone, BuffersInv
  <1>4. CASE UNCHANGED bvars
    BY <1>4 DEF bvars, BuffersInv
  <1> QED
    BY <1>1, <1>2, <1>3, <1>4 DEF BuffersNext

LEMMA BuffersInvariant == BuffersSpec => []BuffersInv
  <1>1. BuffersInit => BuffersInv
    BY BuffersAssumption DEF BuffersInit, BuffersInv
  <1> QED
    BY <1>1, BuffersInductive, PTL DEF BuffersSpec

\* No value is ever stored outside the array, and read() always has room in
\* its buffer and leaves a byte behind what was read, whatever the capacities
\* to begin with and however read() cuts what there is (array_push_back,
\* file_read_nonblock).
THEOREM BuffersHoldHolds == BuffersSpec => []BuffersHold
  <1>1. BuffersInv => BuffersHold
    BY DEF BuffersInv, BuffersHold, StoredWithin, RoomToRead
  <1> QED
    BY <1>1, BuffersInvariant, PTL

----------------------------------------------------------------------------
(* The list.                                                                *)

Linked(ns, r) ==
    /\ \A i \in 1 .. Len(r) - 1 :
          ns[r[i]].next = r[i + 1] /\ ns[r[i + 1]].prev = r[i]
    /\ Len(r) > 1 => ns[r[Len(r)]].next = r[1] /\ ns[r[1]].prev = r[Len(r)]

\* The ring is of nodes that were made, each once.
ListInv ==
    /\ nodes \in Seq(Node) /\ Len(nodes) <= MaxNodes
    /\ ring \in Seq(1 .. Len(nodes))
    /\ \A i, j \in 1 .. Len(ring) : ring[i] = ring[j] => i = j
    /\ len = Len(ring)
    /\ head = IF len = 0 THEN Null ELSE ring[1]
    /\ tail = IF len = 0 THEN Null ELSE ring[len]
    /\ Linked(nodes, ring)

LEMMA EndsAreNodes ==
    ASSUME ListInv
    PROVE  /\ head \in Nodes \cup {Null} /\ tail \in Nodes \cup {Null}
           /\ len > 0 => /\ head \in 1 .. Len(nodes) /\ tail \in 1 .. Len(nodes)
                         /\ head = ring[1] /\ tail = ring[len]
  <1>1. \A i \in 1 .. Len(ring) : ring[i] \in 1 .. Len(nodes)
    BY DEF ListInv
  <1>2. len \in Nat /\ Len(nodes) \in Nat
    BY DEF ListInv
  <1>3. 1 .. Len(nodes) \subseteq Nodes
    BY <1>2, ListAssumption DEF ListInv, Nodes
  <1>4. len > 0 => head \in 1 .. Len(nodes) /\ tail \in 1 .. Len(nodes)
    BY <1>1, <1>2 DEF ListInv
  <1> QED
    BY <1>2, <1>3, <1>4 DEF ListInv

LEMMA RingTypes ==
    ASSUME ListInv
    PROVE  /\ Len(nodes) \in Nat
           /\ ring \in Seq(1 .. Len(nodes)) /\ Len(ring) \in Nat /\ len = Len(ring)
           /\ \A i \in 1 .. Len(ring) : ring[i] \in 1 .. Len(nodes)
  <1>1. ring \in Seq(1 .. Len(nodes)) /\ nodes \in Seq(Node) /\ len = Len(ring)
    BY DEF ListInv
  <1>2. Len(nodes) \in Nat /\ Len(ring) \in Nat
    BY <1>1
  <1>3. \A i \in 1 .. Len(ring) : ring[i] \in 1 .. Len(nodes)
    BY <1>1, ElementOfSeq
  <1> QED
    BY <1>1, <1>2, <1>3

\* A node gets another neighbour.
LEMMA PrevSet ==
    ASSUME NEW s \in Seq(Node), NEW h \in 1 .. Len(s), NEW n \in Nodes
    PROVE  LET s2 == WithPrev(s, h, n) IN
           /\ s2 \in Seq(Node) /\ Len(s2) = Len(s)
           /\ \A i \in 1 .. Len(s) :
                 /\ s2[i].next = s[i].next
                 /\ s2[i].prev = IF i = h THEN n ELSE s[i].prev
  <1>1. \A i \in 1 .. Len(s) : s[i] \in Node
    BY ElementOfSeq
  <1>2. [s[h] EXCEPT !.prev = n] \in Node
    BY <1>1 DEF Node
  <1> DEFINE s2 == WithPrev(s, h, n)
  <1>3. s2 = [s EXCEPT ![h] = [s[h] EXCEPT !.prev = n]]
    BY DEF WithPrev
  <1>4. /\ s2 \in Seq(Node) /\ Len(s2) = Len(s)
        /\ \A i \in 1 .. Len(s) :
              s2[i] = IF i = h THEN [s[h] EXCEPT !.prev = n] ELSE s[i]
    BY <1>2, <1>3, ExceptSeq
  <1> QED
    BY <1>1, <1>4 DEF Node

LEMMA NextSet ==
    ASSUME NEW s \in Seq(Node), NEW t \in 1 .. Len(s), NEW n \in Nodes
    PROVE  LET s2 == WithNext(s, t, n) IN
           /\ s2 \in Seq(Node) /\ Len(s2) = Len(s)
           /\ \A i \in 1 .. Len(s) :
                 /\ s2[i].next = IF i = t THEN n ELSE s[i].next
                 /\ s2[i].prev = s[i].prev
  <1>1. \A i \in 1 .. Len(s) : s[i] \in Node
    BY ElementOfSeq
  <1>2. [s[t] EXCEPT !.next = n] \in Node
    BY <1>1 DEF Node
  <1> DEFINE s2 == WithNext(s, t, n)
  <1>3. s2 = [s EXCEPT ![t] = [s[t] EXCEPT !.next = n]]
    BY DEF WithNext
  <1>4. /\ s2 \in Seq(Node) /\ Len(s2) = Len(s)
        /\ \A i \in 1 .. Len(s) :
              s2[i] = IF i = t THEN [s[t] EXCEPT !.next = n] ELSE s[i]
    BY <1>2, <1>3, ExceptSeq
  <1> QED
    BY <1>1, <1>4 DEF Node

\* A node that is pushed is linked to both ends, and only they are changed.
LEMMA PushLinks ==
    ASSUME ListInv, NEW n \in Nodes, Push(n)
    PROVE  /\ n = Len(nodes) + 1
           /\ nodes' \in Seq(Node) /\ Len(nodes') = n
           /\ len > 0 =>
                /\ nodes'[n].prev = tail /\ nodes'[n].next = head
                /\ \A i \in 1 .. Len(nodes) :
                      /\ nodes'[i].next = IF i = tail THEN n ELSE nodes[i].next
                      /\ nodes'[i].prev = IF i = head THEN n ELSE nodes[i].prev
  <1>1. n = Len(nodes) + 1 /\ Len(nodes) \in Nat /\ len \in Nat
    BY DEF Push, ListInv
  <1>2. PICK ns : ns = Append(nodes, [prev |-> tail, next |-> head])
    OBVIOUS
  <1>3. [prev |-> tail, next |-> head] \in Node
    BY EndsAreNodes DEF Node
  <1>4. /\ ns \in Seq(Node) /\ Len(ns) = n
        /\ ns[n].prev = tail /\ ns[n].next = head
        /\ \A i \in 1 .. Len(nodes) : ns[i] = nodes[i]
    BY <1>1, <1>2, <1>3, AppendProperties DEF ListInv
  <1>5. CASE len = 0
    BY <1>1, <1>2, <1>4, <1>5 DEF Push
  <1>6. CASE len # 0
    <2>1. /\ head \in 1 .. Len(nodes) /\ tail \in 1 .. Len(nodes)
          /\ head \in 1 .. Len(ns) /\ tail \in 1 .. Len(ns)
      BY <1>1, <1>4, <1>6, EndsAreNodes
    <2> DEFINE mid == WithPrev(ns, head, n)
    <2>3. /\ mid \in Seq(Node) /\ Len(mid) = Len(ns)
          /\ \A i \in 1 .. Len(ns) :
                /\ mid[i].next = ns[i].next
                /\ mid[i].prev = IF i = head THEN n ELSE ns[i].prev
      <3>1. ns \in Seq(Node) /\ head \in 1 .. Len(ns)
        BY <1>4, <2>1
      <3> QED
        BY <3>1, PrevSet
    <2>4. nodes' = WithNext(mid, tail, n)
      BY <1>2, <1>6 DEF Push, Between
    <2> HIDE DEF mid
    <2>5. tail \in 1 .. Len(mid)
      BY <2>1, <2>3
    <2>6. /\ nodes' \in Seq(Node) /\ Len(nodes') = Len(mid)
          /\ \A i \in 1 .. Len(mid) :
                /\ nodes'[i].next = IF i = tail THEN n ELSE mid[i].next
                /\ nodes'[i].prev = mid[i].prev
      BY <2>3, <2>4, <2>5, NextSet
    <2> QED
      BY <1>1, <1>4, <2>1, <2>3, <2>6
  <1> QED
    BY <1>5, <1>6

\* A ring is closed around nodes h and t, and only they are changed.
LEMMA ClosedLinks ==
    ASSUME ListInv, NEW h \in 1 .. Len(nodes), NEW t \in 1 .. Len(nodes),
           NEW c, c = Closed(nodes, h, t)
    PROVE  /\ c \in Seq(Node) /\ Len(c) = Len(nodes)
           /\ \A i \in 1 .. Len(nodes) :
                 /\ c[i].next = IF i = t THEN h ELSE nodes[i].next
                 /\ c[i].prev = IF i = h THEN t ELSE nodes[i].prev
  <1>1. nodes \in Seq(Node) /\ Len(nodes) \in Nat /\ Len(nodes) <= MaxNodes
    BY DEF ListInv
  <1>2. h \in Nodes /\ t \in Nodes
    BY <1>1, ListAssumption DEF Nodes
  <1> DEFINE mid == WithPrev(nodes, h, t)
  <1>3. /\ mid \in Seq(Node) /\ Len(mid) = Len(nodes)
        /\ \A i \in 1 .. Len(nodes) :
              /\ mid[i].next = nodes[i].next
              /\ mid[i].prev = IF i = h THEN t ELSE nodes[i].prev
    <2>1. nodes \in Seq(Node) /\ h \in 1 .. Len(nodes) /\ t \in Nodes
      BY <1>1, <1>2
    <2> QED
      BY <2>1, PrevSet
  <1>4. c = WithNext(mid, t, h)
    BY DEF Closed
  <1> HIDE DEF mid
  <1>5. /\ c \in Seq(Node) /\ Len(c) = Len(nodes)
        /\ \A i \in 1 .. Len(mid) :
              /\ c[i].next = IF i = t THEN h ELSE mid[i].next
              /\ c[i].prev = mid[i].prev
    <2>1. t \in 1 .. Len(mid)
      BY <1>3
    <2>2. mid \in Seq(Node)
      BY <1>3
    <2>3. LET s2 == WithNext(mid, t, h) IN
          /\ s2 \in Seq(Node) /\ Len(s2) = Len(mid)
          /\ \A i \in 1 .. Len(mid) :
                /\ s2[i].next = IF i = t THEN h ELSE mid[i].next
                /\ s2[i].prev = mid[i].prev
      BY <1>2, <2>1, <2>2, NextSet
    <2> QED
      BY <1>3, <1>4, <2>3
  <1> QED
    BY <1>3, <1>5

LEMMA PushFrontInv ==
    ASSUME ListInv, NEW n \in Nodes, PushFront(n)
    PROVE  ListInv'
  <1>1. /\ n = Len(nodes) + 1 /\ Len(nodes) \in Nat
        /\ ring \in Seq(1 .. Len(nodes)) /\ Len(ring) \in Nat /\ len = Len(ring)
        /\ \A i \in 1 .. Len(ring) : ring[i] \in 1 .. Len(nodes)
    BY RingTypes DEF PushFront, Push
  <1>2. nodes' \in Seq(Node) /\ Len(nodes') = n /\ n <= MaxNodes
    BY PushLinks, ListAssumption DEF PushFront, Nodes
  <1>3. ring' = <<n>> \o ring /\ <<n>> \in Seq(1 .. n) /\ ring \in Seq(1 .. n)
    <2>1. 1 .. Len(nodes) \subseteq 1 .. n /\ n \in 1 .. n
      BY <1>1
    <2> QED
      BY <1>1, <2>1, SeqMonotonic DEF PushFront
  <1>4. /\ ring' \in Seq(1 .. n) /\ Len(ring') = len + 1
        /\ ring'[1] = n /\ \A i \in 1 .. len : ring'[i + 1] = ring[i]
    <2>1. /\ ring' \in Seq(1 .. n) /\ Len(ring') = 1 + Len(ring)
          /\ \A i \in 1 .. 1 + Len(ring) :
                ring'[i] = IF i <= 1 THEN <<n>>[i] ELSE ring[i - 1]
      <3>1. Len(<<n>>) = 1
        OBVIOUS
      <3> QED
        BY <1>3, <3>1, ConcatProperties
    <2>2. \A i \in 1 .. len : /\ i + 1 \in 1 .. 1 + Len(ring) /\ ~(i + 1 <= 1)
                             /\ (i + 1) - 1 = i
      BY <1>1
    <2>3. 1 \in 1 .. 1 + Len(ring) /\ <<n>>[1] = n /\ 1 + Len(ring) = len + 1
      BY <1>1
    <2> QED
      BY <2>1, <2>2, <2>3
  <1>5. \A i \in 2 .. len + 1 : ring'[i] = ring[i - 1] /\ ring'[i] # n
    <2>1. \A i \in 2 .. len + 1 : i - 1 \in 1 .. len /\ (i - 1) + 1 = i
      BY <1>1
    <2> QED
      BY <1>1, <1>4, <2>1
  <1>6. \A i, j \in 1 .. len + 1 : ring'[i] = ring'[j] => i = j
    <2>1. \A i \in 1 .. len + 1 : i = 1 \/ i \in 2 .. len + 1
      BY <1>1
    <2>2. \A i, j \in 2 .. len + 1 : ring[i - 1] = ring[j - 1] => i = j
      BY SMTT(30), <1>1 DEF ListInv
    <2> QED
      BY <1>4, <1>5, <2>1, <2>2
  <1>7. head' = n /\ len' = len + 1 /\ tail' = ring'[len + 1]
    BY <1>1, <1>4, <1>5 DEF PushFront, Push, ListInv
  <1>8. Linked(nodes', ring')
    <2>1. CASE len = 0
      BY <1>4, <2>1 DEF Linked
    <2>2. CASE len # 0
      <3>1. /\ nodes'[n].prev = tail /\ nodes'[n].next = head
            /\ \A i \in 1 .. Len(nodes) :
                  /\ nodes'[i].next = IF i = tail THEN n ELSE nodes[i].next
                  /\ nodes'[i].prev = IF i = head THEN n ELSE nodes[i].prev
            /\ head = ring[1] /\ tail = ring[len]
        BY <1>1, <2>2, PushLinks, EndsAreNodes DEF PushFront
      <3>2. ASSUME NEW i \in 1 .. len
            PROVE  nodes'[ring'[i]].next = ring'[i + 1] /\ nodes'[ring'[i + 1]].prev = ring'[i]
        <4>1. CASE i = 1
          BY <1>1, <1>4, <2>2, <3>1, <4>1
        <4>2. CASE i # 1
          <5>1. /\ i \in 2 .. len + 1 /\ i - 1 \in 1 .. len - 1 /\ (i - 1) + 1 = i
                /\ 1 \in 1 .. len /\ len \in 1 .. len /\ i # 1 /\ i - 1 # len
            BY <1>1, <4>2
          <5>2. ring'[i] = ring[i - 1] /\ ring'[i + 1] = ring[i]
            BY <1>4, <1>5, <5>1
          <5>3. ring[i] # ring[1] /\ ring[i - 1] # ring[len]
            BY <1>1, <5>1 DEF ListInv
          <5>4. nodes[ring[i - 1]].next = ring[i] /\ nodes[ring[i]].prev = ring[i - 1]
            BY <1>1, <5>1 DEF ListInv, Linked
          <5>5. ring[i] \in 1 .. Len(nodes) /\ ring[i - 1] \in 1 .. Len(nodes)
            BY <1>1, <5>1
          <5> QED
            BY <3>1, <5>2, <5>3, <5>4, <5>5
        <4> QED
          BY <4>1, <4>2
      <3>3. nodes'[ring'[len + 1]].next = n /\ nodes'[n].prev = ring'[len + 1]
        <4>1. len \in 1 .. len /\ ring'[len + 1] = ring[len] /\ ring[len] \in 1 .. Len(nodes)
          BY <1>1, <1>4, <2>2
        <4> QED
          BY <3>1, <4>1
      <3> QED
        BY <1>1, <1>4, <3>2, <3>3 DEF Linked
    <2> QED
      BY <2>1, <2>2
  <1> QED
    BY <1>1, <1>2, <1>4, <1>6, <1>7, <1>8 DEF ListInv

LEMMA PushBackInv ==
    ASSUME ListInv, NEW n \in Nodes, PushBack(n)
    PROVE  ListInv'
  <1>1. /\ n = Len(nodes) + 1 /\ Len(nodes) \in Nat
        /\ ring \in Seq(1 .. Len(nodes)) /\ Len(ring) \in Nat /\ len = Len(ring)
        /\ \A i \in 1 .. Len(ring) : ring[i] \in 1 .. Len(nodes)
    BY RingTypes DEF PushBack, Push
  <1>2. nodes' \in Seq(Node) /\ Len(nodes') = n /\ n <= MaxNodes
    BY PushLinks, ListAssumption DEF PushBack, Nodes
  <1>3. ring' = Append(ring, n) /\ n \in 1 .. n /\ ring \in Seq(1 .. n)
    <2>1. 1 .. Len(nodes) \subseteq 1 .. n /\ n \in 1 .. n
      BY <1>1
    <2> QED
      BY <1>1, <2>1, SeqMonotonic DEF PushBack
  <1>4. /\ ring' \in Seq(1 .. n) /\ Len(ring') = len + 1
        /\ ring'[len + 1] = n /\ \A i \in 1 .. len : ring'[i] = ring[i]
    BY <1>1, <1>3, AppendProperties
  <1>5. \A i \in 1 .. len : ring'[i] # n
    BY <1>1, <1>4
  <1>6. \A i, j \in 1 .. len + 1 : ring'[i] = ring'[j] => i = j
    <2>1. \A i \in 1 .. len + 1 : i = len + 1 \/ i \in 1 .. len
      BY <1>1
    <2>2. \A i, j \in 1 .. len : ring[i] = ring[j] => i = j
      BY <1>1 DEF ListInv
    <2> QED
      BY <1>4, <1>5, <2>1, <2>2
  <1>7. tail' = n /\ len' = len + 1 /\ head' = ring'[1]
    BY <1>1, <1>4 DEF PushBack, Push, ListInv
  <1>8. Linked(nodes', ring')
    <2>1. CASE len = 0
      BY <1>4, <2>1 DEF Linked
    <2>2. CASE len # 0
      <3>1. /\ nodes'[n].prev = tail /\ nodes'[n].next = head
            /\ \A i \in 1 .. Len(nodes) :
                  /\ nodes'[i].next = IF i = tail THEN n ELSE nodes[i].next
                  /\ nodes'[i].prev = IF i = head THEN n ELSE nodes[i].prev
            /\ head = ring[1] /\ tail = ring[len]
        BY <1>1, <2>2, PushLinks, EndsAreNodes DEF PushBack
      <3>2. ASSUME NEW i \in 1 .. len
            PROVE  nodes'[ring'[i]].next = ring'[i + 1] /\ nodes'[ring'[i + 1]].prev = ring'[i]
        <4>1. CASE i = len
          <5>1. len \in 1 .. len /\ ring'[len] = ring[len] /\ ring[len] \in 1 .. Len(nodes)
            BY <1>1, <1>4, <2>2
          <5> QED
            BY <1>4, <3>1, <4>1, <5>1
        <4>2. CASE i # len
          <5>1. i + 1 \in 1 .. len /\ i \in 1 .. len - 1 /\ 1 \in 1 .. len /\ len \in 1 .. len
            BY <1>1, <4>2
          <5>2. ring'[i] = ring[i] /\ ring'[i + 1] = ring[i + 1]
            BY <1>4, <5>1
          <5>3. ring[i + 1] # ring[1] /\ ring[i] # ring[len]
            <6>1. i + 1 # 1
              BY <1>1
            <6> QED
              BY <1>1, <4>2, <5>1, <6>1 DEF ListInv
          <5>4. nodes[ring[i]].next = ring[i + 1] /\ nodes[ring[i + 1]].prev = ring[i]
            BY <1>1, <5>1 DEF ListInv, Linked
          <5>5. ring[i] \in 1 .. Len(nodes) /\ ring[i + 1] \in 1 .. Len(nodes)
            BY <1>1, <5>1
          <5> QED
            BY <3>1, <5>2, <5>3, <5>4, <5>5
        <4> QED
          BY <4>1, <4>2
      <3>3. nodes'[n].next = ring'[1] /\ nodes'[ring'[1]].prev = n
        <4>1. 1 \in 1 .. len /\ ring'[1] = ring[1] /\ ring[1] \in 1 .. Len(nodes)
          BY <1>1, <1>4, <2>2
        <4> QED
          BY <3>1, <4>1
      <3>4. Len(ring') - 1 = len /\ Len(ring') = len + 1
        BY <1>1, <1>4
      <3> QED
        BY <1>1, <1>4, <3>2, <3>3, <3>4 DEF Linked
    <2> QED
      BY <2>1, <2>2
  <1> QED
    BY <1>1, <1>2, <1>4, <1>6, <1>7, <1>8 DEF ListInv

\* The last node goes: there is no ring.
LEMMA PopLastInv ==
    ASSUME ListInv, len = 1, len' = 0, head' = Null, tail' = Null, nodes' = nodes,
           ring' = <<>>
    PROVE  ListInv'
  <1>1. ring' \in Seq(1 .. Len(nodes)) /\ Len(ring') = 0
    OBVIOUS
  <1>2. Linked(nodes', ring')
    BY <1>1 DEF Linked
  <1> QED
    BY <1>1, <1>2 DEF ListInv

LEMMA PopFrontInv ==
    ASSUME ListInv, PopFront
    PROVE  ListInv'
  <1>1. /\ Len(nodes) \in Nat
        /\ ring \in Seq(1 .. Len(nodes)) /\ Len(ring) \in Nat /\ len = Len(ring)
        /\ \A i \in 1 .. Len(ring) : ring[i] \in 1 .. Len(nodes)
    BY RingTypes
  <1>2. CASE len = 1
    <2>1. ring' = <<>>
      BY <1>1, <1>2 DEF PopFront
    <2> QED
      BY <1>2, <2>1, PopLastInv DEF PopFront
  <1>3. CASE len # 1
    <2>1. len > 1 /\ len' = len - 1 /\ tail' = tail /\ 1 \in 1 .. len /\ 2 \in 1 .. len
          /\ len \in 1 .. len
      BY <1>1, <1>3 DEF PopFront
    <2>2. head = ring[1] /\ tail = ring[len]
      BY <2>1, EndsAreNodes
    <2>3. head' = ring[2]
      <3>1. nodes[ring[1]].next = ring[1 + 1]
        BY <1>1, <2>1 DEF ListInv, Linked
      <3> QED
        BY <1>3, <2>2, <3>1 DEF PopFront
    <2>4. /\ nodes' \in Seq(Node) /\ Len(nodes') = Len(nodes)
          /\ \A i \in 1 .. Len(nodes) :
                /\ nodes'[i].next = IF i = tail THEN head' ELSE nodes[i].next
                /\ nodes'[i].prev = IF i = head' THEN tail ELSE nodes[i].prev
      <3>1. head' \in 1 .. Len(nodes) /\ tail \in 1 .. Len(nodes)
        BY <1>1, <2>1, <2>2, <2>3
      <3>2. PICK h \in 1 .. Len(nodes), t \in 1 .. Len(nodes) : h = head' /\ t = tail
        BY <3>1
      <3>3. PICK c : c = Closed(nodes, h, t)
        OBVIOUS
      <3>4. nodes' = c
        BY <3>2, <3>3, <1>3 DEF PopFront
      <3>5. /\ c \in Seq(Node) /\ Len(c) = Len(nodes)
            /\ \A i \in 1 .. Len(nodes) :
                  /\ c[i].next = IF i = t THEN h ELSE nodes[i].next
                  /\ c[i].prev = IF i = h THEN t ELSE nodes[i].prev
        BY <3>3, ClosedLinks
      <3> QED
        BY <3>2, <3>4, <3>5
    <2>5. /\ ring' \in Seq(1 .. Len(nodes)) /\ Len(ring') = len - 1
          /\ \A i \in 1 .. len - 1 : ring'[i] = ring[i + 1]
      <3>1. ring' = SubSeq(ring, 2, len) /\ 2 \in 1 .. Len(ring) + 1 /\ len \in 1 - 1 .. Len(ring)
        BY <1>1, <2>1 DEF PopFront
      <3>2. \A i \in 2 .. len : ring[i] \in 1 .. Len(nodes)
        BY <1>1
      <3> QED
        BY <1>1, <2>1, <3>1, <3>2, SubSeqProperties
    <2>6. \A i, j \in 1 .. len - 1 : ring'[i] = ring'[j] => i = j
      <3>1. \A i \in 1 .. len - 1 : i + 1 \in 1 .. len
        BY <1>1
      <3>2. \A i, j \in 1 .. len : ring[i] = ring[j] => i = j
        BY <1>1 DEF ListInv
      <3> SUFFICES ASSUME NEW i \in 1 .. len - 1, NEW j \in 1 .. len - 1,
                          ring'[i] = ring'[j]
                   PROVE  i = j
        OBVIOUS
      <3>3. ring[i + 1] = ring[j + 1]
        BY <2>5
      <3>4. i + 1 = j + 1
        BY <3>1, <3>2, <3>3
      <3> QED
        BY <3>4
    <2>7. head' = ring'[1] /\ tail' = ring'[len - 1]
      BY <1>1, <2>1, <2>2, <2>3, <2>5
    <2>8. ASSUME NEW i \in 1 .. len - 2
          PROVE  nodes'[ring'[i]].next = ring'[i + 1] /\ nodes'[ring'[i + 1]].prev = ring'[i]
      <3>1. /\ i \in 1 .. len - 1 /\ i + 1 \in 1 .. len - 1 /\ i + 1 \in 1 .. len
            /\ (i + 1) + 1 \in 1 .. len /\ i + 1 # len /\ (i + 1) + 1 # 2
        BY <1>1, <2>1
      <3>2. ring'[i] = ring[i + 1] /\ ring'[i + 1] = ring[(i + 1) + 1]
        BY <2>5, <3>1
      <3>3. ring[i + 1] # ring[len] /\ ring[(i + 1) + 1] # ring[2]
        BY <1>1, <2>1, <3>1 DEF ListInv
      <3>4. /\ nodes[ring[i + 1]].next = ring[(i + 1) + 1]
            /\ nodes[ring[(i + 1) + 1]].prev = ring[i + 1]
        BY <1>1, <3>1 DEF ListInv, Linked
      <3>5. ring[i + 1] \in 1 .. Len(nodes) /\ ring[(i + 1) + 1] \in 1 .. Len(nodes)
        BY <1>1, <3>1
      <3> QED
        BY <2>2, <2>3, <2>4, <3>2, <3>3, <3>4, <3>5
    <2>9. nodes'[tail].next = head' /\ nodes'[head'].prev = tail
      <3>1. head' \in 1 .. Len(nodes) /\ tail \in 1 .. Len(nodes)
        BY <1>1, <2>1, <2>2, <2>3
      <3> QED
        BY <2>4, <3>1
    <2>10. Linked(nodes', ring')
      <3>1. Len(ring') - 1 = len - 2
        BY <1>1, <2>5
      <3> QED
        BY <2>1, <2>5, <2>7, <2>8, <2>9, <3>1 DEF Linked
    <2> QED
      BY <1>1, <2>1, <2>4, <2>5, <2>6, <2>7, <2>10 DEF ListInv
  <1> QED
    BY <1>2, <1>3

LEMMA PopBackInv ==
    ASSUME ListInv, PopBack
    PROVE  ListInv'
  <1>1. /\ Len(nodes) \in Nat
        /\ ring \in Seq(1 .. Len(nodes)) /\ Len(ring) \in Nat /\ len = Len(ring)
        /\ \A i \in 1 .. Len(ring) : ring[i] \in 1 .. Len(nodes)
    BY RingTypes
  <1>2. CASE len = 1
    <2>1. ring' = <<>>
      BY <1>1, <1>2 DEF PopBack
    <2> QED
      BY <1>2, <2>1, PopLastInv DEF PopBack
  <1>3. CASE len # 1
    <2>1. len > 1 /\ len' = len - 1 /\ head' = head /\ 1 \in 1 .. len
          /\ len \in 1 .. len /\ len - 1 \in 1 .. len /\ 1 \in 1 .. len - 1
      BY <1>1, <1>3 DEF PopBack
    <2>2. head = ring[1] /\ tail = ring[len]
      BY <2>1, EndsAreNodes
    <2>3. tail' = ring[len - 1]
      <3>1. len - 1 \in 1 .. Len(ring) - 1 /\ (len - 1) + 1 = len
        BY <1>1, <2>1
      <3>2. nodes[ring[(len - 1) + 1]].prev = ring[len - 1]
        BY <3>1 DEF ListInv, Linked
      <3> QED
        BY <1>3, <2>2, <3>1, <3>2 DEF PopBack
    <2>4. /\ nodes' \in Seq(Node) /\ Len(nodes') = Len(nodes)
          /\ \A i \in 1 .. Len(nodes) :
                /\ nodes'[i].next = IF i = tail' THEN head ELSE nodes[i].next
                /\ nodes'[i].prev = IF i = head THEN tail' ELSE nodes[i].prev
      <3>1. head \in 1 .. Len(nodes) /\ tail' \in 1 .. Len(nodes)
        BY <1>1, <2>1, <2>2, <2>3
      <3>2. PICK h \in 1 .. Len(nodes), t \in 1 .. Len(nodes) : h = head /\ t = tail'
        BY <3>1
      <3>3. PICK c : c = Closed(nodes, h, t)
        OBVIOUS
      <3>4. nodes' = c
        BY <3>2, <3>3, <1>3 DEF PopBack
      <3>5. /\ c \in Seq(Node) /\ Len(c) = Len(nodes)
            /\ \A i \in 1 .. Len(nodes) :
                  /\ c[i].next = IF i = t THEN h ELSE nodes[i].next
                  /\ c[i].prev = IF i = h THEN t ELSE nodes[i].prev
        BY <3>3, ClosedLinks
      <3> QED
        BY <3>2, <3>4, <3>5
    <2>5. /\ ring' \in Seq(1 .. Len(nodes)) /\ Len(ring') = len - 1
          /\ \A i \in 1 .. len - 1 : ring'[i] = ring[i]
      <3>1. ring' = SubSeq(ring, 1, len - 1)
        BY DEF PopBack
      <3>2. 1 \in 1 .. Len(ring) + 1 /\ len - 1 \in 1 - 1 .. Len(ring)
        BY <1>1, <2>1
      <3>3. \A i \in 1 .. len - 1 : ring[i] \in 1 .. Len(nodes)
        BY <1>1
      <3> QED
        BY <1>1, <2>1, <3>1, <3>2, <3>3, SubSeqProperties
    <2>6. \A i, j \in 1 .. len - 1 : ring'[i] = ring'[j] => i = j
      <3>1. \A i \in 1 .. len - 1 : i \in 1 .. len
        BY <1>1
      <3>2. \A i, j \in 1 .. len : ring[i] = ring[j] => i = j
        BY <1>1 DEF ListInv
      <3> QED
        BY <2>5, <3>1, <3>2
    <2>7. head' = ring'[1] /\ tail' = ring'[len - 1]
      <3>1. len - 1 \in 1 .. len - 1
        BY <2>1, <1>1
      <3> QED
        BY <2>1, <2>2, <2>3, <2>5, <3>1
    <2>8. ASSUME NEW i \in 1 .. len - 2
          PROVE  nodes'[ring'[i]].next = ring'[i + 1] /\ nodes'[ring'[i + 1]].prev = ring'[i]
      <3>1. /\ i \in 1 .. len - 1 /\ i + 1 \in 1 .. len - 1 /\ i \in 1 .. len
            /\ i + 1 \in 1 .. len /\ i # len - 1 /\ i + 1 # 1
        BY SMTT(30), <1>1, <2>1
      <3>2. ring'[i] = ring[i] /\ ring'[i + 1] = ring[i + 1]
        BY <2>5, <3>1
      <3>3. ring[i] # ring[len - 1] /\ ring[i + 1] # ring[1]
        BY <1>1, <2>1, <3>1 DEF ListInv
      <3>4. nodes[ring[i]].next = ring[i + 1] /\ nodes[ring[i + 1]].prev = ring[i]
        BY <1>1, <3>1 DEF ListInv, Linked
      <3>5. ring[i] \in 1 .. Len(nodes) /\ ring[i + 1] \in 1 .. Len(nodes)
        BY <1>1, <3>1
      <3> QED
        BY <2>2, <2>3, <2>4, <3>2, <3>3, <3>4, <3>5
    <2>9. nodes'[tail'].next = head /\ nodes'[head].prev = tail'
      <3>1. head \in 1 .. Len(nodes) /\ tail' \in 1 .. Len(nodes)
        BY <1>1, <2>1, <2>2, <2>3
      <3> QED
        BY <2>4, <3>1
    <2>10. Linked(nodes', ring')
      <3>1. Len(ring') - 1 = len - 2
        BY <1>1, <2>5
      <3> QED
        BY <2>1, <2>5, <2>7, <2>8, <2>9, <3>1 DEF Linked
    <2> QED
      BY <1>1, <2>1, <2>4, <2>5, <2>6, <2>7, <2>10 DEF ListInv
  <1> QED
    BY <1>2, <1>3

LEMMA ListInvariant == ListSpec => []ListInv
  <1>1. ListInit => ListInv
    <2> SUFFICES ASSUME ListInit PROVE ListInv
      OBVIOUS
    <2>1. nodes = <<>> /\ ring = <<>> /\ Len(nodes) = 0 /\ Len(ring) = 0
      BY DEF ListInit
    <2>2. nodes \in Seq(Node) /\ ring \in Seq(1 .. Len(nodes))
      BY <2>1
    <2>3. Linked(nodes, ring)
      BY <2>1 DEF Linked
    <2> QED
      BY <2>1, <2>2, <2>3, ListAssumption DEF ListInit, ListInv
  <1>2. ListInv /\ [ListNext]_lvars => ListInv'
    <2>1. ListInv /\ UNCHANGED lvars => ListInv'
      BY DEF lvars, ListInv, Linked
    <2> QED
      BY <2>1, PushFrontInv, PushBackInv, PopFrontInv, PopBackInv DEF ListNext
  <1> QED
    BY <1>1, <1>2, PTL DEF ListSpec

\* The links of the list are those of a deque, whatever is pushed and popped
\* on either side and however many nodes are made (list_push_front,
\* list_push_back, list_pop_front, list_pop_back).
THEOREM RingIsDequeHolds == ListSpec => []RingIsDeque
  <1>1. ListInv => RingIsDeque
    BY DEF ListInv, RingIsDeque, Linked
  <1> QED
    BY <1>1, ListInvariant, PTL

----------------------------------------------------------------------------
(* The clock.                                                              *)

\* The local time is a date and a time of the day.
PtimeInv ==
    /\ year \in Nat /\ month \in 1 .. 12 /\ day \in 1 .. DaysIn(year, month)
    /\ half \in 0 .. 2 * DayMs - 1

Time == [year : Nat, month : 1 .. 12, day : Nat \ {0}, ms : Nat]

\* Days before the year, and before the month in the year.
YearDays(y)     == 365 * y + (y + 3) \div 4 - (y + 99) \div 100 + (y + 399) \div 400
MonthDays(y, m) == <<0, 31, 59, 90, 120, 151, 181, 212, 243, 273, 304, 334>>[m]
                     + IF m > 2 /\ Leap(y) THEN 1 ELSE 0

LEMMA DaysInIs ==
    ASSUME NEW y \in Nat, NEW m \in 1 .. 12
    PROVE  DaysIn(y, m) \in 28 .. 31
  BY DEF DaysIn

LEMMA MonthDaysAre ==
    ASSUME NEW y \in Nat, NEW m \in 1 .. 12
    PROVE  MonthDays(y, m) \in Nat
  <1>1. m = 1 \/ m = 2 \/ m = 3 \/ m = 4 \/ m = 5 \/ m = 6
        \/ m = 7 \/ m = 8 \/ m = 9 \/ m = 10 \/ m = 11 \/ m = 12
    OBVIOUS
  <1> QED
    BY <1>1 DEF MonthDays

LEMMA YearOfMonths ==
    ASSUME NEW y \in Nat
    PROVE  /\ MonthDays(y, 1) = 0
           /\ MonthDays(y, 12) + 31 = IF Leap(y) THEN 366 ELSE 365
  BY DEF MonthDays

LEMMA NextMonthIs ==
    ASSUME NEW y \in Nat, NEW m \in 1 .. 12, NEW n \in 1 .. 12, n = m + 1
    PROVE  MonthDays(y, n) = MonthDays(y, m) + DaysIn(y, m)
  <1>1. m = 1 \/ m = 2 \/ m = 3 \/ m = 4 \/ m = 5 \/ m = 6
        \/ m = 7 \/ m = 8 \/ m = 9 \/ m = 10 \/ m = 11
    OBVIOUS
  <1> QED
    BY <1>1 DEF MonthDays, DaysIn

\* Years follow one another.
LEMMA YearDaysAre ==
    ASSUME NEW y \in Nat
    PROVE  /\ YearDays(y) \in Nat
           /\ YearDays(y + 1) = YearDays(y) + IF Leap(y) THEN 366 ELSE 365
           /\ 365 * y <= YearDays(y) /\ YearDays(y) <= 366 * y
  <1>1. YearDays(y) \in Int
    BY DEF YearDays
  <1>2. 365 * y <= YearDays(y) /\ YearDays(y) <= 366 * y
    BY DEF YearDays
  <1>3. YearDays(y + 1) = YearDays(y) + IF Leap(y) THEN 366 ELSE 365
    <2>1. (y + 4) \div 4 = (y + 3) \div 4 + IF y % 4 = 0 THEN 1 ELSE 0
      OBVIOUS
    <2>2. (y + 100) \div 100 = (y + 99) \div 100 + IF y % 100 = 0 THEN 1 ELSE 0
      OBVIOUS
    <2>3. (y + 400) \div 400 = (y + 399) \div 400 + IF y % 400 = 0 THEN 1 ELSE 0
      OBVIOUS
    <2>4. (y % 400 = 0 => y % 100 = 0) /\ (y % 100 = 0 => y % 4 = 0)
      OBVIOUS
    <2> QED
      BY <2>1, <2>2, <2>3, <2>4 DEF YearDays, Leap
  <1> QED
    BY <1>1, <1>2, <1>3

\* A later year begins no earlier.
LEMMA YearDaysGrow ==
    ASSUME NEW y \in Nat, NEW z \in Nat, y <= z
    PROVE  YearDays(y) <= YearDays(z)
  BY DEF YearDays

LEMMA DaysBeforeIs ==
    ASSUME NEW y \in Nat, NEW m \in 1 .. 12
    PROVE  DaysBefore(y, m) = YearDays(y) + MonthDays(y, m)
  <1>1. <<0, 31, 59, 90, 120, 151, 181, 212, 243, 273, 304, 334>>[m] \in Nat
    OBVIOUS
  <1>2. YearDays(y) \in Nat
    BY YearDaysAre
  <1> QED
    BY <1>1, <1>2 DEF DaysBefore, YearDays, MonthDays

\* Months follow one another.
LEMMA MonthsFollow ==
    ASSUME NEW y \in Nat, NEW m \in 1 .. 12, NEW n \in 1 .. 12, m < n
    PROVE  MonthDays(y, m) + DaysIn(y, m) <= MonthDays(y, n)
  <1>1. m = 1 \/ m = 2 \/ m = 3 \/ m = 4 \/ m = 5 \/ m = 6
        \/ m = 7 \/ m = 8 \/ m = 9 \/ m = 10 \/ m = 11
    OBVIOUS
  <1>2. n = 2 \/ n = 3 \/ n = 4 \/ n = 5 \/ n = 6
        \/ n = 7 \/ n = 8 \/ n = 9 \/ n = 10 \/ n = 11 \/ n = 12
    OBVIOUS
  <1> QED
    BY <1>1, <1>2 DEF MonthDays, DaysIn

\* gmtime takes the number of a day back to its date.
LEMMA CivilIs ==
    ASSUME NEW y \in Nat, NEW m \in 1 .. 12, NEW d \in 1 .. DaysIn(y, m)
    PROVE  Civil(DaysBefore(y, m) + d - 1) = [year |-> y, month |-> m, day |-> d]
  <1> DEFINE n == DaysBefore(y, m) + d - 1
             P(z) == DaysBefore(z, 1) <= n /\ n < DaysBefore(z + 1, 1)
             Y == CHOOSE z \in n \div 366 .. n \div 365 : P(z)
             Q(k) == DaysBefore(y, k) <= n /\ n < DaysBefore(y, k) + DaysIn(y, k)
             M == CHOOSE k \in 1 .. 12 : Q(k)
  <1>1. /\ DaysIn(y, m) \in Nat /\ d \in Nat /\ d >= 1 /\ d <= DaysIn(y, m)
        /\ YearDays(y) \in Nat /\ MonthDays(y, m) \in Nat
        /\ 365 * y <= YearDays(y)
    <2>1. DaysIn(y, m) \in Nat /\ d \in 1 .. DaysIn(y, m)
      BY DaysInIs
    <2>2. d \in Nat /\ d >= 1 /\ d <= DaysIn(y, m)
      BY <2>1
    <2>3. MonthDays(y, m) \in Nat
      BY MonthDaysAre
    <2>4. YearDays(y) \in Nat /\ 365 * y <= YearDays(y)
      BY YearDaysAre
    <2> QED
      BY <2>1, <2>2, <2>3, <2>4
  <1>2. n = YearDays(y) + MonthDays(y, m) + d - 1 /\ n \in Nat
    BY <1>1, DaysBeforeIs
  <1>3. MonthDays(y, m) + DaysIn(y, m) <= IF Leap(y) THEN 366 ELSE 365
    <2>1. CASE m = 12
      <3>1. DaysIn(y, 12) = 31
        BY DEF DaysIn
      <3> QED
        BY <2>1, <3>1, YearOfMonths
    <2>2. CASE m # 12
      <3>1. MonthDays(y, m) + DaysIn(y, m) <= MonthDays(y, 12)
        BY <2>2, MonthsFollow
      <3>2. MonthDays(y, 12) + 31 = IF Leap(y) THEN 366 ELSE 365
        BY YearOfMonths
      <3>3. MonthDays(y, 12) \in Nat
        BY MonthDaysAre
      <3> QED
        BY <1>1, <3>1, <3>2, <3>3
    <2> QED
      BY <2>1, <2>2
  <1>4. /\ YearDays(y) <= n /\ n < YearDays(y + 1) /\ YearDays(y + 1) \in Nat
        /\ YearDays(y + 1) <= 366 * (y + 1)
    <2>1. YearDays(y + 1) = YearDays(y) + IF Leap(y) THEN 366 ELSE 365
      BY YearDaysAre
    <2>2. y + 1 \in Nat
      OBVIOUS
    <2>3. YearDays(y + 1) \in Nat /\ YearDays(y + 1) <= 366 * (y + 1)
      BY <2>2, YearDaysAre
    <2> HIDE DEF n
    <2> QED
      BY <1>1, <1>2, <1>3, <2>1, <2>3
  <1>5. \A z \in Nat : DaysBefore(z, 1) = YearDays(z)
    <2> SUFFICES ASSUME NEW z \in Nat PROVE DaysBefore(z, 1) = YearDays(z)
      OBVIOUS
    <2>1. DaysBefore(z, 1) = YearDays(z) + MonthDays(z, 1)
      BY DaysBeforeIs
    <2>2. MonthDays(z, 1) = 0
      BY YearOfMonths
    <2> QED
      BY <2>1, <2>2, YearDaysAre
  <1> HIDE DEF n
  <1>6. y \in n \div 366 .. n \div 365 /\ P(y)
    <2>1. n < 366 * (y + 1) /\ 365 * y <= n
      BY <1>1, <1>2, <1>4
    <2>2. n \div 366 \in Int /\ n \div 365 \in Int
          /\ n \div 366 <= y /\ y <= n \div 365
      BY <1>2, <2>1
    <2> QED
      BY <1>4, <1>5, <2>2
  <1>7. ASSUME NEW z \in n \div 366 .. n \div 365, P(z) PROVE z = y
    <2>1. z \in Nat
      <3>1. n \div 366 \in Nat /\ n \div 365 \in Nat
        BY <1>2
      <3> QED
        BY <3>1
    <2>2. YearDays(z) <= n /\ n < YearDays(z + 1)
      BY <1>5, <1>7, <2>1
    <2>3. ~(z < y)
      <3> SUFFICES ASSUME z < y PROVE FALSE
        OBVIOUS
      <3>1. PICK x \in Nat : x = z + 1 /\ x <= y
        <4>1. z + 1 \in Nat /\ z + 1 <= y
          BY <2>1
        <4> QED
          BY <4>1
      <3>2. YearDays(x) <= YearDays(y) /\ YearDays(x) \in Nat
        <4>1. YearDays(x) \in Nat
          BY YearDaysAre
        <4>2. x <= y
          BY <3>1
        <4> QED
          BY <4>1, <4>2, YearDaysGrow
      <3>3. n < YearDays(x)
        BY <2>2, <3>1
      <3> QED
        BY <1>1, <1>2, <1>4, <3>2, <3>3
    <2>4. ~(y < z)
      <3> SUFFICES ASSUME y < z PROVE FALSE
        OBVIOUS
      <3>1. y + 1 \in Nat /\ y + 1 <= z
        BY <2>1
      <3>2. YearDays(y + 1) <= YearDays(z) /\ YearDays(z) \in Nat
        BY <2>1, <3>1, YearDaysAre, YearDaysGrow
      <3> QED
        BY <1>2, <1>4, <2>2, <3>2
    <2> QED
      BY <2>1, <2>3, <2>4
  <1>8. Y = y
    BY <1>6, <1>7
  <1>9. Q(m)
    BY <1>1, <1>2, DaysBeforeIs
  <1>10. ASSUME NEW k \in 1 .. 12, Q(k) PROVE k = m
    <2>1. /\ DaysBefore(y, k) = YearDays(y) + MonthDays(y, k) /\ MonthDays(y, k) \in Nat
          /\ DaysIn(y, k) \in Nat
      <3>1. DaysIn(y, k) \in Nat
        BY DaysInIs
      <3>2. DaysBefore(y, k) = YearDays(y) + MonthDays(y, k)
        BY DaysBeforeIs
      <3>3. MonthDays(y, k) \in Nat
        BY MonthDaysAre
      <3> QED
        BY <3>1, <3>2, <3>3
    <2>2. MonthDays(y, k) <= MonthDays(y, m) + d - 1
          /\ MonthDays(y, m) + d - 1 < MonthDays(y, k) + DaysIn(y, k)
      BY <1>1, <1>2, <1>10, <2>1
    <2>3. ~(k < m)
      BY <1>1, <2>1, <2>2, MonthsFollow
    <2>4. ~(m < k)
      BY <1>1, <2>1, <2>2, MonthsFollow
    <2> QED
      BY <2>3, <2>4
  <1>11. M = m
    BY <1>9, <1>10
  <1>12. n - DaysBefore(y, m) + 1 = d
    BY <1>1, <1>2, DaysBeforeIs
  <1>13. Civil(n) = [year |-> Y, month |-> (CHOOSE k \in 1 .. 12 :
                       DaysBefore(Y, k) <= n /\ n < DaysBefore(Y, k) + DaysIn(Y, k)),
                     day |-> n - DaysBefore(Y, (CHOOSE k \in 1 .. 12 :
                       DaysBefore(Y, k) <= n /\ n < DaysBefore(Y, k) + DaysIn(Y, k))) + 1]
    BY DEF Civil
  <1> HIDE DEF Y
  <1>14. Civil(n) = [year |-> y, month |-> M, day |-> n - DaysBefore(y, M) + 1]
    BY <1>8, <1>13
  <1> HIDE DEF M
  <1> QED
    BY <1>11, <1>12, <1>14 DEF n

\* mktime is linear in the day, and takes a month for the next one.
MonthTaken(y, m, z, k) ==
    \/ m < 12 /\ z = 1900 + y /\ k = m + 1
    \/ m = 12 /\ z = 1901 + y /\ k = 1

LEMMA MkTimeIs ==
    ASSUME NEW y \in Nat, NEW m \in 1 .. 12, NEW d \in Nat,
           NEW z \in Nat, NEW k \in 1 .. 12, MonthTaken(y, m, z, k)
    PROVE  MkTime(y, m, d) = DaysBefore(z, k) + d - 1
  <1>1. z = 1900 + y + (m \div 12) /\ k = (m % 12) + 1
    <2>1. CASE m < 12
      <3>1. m \div 12 = 0 /\ m % 12 = m
        BY <2>1
      <3> QED
        BY <2>1, <3>1 DEF MonthTaken
    <2>2. CASE m = 12
      <3>1. m \div 12 = 1 /\ m % 12 = 0
        BY <2>2
      <3> QED
        BY <2>2, <3>1 DEF MonthTaken
    <2> QED
      BY <2>1, <2>2
  <1> QED
    BY <1>1 DEF MkTime

LEMMA MkTimeLinear ==
    ASSUME NEW y \in Nat, NEW m \in 1 .. 12, NEW d \in Nat
    PROVE  MkTime(y, m, 1) \in Nat /\ MkTime(y, m, d) = MkTime(y, m, 1) + d - 1
  <1> DEFINE z == 1900 + y + (m \div 12)
             k == (m % 12) + 1
  <1>1. z \in Nat /\ k \in 1 .. 12
    OBVIOUS
  <1>2. \A e : MkTime(y, m, e) = DaysBefore(z, k) + e - 1
    BY DEF MkTime
  <1> HIDE DEF z, k
  <1>3. DaysBefore(z, k) \in Nat
    <2>1. DaysBefore(z, k) = YearDays(z) + MonthDays(z, k)
      BY <1>1, DaysBeforeIs
    <2>2. YearDays(z) \in Nat
      BY <1>1, YearDaysAre
    <2>3. MonthDays(z, k) \in Nat
      BY <1>1, MonthDaysAre
    <2> QED
      BY <2>1, <2>2, <2>3
  <1>4. MkTime(y, m, d) = DaysBefore(z, k) + d - 1
        /\ MkTime(y, m, 1) = DaysBefore(z, k) + 1 - 1
    BY <1>2
  <1> QED
    BY <1>3, <1>4

\* A month passes, and mktime goes on by the days of the month that follows.
LEMMA MonthPasses ==
    ASSUME NEW y \in Nat, NEW m \in 1 .. 12
    PROVE  /\ m < 12 => MkTime(y, m + 1, 1) = MkTime(y, m, 1) + DaysIn(1900 + y, m + 1)
           /\ m = 12 => MkTime(y + 1, 1, 1) = MkTime(y, 12, 1) + 31
  <1>1. PICK z \in Nat, v \in Nat : z = 1900 + y /\ v = 1901 + y /\ v = z + 1
    OBVIOUS
  <1>2. v = 1900 + (y + 1) /\ y + 1 \in Nat /\ 1 \in Nat
    BY <1>1
  <1>3. YearDays(z) \in Nat /\ YearDays(v) \in Nat
        /\ YearDays(v) = YearDays(z) + IF Leap(z) THEN 366 ELSE 365
    <2>1. YearDays(z) \in Nat /\ YearDays(v) \in Nat
      BY YearDaysAre
    <2>2. YearDays(z + 1) = YearDays(z) + IF Leap(z) THEN 366 ELSE 365
      BY YearDaysAre
    <2> QED
      BY <1>1, <2>1, <2>2
  <1>4. CASE m < 11
    <2>1. PICK k \in 1 .. 12, n \in 1 .. 12 : k = m + 1 /\ n = m + 2 /\ n = k + 1 /\ k < 12
      BY <1>4
    <2>2. MkTime(y, m, 1) = DaysBefore(z, k) + 1 - 1
      <3>1. MonthTaken(y, m, z, k)
        BY <1>1, <1>4, <2>1 DEF MonthTaken
      <3> QED
        BY SMTT(30), <1>2, <2>1, <3>1, MkTimeIs
    <2>3. MkTime(y, k, 1) = DaysBefore(z, n) + 1 - 1
      <3>1. MonthTaken(y, k, z, n)
        BY <1>1, <2>1 DEF MonthTaken
      <3> QED
        BY SMTT(30), <1>2, <2>1, <3>1, MkTimeIs
    <2>4. DaysBefore(z, k) = YearDays(z) + MonthDays(z, k)
      BY DaysBeforeIs
    <2>5. DaysBefore(z, n) = YearDays(z) + MonthDays(z, n)
      BY DaysBeforeIs
    <2>6. MonthDays(z, k) \in Nat /\ MonthDays(z, n) = MonthDays(z, k) + DaysIn(z, k)
      <3>1. MonthDays(z, k) \in Nat
        BY MonthDaysAre
      <3>2. MonthDays(z, n) = MonthDays(z, k) + DaysIn(z, k)
        BY <2>1, NextMonthIs
      <3> QED
        BY <3>1, <3>2
    <2>7. DaysIn(z, k) \in Nat
      BY DaysInIs
    <2>8. MkTime(y, k, 1) = MkTime(y, m, 1) + DaysIn(z, k)
      BY <1>3, <2>2, <2>3, <2>4, <2>5, <2>6, <2>7
    <2>9. m # 12
      BY <1>4
    <2> QED
      BY <1>1, <2>1, <2>8, <2>9
  <1>5. CASE m = 11
    <2>1. 12 \in 1 .. 12 /\ 1 \in 1 .. 12 /\ 11 \in 1 .. 12
      OBVIOUS
    <2>2. MkTime(y, 11, 1) = DaysBefore(z, 12) + 1 - 1
      <3>1. MonthTaken(y, 11, z, 12)
        BY <1>1, <2>1 DEF MonthTaken
      <3> QED
        BY <1>2, <2>1, <3>1, MkTimeIs
    <2>3. MkTime(y, 12, 1) = DaysBefore(v, 1) + 1 - 1
      <3>1. MonthTaken(y, 12, v, 1)
        BY <1>1, <2>1 DEF MonthTaken
      <3> QED
        BY <1>2, <2>1, <3>1, MkTimeIs
    <2>4. DaysBefore(z, 12) = YearDays(z) + MonthDays(z, 12)
      BY <2>1, DaysBeforeIs
    <2>5. DaysBefore(v, 1) = YearDays(v) + MonthDays(v, 1)
      BY <1>2, <2>1, DaysBeforeIs
    <2>6. MonthDays(v, 1) = 0
      BY YearOfMonths
    <2>7. MonthDays(z, 12) \in Nat /\ MonthDays(z, 12) + 31 = IF Leap(z) THEN 366 ELSE 365
      <3>1. MonthDays(z, 12) \in Nat
        BY <2>1, MonthDaysAre
      <3> QED
        BY <3>1, YearOfMonths
    <2>8. DaysIn(z, 12) = 31
      BY DEF DaysIn
    <2>9. MkTime(y, 12, 1) = MkTime(y, 11, 1) + 31
      BY <1>3, <2>2, <2>3, <2>4, <2>5, <2>6, <2>7
    <2> QED
      BY <1>1, <1>5, <2>8, <2>9
  <1>6. CASE m = 12
    <2>1. 12 \in 1 .. 12 /\ 1 \in 1 .. 12 /\ 2 \in 1 .. 12
      OBVIOUS
    <2>2. MkTime(y, 12, 1) = DaysBefore(v, 1) + 1 - 1
      <3>1. MonthTaken(y, 12, v, 1)
        BY <1>1, <2>1 DEF MonthTaken
      <3> QED
        BY <1>2, <2>1, <3>1, MkTimeIs
    <2>3. PICK x \in Nat : x = y + 1
      BY <1>2
    <2>4. MkTime(x, 1, 1) = DaysBefore(v, 2) + 1 - 1
      <3>1. v = 1900 + x /\ 1 < 12 /\ 2 = 1 + 1
        BY <1>2, <2>3
      <3> QED
        <4>1. MonthTaken(x, 1, v, 2)
          BY <3>1 DEF MonthTaken
        <4> QED
          BY <1>2, <2>1, <4>1, MkTimeIs
    <2>5. DaysBefore(v, 1) = YearDays(v) + MonthDays(v, 1)
          /\ DaysBefore(v, 2) = YearDays(v) + MonthDays(v, 2)
      BY <1>2, <2>1, DaysBeforeIs
    <2>6. MonthDays(v, 1) = 0 /\ MonthDays(v, 2) = 31
      BY DEF MonthDays
    <2>7. MkTime(x, 1, 1) = MkTime(y, 12, 1) + 31
      BY <1>3, <2>2, <2>4, <2>5, <2>6
    <2> QED
      BY <1>6, <2>3, <2>7
  <1> QED
    BY <1>4, <1>5, <1>6

\* A time that is one.
Valid(t) ==
    /\ t \in Time
    /\ t.day <= DaysIn(t.year, t.month) /\ t.ms < DayMs

\* The next millisecond of the same day, and midnight.
NextMs(t)   == [t EXCEPT !.ms = @ + 1]
Midnight(t) == NextDay([t EXCEPT !.ms = 0])

At(y, m, d, s) == [year |-> y, month |-> m, day |-> d, ms |-> s]

LEMMA TimeIsAt ==
    ASSUME NEW t \in Time
    PROVE  /\ t = At(t.year, t.month, t.day, t.ms)
           /\ t.year \in Nat /\ t.month \in 1 .. 12 /\ t.day \in Nat \ {0} /\ t.ms \in Nat
  BY DEF At, Time

LEMMA ValidAt ==
    ASSUME NEW y \in Nat, NEW m \in 1 .. 12, NEW d \in 1 .. DaysIn(y, m),
           NEW s \in 0 .. DayMs - 1
    PROVE  Valid(At(y, m, d, s))
  <1>1. /\ DaysIn(y, m) \in Nat /\ DayMs \in Nat
    BY DaysInIs, PtimeAssumption
  <1>2. d \in Nat \ {0} /\ d <= DaysIn(y, m) /\ s \in Nat /\ s < DayMs
    BY <1>1
  <1> DEFINE t == At(y, m, d, s)
  <1>3. t \in Time /\ t.year = y /\ t.month = m /\ t.day = d /\ t.ms = s
    BY <1>2 DEF At, Time
  <1> HIDE DEF t
  <1>4. Valid(t)
    BY <1>2, <1>3 DEF Valid
  <1> QED
    BY <1>4 DEF t

LEMMA NextDayAt ==
    ASSUME NEW y \in Nat, NEW m \in 1 .. 12, NEW d \in Nat \ {0}
    PROVE  /\ d < DaysIn(y, m) => NextDay(At(y, m, d, 0)) = At(y, m, d + 1, 0)
           /\ ~(d < DaysIn(y, m)) /\ m < 12 =>
                NextDay(At(y, m, d, 0)) = At(y, m + 1, 1, 0)
           /\ ~(d < DaysIn(y, m)) /\ ~(m < 12) =>
                NextDay(At(y, m, d, 0)) = At(y + 1, 1, 1, 0)
  <1> DEFINE u == At(y, m, d, 0)
  <1>1. u.year = y /\ u.month = m /\ u.day = d
    BY DEF At
  <1>2. [u EXCEPT !.day = u.day + 1] = At(y, m, d + 1, 0)
    BY DEF At
  <1>3. [u EXCEPT !.month = u.month + 1, !.day = 1] = At(y, m + 1, 1, 0)
    <2>1. [u EXCEPT !.month = u.month + 1] = At(y, m + 1, d, 0)
      BY DEF At
    <2>2. [At(y, m + 1, d, 0) EXCEPT !.day = 1] = At(y, m + 1, 1, 0)
      BY DEF At
    <2>3. [u EXCEPT !.month = u.month + 1, !.day = 1]
            = [[u EXCEPT !.month = u.month + 1] EXCEPT !.day = 1]
      OBVIOUS
    <2> QED
      BY <2>1, <2>2, <2>3
  <1>4. [u EXCEPT !.year = u.year + 1, !.month = 1, !.day = 1] = At(y + 1, 1, 1, 0)
    <2>1. [u EXCEPT !.year = u.year + 1] = At(y + 1, m, d, 0)
      BY DEF At
    <2>2. [At(y + 1, m, d, 0) EXCEPT !.month = 1] = At(y + 1, 1, d, 0)
      BY DEF At
    <2>3. [At(y + 1, 1, d, 0) EXCEPT !.day = 1] = At(y + 1, 1, 1, 0)
      BY DEF At
    <2>4. [u EXCEPT !.year = u.year + 1, !.month = 1, !.day = 1]
            = [[[u EXCEPT !.year = u.year + 1] EXCEPT !.month = 1] EXCEPT !.day = 1]
      OBVIOUS
    <2> QED
      BY <2>1, <2>2, <2>3, <2>4
  <1> HIDE DEF u
  <1>5. NextDay(u) = IF y = y /\ d < DaysIn(y, m) THEN At(y, m, d + 1, 0)
                     ELSE IF m < 12 THEN At(y, m + 1, 1, 0) ELSE At(y + 1, 1, 1, 0)
    BY <1>1, <1>2, <1>3, <1>4 DEF NextDay
  <1> QED
    BY <1>5 DEF u

LEMMA MidnightIs ==
    ASSUME NEW t, Valid(t)
    PROVE  /\ Valid(Midnight(t)) /\ Midnight(t).ms = 0
           /\ t.day < DaysIn(t.year, t.month) =>
                Midnight(t) = At(t.year, t.month, t.day + 1, 0)
           /\ t.day = DaysIn(t.year, t.month) =>
                Midnight(t) = IF t.month < 12 THEN At(t.year, t.month + 1, 1, 0)
                              ELSE At(t.year + 1, 1, 1, 0)
  <1>1. /\ t.year \in Nat /\ t.month \in 1 .. 12 /\ t.day \in Nat \ {0} /\ t.ms \in Nat
        /\ t = At(t.year, t.month, t.day, t.ms)
        /\ t.day <= DaysIn(t.year, t.month)
    BY TimeIsAt DEF Valid
  <1>2. PICK y \in Nat, m \in 1 .. 12, d \in Nat \ {0}, s \in Nat :
          /\ y = t.year /\ m = t.month /\ d = t.day /\ t = At(y, m, d, s)
          /\ d <= DaysIn(y, m)
    BY <1>1
  <1>3. [At(y, m, d, s) EXCEPT !.ms = 0] = At(y, m, d, 0)
    BY DEF At
  <1>4. Midnight(t) = NextDay(At(y, m, d, 0))
    BY <1>2, <1>3 DEF Midnight
  <1>5. DaysIn(y, m) \in Nat /\ DayMs \in Nat /\ 0 < DayMs /\ 0 \in 0 .. DayMs - 1
    BY DaysInIs, PtimeAssumption
  <1>6. CASE d < DaysIn(y, m)
    <2>1. Midnight(t) = At(y, m, d + 1, 0)
      BY <1>4, <1>6, NextDayAt
    <2>2. d + 1 \in 1 .. DaysIn(y, m) /\ d + 1 \in Nat \ {0}
      BY <1>5, <1>6
    <2>3. Valid(At(y, m, d + 1, 0)) /\ At(y, m, d + 1, 0).ms = 0
      <3>1. \A e : At(y, m, e, 0).ms = 0
        BY DEF At
      <3>2. \A e \in 1 .. DaysIn(y, m) : Valid(At(y, m, e, 0))
        BY <1>5, ValidAt
      <3> QED
        BY <2>2, <3>1, <3>2
    <2>4. At(t.year, t.month, t.day + 1, 0) = At(y, m, d + 1, 0)
      BY <1>2
    <2>5. ~(t.day = DaysIn(t.year, t.month))
      BY <1>2, <1>5, <1>6
    <2> QED
      BY <2>1, <2>3, <2>4, <2>5
  <1>7. CASE d = DaysIn(y, m) /\ m < 12
    <2>1. Midnight(t) = At(y, m + 1, 1, 0)
      BY <1>4, <1>5, <1>7, NextDayAt
    <2>2. m + 1 \in 1 .. 12 /\ 1 \in Nat \ {0}
      BY <1>7
    <2>3. 1 \in 1 .. DaysIn(y, m + 1)
      <3>1. DaysIn(y, m + 1) \in 28 .. 31
        BY <2>2, DaysInIs
      <3> QED
        BY <3>1
    <2>4. Valid(At(y, m + 1, 1, 0)) /\ At(y, m + 1, 1, 0).ms = 0
      <3>1. \A k : At(y, k, 1, 0).ms = 0
        BY DEF At
      <3>2. \A k \in 1 .. 12 : 1 \in 1 .. DaysIn(y, k) => Valid(At(y, k, 1, 0))
        BY <1>5, ValidAt
      <3> QED
        BY <2>2, <2>3, <3>1, <3>2
    <2> QED
      BY <1>2, <1>5, <1>7, <2>1, <2>4
  <1>8. CASE d = DaysIn(y, m) /\ ~(m < 12)
    <2>1. Midnight(t) = At(y + 1, 1, 1, 0)
      BY <1>4, <1>5, <1>8, NextDayAt
    <2>2. y + 1 \in Nat /\ 1 \in 1 .. 12 /\ 1 \in Nat \ {0} /\ 1 \in 1 .. DaysIn(y + 1, 1)
      BY DEF DaysIn
    <2>3. Valid(At(y + 1, 1, 1, 0)) /\ At(y + 1, 1, 1, 0).ms = 0
      <3>1. \A z : At(z, 1, 1, 0).ms = 0
        BY DEF At
      <3>2. \A z \in Nat : 1 \in 1 .. DaysIn(z, 1) => Valid(At(z, 1, 1, 0))
        BY <1>5, ValidAt
      <3> QED
        BY <2>2, <3>1, <3>2
    <2> QED
      BY <1>2, <1>5, <1>8, <2>1, <2>3
  <1> QED
    BY <1>2, <1>5, <1>6, <1>7, <1>8

\* What ptime() reads is a time, and as real time passes it stays, goes on by
\* a millisecond, or goes to the next day.
LEMMA NowTicks ==
    ASSUME PtimeInv, [PtimeTick]_pvars
    PROVE  /\ PtimeInv'
           /\ Valid(Now) /\ Valid(Now')
           /\ \/ Now' = Now
              \/ Now' = NextMs(Now) /\ Now.ms + 1 < DayMs
              \/ Now' = Midnight(Now) /\ Now.ms + 1 = DayMs /\ Now.year = year
  <1>1. /\ year \in Nat /\ month \in 1 .. 12 /\ day \in 1 .. DaysIn(year, month)
        /\ half \in 0 .. 2 * DayMs - 1 /\ DayMs \in Nat /\ DayMs > 0
        /\ DaysIn(year, month) \in Nat
    BY DaysInIs, PtimeAssumption DEF PtimeInv
  <1>2. /\ day \in Nat /\ day >= 1 /\ day <= DaysIn(year, month)
        /\ half \in Nat /\ half <= 2 * DayMs - 1
    BY <1>1
  <1> DEFINE at(s) == [year |-> year, month |-> month, day |-> day, ms |-> s]
             m == (half + 1) \div 2
  <1>3. \A s \in 0 .. DayMs - 1 : Valid(at(s)) /\ at(s).ms = s /\ at(s).year = year
    BY <1>1, <1>2 DEF Valid, Time
  <1>4. Today = at(0)
    BY DEF Today
  <1>5. \A s : [at(s) EXCEPT !.ms = 0] = at(0)
    OBVIOUS
  <1>6. 0 \in 0 .. DayMs - 1 /\ DayMs - 1 \in 0 .. DayMs - 1
    BY <1>1
  <1>7. Midnight(at(DayMs - 1)) = NextDay(Today) /\ Valid(NextDay(Today))
        /\ NextDay(Today).ms = 0
    <2>1. Midnight(at(DayMs - 1)) = NextDay(Today)
      BY <1>4, <1>5 DEF Midnight
    <2>2. Valid(at(DayMs - 1))
      BY <1>3, <1>6
    <2> HIDE DEF at
    <2> QED
      BY <2>1, <2>2, MidnightIs
  <1>8. m \in Nat /\ m <= DayMs /\ (m = DayMs <=> half = 2 * DayMs - 1)
    BY <1>1, <1>2
  <1>9. Now = IF m < DayMs THEN at(m) ELSE NextDay(Today)
    BY <1>4 DEF Now
  <1>10. Valid(Now)
    <2>1. m < DayMs => m \in 0 .. DayMs - 1
      BY <1>1, <1>8
    <2> HIDE DEF m, at
    <2> QED
      BY <1>3, <1>7, <1>9, <2>1
  <1>11. CASE UNCHANGED pvars
    <2>1. Now' = Now /\ PtimeInv'
      BY <1>11 DEF pvars, Now, Today, PtimeInv
    <2> QED
      BY <1>10, <2>1
  <1>12. CASE PtimeTick /\ half < 2 * DayMs - 1
    <2>1. half' = half + 1 /\ UNCHANGED <<year, month, day>>
      BY <1>12 DEF PtimeTick
    <2>2. PtimeInv'
      BY <1>1, <1>2, <1>12, <2>1 DEF PtimeInv
    <2>3. Today' = Today
      BY <2>1 DEF Today
    <2> DEFINE k == (half + 2) \div 2
    <2>4. k \in Nat /\ m < DayMs /\ (k = m \/ k = m + 1) /\ k <= DayMs
      BY <1>1, <1>2, <1>12
    <2>5. Now' = IF k < DayMs THEN at(k) ELSE NextDay(Today)
      <3>1. (half' + 1) \div 2 = k
        BY <1>2, <2>1
      <3> HIDE DEF k
      <3> QED
        BY <1>4, <2>3, <3>1 DEF Now
    <2>6. m \in 0 .. DayMs - 1 /\ (k < DayMs => k \in 0 .. DayMs - 1)
      BY <1>1, <2>4
    <2> HIDE DEF m, k
    <2>7. Now = at(m) /\ Now.ms = m /\ Now.year = year
      BY <1>3, <1>9, <2>4, <2>6
    <2>8. Valid(Now')
      BY <1>3, <1>7, <2>5, <2>6
    <2>9. CASE k = m
      BY <1>10, <2>2, <2>4, <2>5, <2>7, <2>8, <2>9
    <2>10. CASE k = m + 1 /\ k < DayMs
      <3>1. NextMs(at(m)) = at(m + 1)
        BY DEF NextMs
      <3> QED
        BY <1>10, <2>2, <2>5, <2>7, <2>8, <2>10, <3>1
    <2>11. CASE k = m + 1 /\ k = DayMs
      <3>1. m = DayMs - 1 /\ m + 1 = DayMs /\ ~(k < DayMs)
        BY <1>1, <1>8, <2>4, <2>11
      <3>2. Now' = Midnight(Now)
        BY <1>7, <2>5, <2>7, <3>1
      <3> QED
        BY <1>10, <2>2, <2>7, <2>8, <3>1, <3>2
    <2> QED
      BY <1>1, <2>4, <2>9, <2>10, <2>11
  <1>13. CASE PtimeTick /\ ~(half < 2 * DayMs - 1)
    <2>1. /\ half' = 0 /\ year' = NextDay(Today).year /\ month' = NextDay(Today).month
          /\ day' = NextDay(Today).day
      BY <1>13 DEF PtimeTick
    <2> DEFINE w == NextDay(Today)
    <2>2. /\ w.year \in Nat /\ w.month \in 1 .. 12 /\ w.day \in Nat \ {0} /\ w.ms = 0
          /\ w.day <= DaysIn(w.year, w.month)
          /\ w = [year |-> w.year, month |-> w.month, day |-> w.day, ms |-> w.ms]
      <3> HIDE DEF w
      <3>1. Valid(w) /\ w.ms = 0
        BY <1>7 DEF w
      <3> QED
        BY <3>1 DEF Valid, Time
    <2> HIDE DEF w
    <2>3. Now = w
      BY <1>1, <1>2, <1>8, <1>9, <1>13 DEF w
    <2>4. Today' = w
      BY <2>1, <2>2 DEF Today, w
    <2>5. (half' + 1) \div 2 = 0
      BY <2>1
    <2>6. Now' = [w EXCEPT !.ms = 0]
      BY <1>1, <2>4, <2>5 DEF Now
    <2>7. [w EXCEPT !.ms = 0] = w
      BY <2>2
    <2>8. DaysIn(w.year, w.month) \in Nat
      BY <2>2, DaysInIs
    <2>9. PtimeInv'
      BY <1>1, <2>1, <2>2, <2>8 DEF PtimeInv, w
    <2> QED
      BY <1>10, <2>3, <2>6, <2>7, <2>9
  <1> QED
    BY <1>11, <1>12, <1>13
LEMMA Times ==
    ASSUME NEW a \in Nat, NEW b \in Nat, NEW K \in Nat
    PROVE  a * K \in Nat /\ (a + 1) * K = a * K + K /\ (a <= b => a * K <= b * K)
  OBVIOUS

LEMMA DivIs ==
    ASSUME NEW K \in Nat \ {0}, NEW a \in Nat, NEW r \in 0 .. K - 1
    PROVE  (a * K + r) \div K = a /\ (a * K + r) % K = r
  <1> DEFINE e == a * K + r
             q == e \div K
             s == e % K
  <1>1. a * K \in Nat /\ e \in Nat /\ e = a * K + r /\ r \in Nat /\ r < K /\ K \in Nat /\ 0 < K
    BY Times
  <1> HIDE DEF e
  <1>2. q \in Nat /\ s \in Nat /\ s < K /\ e = q * K + s
    BY <1>1
  <1> HIDE DEF q, s
  <1>3. q * K \in Nat
    BY <1>1, <1>2, Times
  <1>4. ~(q < a)
    <2> SUFFICES ASSUME q < a PROVE FALSE
      OBVIOUS
    <2>1. q + 1 <= a /\ q + 1 \in Nat
      BY <1>2
    <2>2. (q + 1) * K <= a * K
      BY <1>1, <2>1, Times
    <2>3. (q + 1) * K = q * K + K
      BY <1>1, <1>2, Times
    <2> QED
      BY <1>1, <1>2, <1>3, <2>2, <2>3
  <1>5. ~(a < q)
    <2> SUFFICES ASSUME a < q PROVE FALSE
      OBVIOUS
    <2>1. a + 1 <= q /\ a + 1 \in Nat
      BY <1>2
    <2>2. (a + 1) * K <= q * K
      BY <1>1, <1>2, <2>1, Times
    <2>3. (a + 1) * K = a * K + K
      BY <1>1, Times
    <2> QED
      BY <1>1, <1>2, <1>3, <2>2, <2>3
  <1>6. q = a
    BY <1>2, <1>4, <1>5
  <1>7. s = r
    BY <1>1, <1>2, <1>3, <1>6
  <1> QED
    BY <1>6, <1>7 DEF e, q, s

\* The stamp before mktime takes the offset of local time from it.
LocalStamp(t) == MkTime(t.year, t.month, t.day) * DayMs + t.ms

\* The stamp of a time: its day, as mktime counts, and the time of the day.
LEMMA EpochIs ==
    ASSUME NEW t, Valid(t)
    PROVE  /\ MkTime(t.year, t.month, t.day) \in Nat
           /\ LocalStamp(t) = MkTime(t.year, t.month, t.day) * DayMs + t.ms
           /\ LocalStamp(t) \in Nat
  <1>1. /\ t.year \in Nat /\ t.month \in 1 .. 12 /\ t.day \in Nat \ {0} /\ t.ms \in Nat
        /\ DayMs \in Nat
    BY TimeIsAt, PtimeAssumption DEF Valid
  <1>2. PICK y \in Nat, m \in 1 .. 12, d \in Nat \ {0} :
          y = t.year /\ m = t.month /\ d = t.day
    BY <1>1
  <1>3. d \in Nat /\ d >= 1
    BY <1>2
  <1>4. MkTime(y, m, 1) \in Nat /\ MkTime(y, m, d) = MkTime(y, m, 1) + d - 1
    BY <1>3, MkTimeLinear
  <1>5. PICK a \in Nat : a = MkTime(y, m, d)
    BY <1>3, <1>4
  <1>6. a * DayMs \in Nat
    BY <1>1, Times
  <1>7. LocalStamp(t) = a * DayMs + t.ms
    BY <1>2, <1>5 DEF LocalStamp
  <1> QED
    BY <1>1, <1>2, <1>5, <1>6, <1>7

\* The fields of a stamp are the time, if mktime's month has the day.
LEMMA StampTakenBack ==
    ASSUME NEW t, Valid(t), t.month # 12, t.day <= DaysIn(1900 + t.year, t.month + 1)
    PROVE  FromEpoch(LocalStamp(t)) = t
  <1>1. /\ t.year \in Nat /\ t.month \in 1 .. 12 /\ t.day \in Nat \ {0} /\ t.ms \in Nat
        /\ t = At(t.year, t.month, t.day, t.ms) /\ t.ms < DayMs
        /\ DayMs \in Nat \ {0}
    BY TimeIsAt, PtimeAssumption DEF Valid
  <1>2. PICK y \in Nat, m \in 1 .. 12, d \in Nat \ {0}, s \in Nat :
          y = t.year /\ m = t.month /\ d = t.day /\ s = t.ms
    BY <1>1
  <1>3. PICK z \in Nat, k \in 1 .. 12 : z = 1900 + y /\ k = m + 1 /\ m < 12
    <2>1. m < 12 /\ 1900 + y \in Nat /\ m + 1 \in 1 .. 12
      BY <1>2
    <2> QED
      BY <2>1
  <1>4. d \in 1 .. DaysIn(z, k)
    <2>1. d <= DaysIn(z, k)
      BY <1>2, <1>3
    <2>2. DaysIn(z, k) \in Nat
      BY DaysInIs
    <2> QED
      BY <2>1, <2>2
  <1>5. MkTime(y, m, d) = DaysBefore(z, k) + d - 1
    <2>1. MonthTaken(y, m, z, k)
      BY <1>3 DEF MonthTaken
    <2>2. \A e \in Nat : MkTime(y, m, e) = DaysBefore(z, k) + e - 1
      BY <1>3, <2>1, MkTimeIs
    <2> QED
      BY <2>2
  <1>6. PICK a \in Nat : a = MkTime(y, m, d) /\ LocalStamp(t) = a * DayMs + s
    BY <1>2, EpochIs
  <1>7. s \in 0 .. DayMs - 1
    BY <1>1, <1>2
  <1>8. LocalStamp(t) \div DayMs = a /\ LocalStamp(t) % DayMs = s
    <2>1. DayMs \in Nat \ {0} /\ a \in Nat
      BY <1>1
    <2>2. (a * DayMs + s) \div DayMs = a /\ (a * DayMs + s) % DayMs = s
      BY <1>7, <2>1, DivIs
    <2> QED
      BY <1>6, <2>2
  <1>9. Civil(a) = [year |-> z, month |-> k, day |-> d]
    <2>1. Civil(DaysBefore(z, k) + d - 1) = [year |-> z, month |-> k, day |-> d]
      BY <1>4, CivilIs
    <2> QED
      BY <1>5, <1>6, <2>1
  <1>10. FromEpoch(LocalStamp(t)) = [year |-> z - 1900, month |-> k - 1, day |-> d, ms |-> s]
    BY <1>8, <1>9 DEF FromEpoch, Fields
  <1>11. z - 1900 = y /\ k - 1 = m
    BY <1>3
  <1>12. FromEpoch(LocalStamp(t)) = At(y, m, d, s)
    BY <1>10, <1>11 DEF At
  <1> QED
    BY <1>1, <1>2, <1>12

LEMMA NextMsIs ==
    ASSUME NEW t, Valid(t), NEW u, u = NextMs(t), Valid(u)
    PROVE  /\ u.year = t.year /\ u.month = t.month /\ u.day = t.day
           /\ LocalStamp(u) = LocalStamp(t) + 1
           /\ Less(t, u) /\ ~Less(u, t)
  <1>1. /\ t.year \in Nat /\ t.month \in 1 .. 12 /\ t.day \in Nat \ {0} /\ t.ms \in Nat
        /\ t = At(t.year, t.month, t.day, t.ms)
    BY TimeIsAt DEF Valid
  <1>2. /\ u.year = t.year /\ u.month = t.month /\ u.day = t.day /\ u.ms = t.ms + 1
    BY <1>1 DEF NextMs, At
  <1>3. PICK a \in Nat : /\ a = MkTime(t.year, t.month, t.day)
                         /\ LocalStamp(t) = a * DayMs + t.ms
    BY EpochIs
  <1>4. PICK b \in Nat : b = a * DayMs
    BY Times, PtimeAssumption
  <1>5. LocalStamp(u) = b + t.ms + 1 /\ LocalStamp(t) = b + t.ms
    <2>1. LocalStamp(u) = a * DayMs + u.ms
      BY <1>2, <1>3, EpochIs
    <2> QED
      BY <1>1, <1>2, <1>3, <1>4, <2>1
  <1> QED
    BY <1>1, <1>2, <1>5 DEF Less

\* At midnight the stamp goes on, unless a month has ended that is longer than
\* the one that begins.
LEMMA MidnightStamp ==
    ASSUME NEW t, Valid(t), t.ms + 1 = DayMs, NEW u, u = Midnight(t)
    PROVE  /\ u.month = t.month => /\ u.year = t.year
                                  /\ LocalStamp(u) = LocalStamp(t) + 1
                                  /\ Less(t, u) /\ ~Less(u, t)
           /\ LocalStamp(u) < LocalStamp(t) =>
                /\ u.day = 1
                /\ DaysIn(t.year, u.month) < DaysIn(t.year, t.month)
  <1>1. /\ t.year \in Nat /\ t.month \in 1 .. 12 /\ t.day \in Nat \ {0} /\ t.ms \in Nat
        /\ t.day <= DaysIn(t.year, t.month)
    BY TimeIsAt DEF Valid
  <1>2. PICK K \in Nat \ {0} : K = DayMs /\ t.ms = K - 1
    BY <1>1, PtimeAssumption
  <1>3. PICK y \in Nat, m \in 1 .. 12, d \in Nat \ {0} :
          y = t.year /\ m = t.month /\ d = t.day /\ d <= DaysIn(y, m)
    BY <1>1
  <1>4. DaysIn(y, m) \in Nat /\ d \in Nat /\ 1 <= d
    BY <1>3, DaysInIs
  <1>5. PICK b \in Nat : b = MkTime(y, m, 1)
    BY MkTimeLinear
  <1>6. PICK a \in Nat : a = MkTime(y, m, d) /\ a = b + d - 1
    <2>1. MkTime(y, m, d) = MkTime(y, m, 1) + d - 1
      BY <1>4, MkTimeLinear
    <2> QED
      BY <1>4, <1>5, <2>1
  <1>7. PICK e \in Nat : e = a * K
    BY Times
  <1>8. LocalStamp(t) = e + K - 1
    <2>1. LocalStamp(t) = a * K + t.ms
      BY <1>2, <1>3, <1>6, EpochIs
    <2> QED
      BY <1>2, <1>7, <2>1
  <1>9. (a + 1) * K = e + K
    BY <1>7, Times
  <1>10. \A c \in Nat : a + 1 <= c => c * K >= e + K /\ c * K \in Nat
    <2> SUFFICES ASSUME NEW c \in Nat, a + 1 <= c
                 PROVE  c * K >= e + K /\ c * K \in Nat
      OBVIOUS
    <2>1. PICK x \in Nat : x = a + 1 /\ x <= c
      OBVIOUS
    <2>2. x * K <= c * K /\ c * K \in Nat
      BY <2>1, Times
    <2> QED
      BY <1>9, <2>1, <2>2
  <1>11. /\ d < DaysIn(y, m) => u = At(y, m, d + 1, 0)
         /\ d = DaysIn(y, m) => u = IF m < 12 THEN At(y, m + 1, 1, 0)
                                   ELSE At(y + 1, 1, 1, 0)
    BY <1>3, MidnightIs
  <1>12. CASE d < DaysIn(y, m)
    <2>1. u.year = y /\ u.month = m /\ u.day = d + 1 /\ u.ms = 0
      BY <1>11, <1>12 DEF At
    <2>2. MkTime(y, m, d + 1) = a + 1
      <3>1. d + 1 \in Nat
        BY <1>4
      <3>2. MkTime(y, m, d + 1) = MkTime(y, m, 1) + (d + 1) - 1
        BY <3>1, MkTimeLinear
      <3> QED
        BY <1>4, <1>5, <1>6, <3>2
    <2>3. LocalStamp(u) = e + K
      BY <1>2, <1>9, <2>1, <2>2 DEF LocalStamp
    <2>4. Less(t, u) /\ ~Less(u, t)
      BY <1>3, <1>4, <2>1 DEF Less
    <2> QED
      BY <1>2, <1>3, <1>8, <2>1, <2>3, <2>4
  <1>13. CASE d = DaysIn(y, m) /\ m < 12
    <2>1. PICK k \in 1 .. 12 : k = m + 1
      BY <1>13
    <2>2. u.year = y /\ u.month = k /\ u.day = 1 /\ u.ms = 0 /\ k # m
      BY <1>11, <1>13, <2>1 DEF At
    <2>3. PICK z \in Nat : z = 1900 + y
      OBVIOUS
    <2>4. DaysIn(z, k) \in Nat
      BY DaysInIs
    <2>5. PICK c \in Nat : c = MkTime(y, k, 1) /\ c = b + DaysIn(z, k)
      <3>1. MkTime(y, m + 1, 1) = MkTime(y, m, 1) + DaysIn(1900 + y, m + 1)
        BY <1>13, MonthPasses
      <3>2. MkTime(y, k, 1) = b + DaysIn(z, k)
        BY <1>5, <2>1, <2>3, <3>1
      <3> QED
        BY <2>4, <3>2
    <2>6. LocalStamp(u) = c * K
      <3>1. LocalStamp(u) = c * K + 0
        BY <1>2, <2>2, <2>5 DEF LocalStamp
      <3> QED
        BY <3>1, Times
    <2>7. ASSUME LocalStamp(u) < LocalStamp(t) PROVE DaysIn(y, k) < DaysIn(y, m)
      <3>1. ~(a + 1 <= c)
        BY <1>8, <1>10, <2>6, <2>7
      <3>2. DaysIn(z, k) < DaysIn(y, m)
        BY <1>4, <1>6, <1>13, <2>4, <2>5, <3>1
      <3> QED
        BY <2>1, <3>2 DEF DaysIn
    <2> QED
      BY <1>3, <2>2, <2>7
  <1>14. CASE d = DaysIn(y, m) /\ ~(m < 12)
    <2>1. m = 12 /\ d = 31
      BY <1>14 DEF DaysIn
    <2>2. u.year = y + 1 /\ u.month = 1 /\ u.day = 1 /\ u.ms = 0
      BY <1>11, <1>14 DEF At
    <2>3. MkTime(y + 1, 1, 1) = a + 1
      <3>1. MkTime(y + 1, 1, 1) = MkTime(y, 12, 1) + 31
        BY <2>1, MonthPasses
      <3> QED
        BY <1>5, <1>6, <2>1, <3>1
    <2>4. LocalStamp(u) = e + K
      BY <1>2, <1>9, <2>2, <2>3 DEF LocalStamp
    <2> QED
      BY <1>2, <1>3, <1>8, <2>1, <2>2, <2>4
  <1> QED
    BY <1>3, <1>4, <1>12, <1>13, <1>14

\* The offset makes no difference between two stamps.
LEMMA ZoneCancels ==
    ASSUME NEW t, Valid(t), NEW u, Valid(u)
    PROVE  /\ ToEpoch(t) \in Int /\ ToEpoch(t) + Zone = LocalStamp(t)
           /\ LocalStamp(u) = LocalStamp(t) + 1 => ToEpoch(u) = ToEpoch(t) + 1
           /\ ToEpoch(u) < ToEpoch(t) => LocalStamp(u) < LocalStamp(t)
  <1>1. PICK x \in Nat, y \in Nat, z \in Int :
          x = LocalStamp(t) /\ y = LocalStamp(u) /\ z = Zone
    BY EpochIs, PtimeAssumption
  <1>2. ToEpoch(t) = LocalStamp(t) - Zone /\ ToEpoch(u) = LocalStamp(u) - Zone
    BY Zenon DEF ToEpoch, LocalStamp
  <1>3. ToEpoch(t) = x - z /\ ToEpoch(u) = y - z
    BY <1>1, <1>2
  <1> QED
    BY <1>1, <1>3

LEMMA PtimeInvariant == PtimeSpec => []PtimeInv
  <1>1. PtimeInit => PtimeInv
    BY PtimeAssumption DEF PtimeInit, PtimeInv, DaysIn
  <1>2. PtimeInv /\ [PtimeTick]_pvars => PtimeInv'
    BY NowTicks
  <1> QED
    BY <1>1, <1>2, PTL DEF PtimeSpec

\* Whatever the year is, and however far local time is from UTC: within a month
\* the difference of two stamps is the time between them, and ptime_add gives
\* the later time if that and the offset are added to the earlier one and mktime
\* does not take the day for another (ptime_sub, ptime_add).
THEOREM ExactWithinMonthHolds == PtimeSpec => ExactWithinMonth
  <1> DEFINE d == PtimeSub(Now', Now)
             Exact == Now'.month = Now.month =>
                        /\ d = IF Less(Now, Now') THEN 1 ELSE 0
                        /\ TakenForDay(Now') => PtimeAdd(Now, d + Zone) = Now'
  <1>1. PtimeInv /\ [PtimeTick]_pvars => Exact
    <2> SUFFICES ASSUME PtimeInv, [PtimeTick]_pvars, Now'.month = Now.month
                 PROVE  /\ d = IF Less(Now, Now') THEN 1 ELSE 0
                        /\ TakenForDay(Now') => PtimeAdd(Now, d + Zone) = Now'
      OBVIOUS
    <2>1. /\ Valid(Now) /\ Valid(Now')
          /\ \/ Now' = Now
             \/ Now' = NextMs(Now) /\ Now.ms + 1 < DayMs
             \/ Now' = Midnight(Now) /\ Now.ms + 1 = DayMs /\ Now.year = year
      BY NowTicks
    <2>2. PICK t, u : t = Now /\ u = Now' /\ u.month = t.month
      OBVIOUS
    <2>3. PICK e \in Int : e = ToEpoch(t)
      BY <2>1, <2>2, ZoneCancels
    <2>4. /\ u.year = t.year
          /\ \/ u = t
             \/ ToEpoch(u) = e + 1 /\ Less(t, u) /\ ~Less(u, t)
      BY <2>1, <2>2, <2>3, NextMsIs, MidnightStamp, ZoneCancels
    <2>5. ~Less(t, t)
      <3>1. t.year \in Nat /\ t.month \in 1 .. 12 /\ t.day \in Nat \ {0} /\ t.ms \in Nat
        BY <2>1, <2>2, TimeIsAt DEF Valid
      <3> QED
        BY <3>1 DEF Less
    <2>6. PICK w \in Nat \ {0, 1} : w = Word
      BY PtimeAssumption
    <2>7. Minus(e, e) = 0 /\ Minus(e + 1, e) = 1
      <3>1. (e - e + w) % w = 0 /\ (e + 1 - e + w) % w = 1
        <4>1. e - e + w = w /\ e + 1 - e + w = w + 1
          OBVIOUS
        <4>2. w % w = 0 /\ (w + 1) % w = 1
          OBVIOUS
        <4> QED
          BY <4>1, <4>2
      <3> QED
        BY <2>6, <3>1 DEF Minus
    <2>8. TakenForDay(u) => FromEpoch(ToEpoch(u) + Zone) = u
      BY <2>1, <2>2, StampTakenBack, ZoneCancels DEF TakenForDay
    <2>9. PtimeSub(u, t) = IF Less(t, u) THEN 1 ELSE 0
      BY <2>3, <2>4, <2>5, <2>7 DEF PtimeSub
    <2>10. ToEpoch(t) + (PtimeSub(u, t) + Zone) = ToEpoch(u) + Zone
      BY <2>3, <2>4, <2>5, <2>9, PtimeAssumption
    <2> QED
      BY <2>2, <2>8, <2>9, <2>10 DEF PtimeAdd
  <1> QED
    BY <1>1, PtimeInvariant, PTL DEF PtimeSpec, ExactWithinMonth

\* Whatever the year is, the stamp of the clock goes back only where a month
\* has ended that is longer than the one that begins (ptime_epoch).
THEOREM BackAfterLongMonthHolds == PtimeSpec => BackAfterLongMonth
  <1>1. PtimeInv /\ [PtimeTick]_pvars =>
          (ToEpoch(Now') < ToEpoch(Now) =>
             Now'.day = 1 /\ DaysIn(year, Now'.month) < DaysIn(year, Now.month))
    <2> SUFFICES ASSUME PtimeInv, [PtimeTick]_pvars, ToEpoch(Now') < ToEpoch(Now)
                 PROVE  Now'.day = 1 /\ DaysIn(year, Now'.month) < DaysIn(year, Now.month)
      OBVIOUS
    <2>1. /\ Valid(Now) /\ Valid(Now')
          /\ \/ Now' = Now
             \/ Now' = NextMs(Now) /\ Now.ms + 1 < DayMs
             \/ Now' = Midnight(Now) /\ Now.ms + 1 = DayMs /\ Now.year = year
      BY NowTicks
    <2>2. PICK t, u : t = Now /\ u = Now'
      OBVIOUS
    <2>3. PICK e \in Nat : e = LocalStamp(t) /\ LocalStamp(u) < e
      BY <2>1, <2>2, EpochIs, ZoneCancels
    <2>4. u # t /\ u # NextMs(t)
      <3>1. u # t
        BY <2>3
      <3>2. u = NextMs(t) => LocalStamp(u) = e + 1
        BY <2>1, <2>2, <2>3, NextMsIs
      <3> QED
        BY <2>3, <3>1, <3>2
    <2>5. u = Midnight(t) /\ t.ms + 1 = DayMs /\ t.year = year
      BY <2>1, <2>2, <2>4
    <2> QED
      BY <2>1, <2>2, <2>3, <2>5, MidnightStamp
  <1> QED
    BY <1>1, PtimeInvariant, PTL DEF PtimeSpec, BackAfterLongMonth

----------------------------------------------------------------------------
(* The texts: of any characters and any length.                            *)

\* The least element of a set of numbers is the one that Min takes.
LEMMA MinIs ==
    ASSUME NEW S \in SUBSET Nat, S # {}
    PROVE  Min(S) \in S /\ \A y \in S : Min(S) <= y
  <1> DEFINE R == {p \in Nat \X Nat : p[1] < p[2]}
  <1>1. IsWellFoundedOn(R, Nat)
    BY NatLessThanWellFounded DEF OpToRel
  <1> HIDE DEF R
  <1>2. PICK x \in S : \A y \in S : ~(<<y, x>> \in R)
    BY <1>1, WFMin
  <1>3. \A y \in S : x <= y
    <2>1. ASSUME NEW y \in S, y < x PROVE <<y, x>> \in R
      BY <2>1 DEF R
    <2>2. \A y \in S : ~(y < x)
      BY <1>2, <2>1
    <2> QED
      BY <2>2
  <1> QED
    BY <1>3 DEF Min

\* A bounded set of numbers has a greatest one, which Max takes.
LEMMA MaxIs ==
    ASSUME NEW n \in Nat, NEW S \in SUBSET (0 .. n), S # {}
    PROVE  Max(S) \in S /\ \A y \in S : y <= Max(S)
  <1> DEFINE T == {x \in Nat : n - x \in S}
  <1>1. T # {}
    <2>1. PICK x \in S : TRUE
      OBVIOUS
    <2>2. n - x \in T
      BY <2>1
    <2> QED
      BY <2>2
  <1>2. Min(T) \in T /\ \A y \in T : Min(T) <= y
    BY <1>1, MinIs
  <1>3. ASSUME NEW y \in S PROVE y <= n - Min(T)
    <2>1. n - y \in T
      OBVIOUS
    <2> HIDE DEF T
    <2> QED
      BY <1>2, <2>1 DEF T
  <1>4. n - Min(T) \in S
    BY <1>2
  <1> QED
    BY <1>3, <1>4 DEF Max

LEMMA MinOfTwo ==
    ASSUME NEW a \in Nat, NEW b \in Nat
    PROVE  Min({a, b}) = IF a <= b THEN a ELSE b
  <1>1. {a, b} \in SUBSET Nat /\ {a, b} # {}
    OBVIOUS
  <1>2. Min({a, b}) \in {a, b} /\ \A y \in {a, b} : Min({a, b}) <= y
    BY <1>1, MinIs
  <1>3. PICK m \in {a, b} : m = Min({a, b}) /\ m <= a /\ m <= b
    BY <1>2
  <1> QED
    BY <1>3

\* n characters from position i on reach to position k.
Reaches(s, i, n, k) == k = IF i + n <= Len(s) THEN i + n ELSE Len(s)

\* CORD_substr: n characters, as far as there are.
LEMMA SubIs ==
    ASSUME NEW Char, NEW s \in Seq(Char), NEW i \in 0 .. Len(s) - 1, NEW n \in Nat,
           NEW k \in Nat, Reaches(s, i, n, k)
    PROVE  Sub(s, i, n) = SubSeq(s, i + 1, k)
  <1>1. i + n \in Nat /\ Len(s) \in Nat
    OBVIOUS
  <1>2. Min({i + n, Len(s)}) = k
    BY <1>1, MinOfTwo DEF Reaches
  <1> QED
    BY <1>2 DEF Sub

\* A part of a text is a text, and its characters are those of the text.
LEMMA PartIs ==
    ASSUME NEW Char, NEW s \in Seq(Char), NEW i \in Nat, NEW k \in Nat,
           i <= k, k <= Len(s)
    PROVE  /\ SubSeq(s, i + 1, k) \in Seq(Char)
           /\ Len(SubSeq(s, i + 1, k)) = k - i
           /\ \A j \in 1 .. k - i : SubSeq(s, i + 1, k)[j] = s[i + j]
  <1>1. \A j \in i + 1 .. k : s[j] \in Char
    OBVIOUS
  <1>2. /\ SubSeq(s, i + 1, k) \in Seq(Char)
        /\ Len(SubSeq(s, i + 1, k)) = IF i + 1 <= k THEN k - (i + 1) + 1 ELSE 0
        /\ \A j \in 1 .. k - (i + 1) + 1 : SubSeq(s, i + 1, k)[j] = s[i + 1 + j - 1]
    BY <1>1, SubSeqProperties
  <1>3. k - (i + 1) + 1 = k - i /\ \A j \in 1 .. k - i : i + 1 + j - 1 = i + j
    OBVIOUS
  <1> QED
    BY <1>2, <1>3

\* Find stops at the first of the characters.
LEMMA FindIs ==
    ASSUME NEW Char, NEW s \in Seq(Char), NEW i \in 0 .. Len(s), NEW chars
    PROVE  /\ Find(s, i, chars) \in i .. Len(s)
           /\ Find(s, i, chars) < Len(s) => s[Find(s, i, chars) + 1] \in chars
           /\ \A j \in i .. Find(s, i, chars) - 1 : s[j + 1] \notin chars
  <1> DEFINE S == {j \in i .. Len(s) - 1 : s[j + 1] \in chars} \cup {Len(s)}
  <1>1. S \in SUBSET Nat /\ S # {} /\ Len(s) \in Nat /\ i \in Nat
    OBVIOUS
  <1>2. \A j : j \in S <=> j = Len(s) \/ (j \in i .. Len(s) - 1 /\ s[j + 1] \in chars)
    OBVIOUS
  <1>3. Find(s, i, chars) = Min(S)
    BY DEF Find
  <1> HIDE DEF S
  <1>4. Min(S) \in S /\ \A y \in S : Min(S) <= y
    BY <1>1, MinIs
  <1>5. PICK p \in Nat : p = Min(S)
    BY <1>1, <1>4
  <1>6. p \in i .. Len(s) /\ (p < Len(s) => s[p + 1] \in chars)
    BY <1>1, <1>2, <1>4, <1>5
  <1>7. ASSUME NEW j \in i .. p - 1 PROVE s[j + 1] \notin chars
    <2>1. j < p /\ j \in i .. Len(s) - 1
      BY <1>1, <1>6
    <2>2. j \notin S
      BY <1>4, <1>5, <2>1
    <2> QED
      BY <1>2, <2>1, <2>2
  <1> QED
    BY <1>3, <1>5, <1>6, <1>7

\* Where the path ends and where the fragment begins.
LEMMA TargetIs ==
    ASSUME NEW Char, NEW s \in Seq(Char), s # <<>>
    PROVE  \E p, q \in 0 .. Len(s) :
             /\ p <= q
             /\ p < Len(s) => s[p + 1] \in {"?", "#"}
             /\ \A j \in 1 .. p : s[j] \notin {"?", "#"}
             /\ q < Len(s) => s[q + 1] = "#"
             /\ \A j \in p + 1 .. q : s[j] # "#"
             /\ UrlPath(s) = SubSeq(s, 1, IF p < Len(s) THEN p + 1 ELSE Len(s))
             /\ Fragment(s) = IF p = q THEN NULL
                              ELSE IF q = Len(s) THEN SubSeq(s, p + 1, Len(s))
                              ELSE SubSeq(s, q + 1, Len(s))
  <1> DEFINE p == Find(s, 0, {"?", "#"})
             q == Find(s, p, {"#"})
  <1>1. 0 \in 0 .. Len(s) /\ Len(s) \in Nat /\ 0 < Len(s)
    BY EmptySeq
  <1>2. /\ p \in 0 .. Len(s) /\ (p < Len(s) => s[p + 1] \in {"?", "#"})
        /\ \A j \in 0 .. p - 1 : s[j + 1] \notin {"?", "#"}
    BY <1>1, FindIs
  <1> HIDE DEF p
  <1>3. /\ q \in p .. Len(s) /\ (q < Len(s) => s[q + 1] \in {"#"})
        /\ \A j \in p .. q - 1 : s[j + 1] \notin {"#"}
    BY <1>2, FindIs
  <1>4. Parts(s) = << <<0, p>>, IF p = q THEN <<-1, -1>> ELSE <<p, q>>,
                      IF q = Len(s) THEN <<-1, -1>> ELSE <<q, Len(s)>> >>
    BY DEF Parts, p
  <1> HIDE DEF q
  <1>5. /\ Parts(s)[1] = <<0, p>>
        /\ Parts(s)[2] = IF p = q THEN <<-1, -1>> ELSE <<p, q>>
        /\ Parts(s)[3] = IF q = Len(s) THEN <<-1, -1>> ELSE <<q, Len(s)>>
    BY <1>4
  <1>6. p \in Nat /\ q \in Nat /\ p <= q /\ q <= Len(s) /\ q \in 0 .. Len(s)
    BY <1>1, <1>2, <1>3
  <1>7. \A j \in 1 .. p : s[j] \notin {"?", "#"}
    <2> SUFFICES ASSUME NEW j \in 1 .. p PROVE s[j] \notin {"?", "#"}
      OBVIOUS
    <2>1. j - 1 \in 0 .. p - 1 /\ (j - 1) + 1 = j
      BY <1>6
    <2> QED
      BY <1>2, <2>1
  <1>8. \A j \in p + 1 .. q : s[j] # "#"
    <2> SUFFICES ASSUME NEW j \in p + 1 .. q PROVE s[j] # "#"
      OBVIOUS
    <2>1. j - 1 \in p .. q - 1 /\ (j - 1) + 1 = j
      BY <1>6
    <2> QED
      BY <1>3, <2>1
  <1>9. UrlPath(s) = SubSeq(s, 1, IF p < Len(s) THEN p + 1 ELSE Len(s))
    <2>1. UrlPath(s) = Sub(s, 0, p - 0 + 1)
      BY <1>5 DEF UrlPath, Part
    <2> DEFINE k == IF p < Len(s) THEN p + 1 ELSE Len(s)
    <2>2. /\ k \in Nat /\ p - 0 + 1 \in Nat /\ 0 \in 0 .. Len(s) - 1
          /\ Reaches(s, 0, p - 0 + 1, k)
      BY <1>1, <1>6 DEF Reaches
    <2> HIDE DEF k
    <2>3. Sub(s, 0, p - 0 + 1) = SubSeq(s, 0 + 1, k)
      BY <2>2, SubIs
    <2> QED
      BY <2>1, <2>3 DEF k
  <1>10. Fragment(s) = IF p = q THEN NULL
                       ELSE IF q = Len(s) THEN SubSeq(s, p + 1, Len(s))
                       ELSE SubSeq(s, q + 1, Len(s))
    <2>1. CASE p = q
      <3>1. Parts(s)[2][1] = -1
        BY <1>5, <2>1
      <3> QED
        BY <2>1, <3>1 DEF Fragment
    <2>2. CASE p # q /\ q = Len(s)
      <3>1. Parts(s)[2] = <<p, q>> /\ Parts(s)[3] = <<-1, -1>> /\ p # -1
        BY <1>5, <1>6, <2>2
      <3>2. Fragment(s) = Sub(s, p, q - p + 1)
        BY <3>1 DEF Fragment, Part
      <3>3. /\ p \in 0 .. Len(s) - 1 /\ q - p + 1 \in Nat
            /\ Reaches(s, p, q - p + 1, Len(s))
        BY <1>6, <2>2 DEF Reaches
      <3>4. Sub(s, p, q - p + 1) = SubSeq(s, p + 1, Len(s))
        BY <1>1, <3>3, SubIs
      <3> QED
        BY <2>2, <3>2, <3>4
    <2>3. CASE p # q /\ q # Len(s)
      <3>1. Parts(s)[2] = <<p, q>> /\ Parts(s)[3] = <<q, Len(s)>> /\ p # -1 /\ q # -1
        BY <1>5, <1>6, <2>3
      <3>2. Fragment(s) = Sub(s, q, Len(s) - q + 1)
        BY <3>1 DEF Fragment, Part
      <3>3. /\ q \in 0 .. Len(s) - 1 /\ Len(s) - q + 1 \in Nat
            /\ Reaches(s, q, Len(s) - q + 1, Len(s))
        BY <1>6, <2>3 DEF Reaches
      <3>4. Sub(s, q, Len(s) - q + 1) = SubSeq(s, q + 1, Len(s))
        BY <1>1, <3>3, SubIs
      <3> QED
        BY <2>3, <3>2, <3>4
    <2> QED
      BY <2>1, <2>2, <2>3
  <1>11. q < Len(s) => s[q + 1] = "#"
    BY <1>3
  <1> QED
    BY <1>2, <1>6, <1>7, <1>8, <1>9, <1>10, <1>11

\* A target without query and fragment is its path, and has no fragment,
\* whatever the target is (url_parse).
THEOREM PathHolds ==
    ASSUME NEW Char, NEW s \in Seq(Char)
    PROVE  PathAsWritten(s)
  <1> SUFFICES ASSUME UrlParse(s) # NULL, \A i \in DOMAIN s : s[i] \notin {"?", "#"}
               PROVE  UrlParse(s) = [path |-> s, fragment |-> NULL]
    BY DEF PathAsWritten
  <1>1. /\ s # <<>> /\ UrlParse(s) = [path |-> UrlPath(s), fragment |-> Fragment(s)]
        /\ Len(s) \in Nat /\ DOMAIN s = 1 .. Len(s)
    BY DEF UrlParse
  <1>2. PICK p \in 0 .. Len(s), q \in 0 .. Len(s) :
          /\ p <= q
          /\ p < Len(s) => s[p + 1] \in {"?", "#"}
          /\ UrlPath(s) = SubSeq(s, 1, IF p < Len(s) THEN p + 1 ELSE Len(s))
          /\ Fragment(s) = IF p = q THEN NULL
                           ELSE IF q = Len(s) THEN SubSeq(s, p + 1, Len(s))
                           ELSE SubSeq(s, q + 1, Len(s))
    BY <1>1, TargetIs
  <1>3. ~(p < Len(s))
    <2>1. p < Len(s) => p + 1 \in DOMAIN s
      BY <1>1
    <2> QED
      BY <1>2, <2>1
  <1>4. p = Len(s) /\ q = Len(s)
    BY <1>1, <1>2, <1>3
  <1>5. SubSeq(s, 1, Len(s)) = s
    BY SubSeqFull
  <1>6. UrlPath(s) = s /\ Fragment(s) = NULL
    BY <1>2, <1>3, <1>4, <1>5
  <1> QED
    BY <1>1, <1>6

\* The first and the last character that is no space.
LEMMA NonSpacesAre ==
    ASSUME NEW Char, NEW s \in Seq(Char), NonSpaces(s) # {}
    PROVE  /\ FirstNonSpace(s) \in 0 .. Len(s) - 1 /\ LastNonSpace(s) \in 0 .. Len(s) - 1
           /\ FirstNonSpace(s) <= LastNonSpace(s)
           /\ s[FirstNonSpace(s) + 1] \notin Spaces /\ s[LastNonSpace(s) + 1] \notin Spaces
           /\ \A i \in 1 .. Len(s) :
                i <= FirstNonSpace(s) \/ i > LastNonSpace(s) + 1 => s[i] \in Spaces
  <1> DEFINE S == NonSpaces(s)
  <1>1. Len(s) \in Nat /\ \A i : i \in S <=> i \in 0 .. Len(s) - 1 /\ s[i + 1] \notin Spaces
    BY DEF NonSpaces
  <1>2. FirstNonSpace(s) = Min(S) /\ LastNonSpace(s) = Max(S)
    BY DEF FirstNonSpace, LastNonSpace
  <1>3. S # {}
    OBVIOUS
  <1> HIDE DEF S
  <1>4. S \in SUBSET Nat /\ S \in SUBSET (0 .. Len(s))
    BY <1>1
  <1>5. Min(S) \in S /\ \A y \in S : Min(S) <= y
    BY <1>3, <1>4, MinIs
  <1>6. Max(S) \in S /\ \A y \in S : y <= Max(S)
    BY <1>1, <1>3, <1>4, MaxIs
  <1>7. PICK f \in S, l \in S : f = Min(S) /\ l = Max(S)
    BY <1>5, <1>6
  <1>8. /\ f \in 0 .. Len(s) - 1 /\ l \in 0 .. Len(s) - 1 /\ f <= l
        /\ s[f + 1] \notin Spaces /\ s[l + 1] \notin Spaces
    BY <1>1, <1>6, <1>7
  <1>9. ASSUME NEW i \in 1 .. Len(s), i <= f \/ i > l + 1 PROVE s[i] \in Spaces
    <2>1. PICK j \in 0 .. Len(s) - 1 : j = i - 1 /\ j + 1 = i
      BY <1>1
    <2>2. j \notin S
      <3>1. j < f \/ j > l
        BY <1>8, <1>9, <2>1
      <3>2. j \in S => f <= j /\ j <= l
        BY <1>5, <1>6, <1>7
      <3> QED
        BY <1>8, <2>1, <3>1, <3>2
    <2> QED
      BY <1>1, <2>1, <2>2
  <1> QED
    BY <1>2, <1>7, <1>8, <1>9

\* What is cut off before the first or after the last character that is no
\* space leaves them where they are.
LEMMA NonSpacesOfPart ==
    ASSUME NEW Char, NEW s \in Seq(Char), NonSpaces(s) # {},
           NEW i \in Nat, NEW k \in Nat, i <= FirstNonSpace(s), LastNonSpace(s) < k,
           k <= Len(s)
    PROVE  LET t == SubSeq(s, i + 1, k) IN
           /\ NonSpaces(t) # {}
           /\ FirstNonSpace(t) = FirstNonSpace(s) - i
           /\ LastNonSpace(t) = LastNonSpace(s) - i
  <1> DEFINE t == SubSeq(s, i + 1, k)
  <1>1. PICK f \in Nat, l \in Nat :
          /\ f = FirstNonSpace(s) /\ l = LastNonSpace(s)
          /\ f <= l /\ l <= Len(s) - 1 /\ i <= f /\ l < k
          /\ s[f + 1] \notin Spaces /\ s[l + 1] \notin Spaces
          /\ \A j \in 1 .. Len(s) : j <= f \/ j > l + 1 => s[j] \in Spaces
    BY NonSpacesAre
  <1>2. i <= k /\ Len(s) \in Nat
    BY <1>1
  <1>3. t \in Seq(Char) /\ Len(t) = k - i /\ \A j \in 1 .. k - i : t[j] = s[i + j]
    BY <1>2, PartIs
  <1> HIDE DEF t
  <1>4. \A j : j \in NonSpaces(t) <=> j \in 0 .. Len(t) - 1 /\ t[j + 1] \notin Spaces
    BY DEF NonSpaces
  <1>5. f - i \in NonSpaces(t) /\ l - i \in NonSpaces(t)
    <2>1. PICK a \in 1 .. k - i, b \in 1 .. k - i : i + a = f + 1 /\ i + b = l + 1
      <3>1. (f - i) + 1 \in 1 .. k - i /\ (l - i) + 1 \in 1 .. k - i
        BY SMTT(30), <1>1
      <3>2. i + ((f - i) + 1) = f + 1 /\ i + ((l - i) + 1) = l + 1
        BY <1>1
      <3> QED
        BY <3>1, <3>2
    <2>2. t[a] = s[f + 1] /\ t[b] = s[l + 1]
      BY <1>3, <2>1
    <2>3. PICK x \in 0 .. Len(t) - 1, y \in 0 .. Len(t) - 1 :
            x = f - i /\ y = l - i /\ x + 1 = a /\ y + 1 = b
      <3>1. f - i \in 0 .. (k - i) - 1 /\ l - i \in 0 .. (k - i) - 1
        BY <1>1
      <3>2. (f - i) + 1 = a /\ (l - i) + 1 = b
        BY SMTT(30), <1>1, <2>1
      <3> QED
        BY <1>3, <3>1, <3>2
    <2> QED
      BY <1>1, <1>4, <2>2, <2>3
  <1>6. ASSUME NEW j \in NonSpaces(t) PROVE j \in Nat /\ f - i <= j /\ j <= l - i
    <2>1. j \in 0 .. Len(t) - 1 /\ t[j + 1] \notin Spaces
      BY <1>4
    <2>2. j \in Nat /\ j + 1 \in 1 .. k - i
      BY <1>2, <1>3, <2>1
    <2>3. PICK n \in 1 .. Len(s) : n = i + (j + 1)
      BY <1>2, <2>2
    <2>4. s[n] \notin Spaces
      BY <1>3, <2>1, <2>2, <2>3
    <2>5. ~(n <= f) /\ ~(n > l + 1)
      BY <1>1, <2>4
    <2> QED
      BY <1>1, <2>2, <2>3, <2>5
  <1>7. NonSpaces(t) \in SUBSET Nat /\ NonSpaces(t) # {}
    BY <1>5, <1>6
  <1>8. NonSpaces(t) \in SUBSET (0 .. Len(t))
    <2>1. Len(t) \in Nat
      BY <1>3
    <2> QED
      BY <1>4, <2>1
  <1>9. Min(NonSpaces(t)) = f - i
    <2>1. /\ Min(NonSpaces(t)) \in NonSpaces(t)
          /\ \A y \in NonSpaces(t) : Min(NonSpaces(t)) <= y
      BY <1>7, MinIs
    <2>2. PICK m \in Nat : m = Min(NonSpaces(t)) /\ f - i <= m /\ m <= f - i
      BY <1>5, <1>6, <2>1
    <2> QED
      BY <1>1, <2>2
  <1>10. Max(NonSpaces(t)) = l - i
    <2>1. Len(t) \in Nat
      BY <1>3
    <2>2. /\ Max(NonSpaces(t)) \in NonSpaces(t)
          /\ \A y \in NonSpaces(t) : y <= Max(NonSpaces(t))
      BY <1>7, <1>8, <2>1, MaxIs
    <2>3. PICK m \in Nat : m = Max(NonSpaces(t)) /\ l - i <= m /\ m <= l - i
      BY <1>5, <1>6, <2>2
    <2> QED
      BY <1>1, <2>3
  <1>11. FirstNonSpace(t) = f - i /\ LastNonSpace(t) = l - i
    BY <1>7, <1>9, <1>10 DEF FirstNonSpace, LastNonSpace
  <1> QED
    BY <1>1, <1>7, <1>11 DEF t

\* What the functions leave of a text with a character that is no space.
LEMMA TrimsAre ==
    ASSUME NEW Char, NEW s \in Seq(Char), NonSpaces(s) # {},
           NEW f \in Nat, NEW l \in Nat, f = FirstNonSpace(s), l = LastNonSpace(s)
    PROVE  /\ Trim(s) = SubSeq(s, f + 1, l + 1)
           /\ LTrim(s) = SubSeq(s, f + 1, Len(s))
           /\ RTrim(s) = SubSeq(s, 1, l + 1)
  <1>1. /\ f <= l /\ l <= Len(s) - 1 /\ Len(s) \in Nat
        /\ f \in 0 .. Len(s) - 1 /\ 0 \in 0 .. Len(s) - 1
    BY NonSpacesAre
  <1>2. PICK m \in Nat, n \in Nat, x \in Nat : m = l + 1 /\ n = l - f + 1 /\ x = Len(s)
    <2>1. l + 1 \in Nat /\ l - f + 1 \in Nat /\ Len(s) \in Nat
      BY <1>1
    <2> QED
      BY <2>1
  <1>3. Reaches(s, f, n, m) /\ Reaches(s, 0, m, m) /\ Reaches(s, f, x, Len(s))
    <2>1. f + n = m /\ m <= Len(s) /\ 0 + m = m
      BY SMTT(30), <1>1, <1>2
    <2>2. f + x <= Len(s) => f + x = Len(s)
      <3>1. f + x <= x => f + x = x
        OBVIOUS
      <3> QED
        BY <1>2, <3>1
    <2>3. Reaches(s, f, n, m) /\ Reaches(s, 0, m, m)
      BY <2>1 DEF Reaches
    <2>4. Reaches(s, f, x, Len(s))
      BY <2>2 DEF Reaches
    <2> QED
      BY <2>3, <2>4
  <1>4. f \in 0 .. Len(s) - 1 /\ 0 \in 0 .. Len(s) - 1
    BY <1>1
  <1>5. Sub(s, f, n) = SubSeq(s, f + 1, m)
    <2>1. Reaches(s, f, n, m)
      BY <1>3
    <2> QED
      BY SMTT(30), <1>4, <2>1, SubIs
  <1>6. Sub(s, f, x) = SubSeq(s, f + 1, Len(s))
    <2>1. PICK e \in Nat : e = Len(s) /\ Reaches(s, f, x, e)
      BY <1>1, <1>3
    <2>2. Sub(s, f, x) = SubSeq(s, f + 1, e)
      <3>1. f \in 0 .. Len(s) - 1
        BY <1>4
      <3>2. Reaches(s, f, x, e)
        BY <2>1
      <3> QED
        BY SMTT(30), <3>1, <3>2, SubIs
    <2> QED
      BY <2>1, <2>2
  <1>7. Sub(s, 0, m) = SubSeq(s, 0 + 1, m)
    <2>1. Reaches(s, 0, m, m)
      BY <1>3
    <2> QED
      BY SMTT(30), <1>4, <2>1, SubIs
  <1>8. Trim(s) = Sub(s, f, n) /\ LTrim(s) = Sub(s, f, x) /\ RTrim(s) = Sub(s, 0, m)
    BY <1>2 DEF Trim, LTrim, RTrim
  <1>9. Trim(s) = SubSeq(s, f + 1, m) /\ LTrim(s) = SubSeq(s, f + 1, Len(s))
        /\ RTrim(s) = SubSeq(s, 1, m)
    BY SMTT(30), <1>5, <1>6, <1>7, <1>8
  <1> QED
    BY <1>2, <1>9

\* Both sides are trimmed as by trimming one after the other, in any order, and
\* only spaces go, whatever the text is (str_trim, str_ltrim, str_rtrim).
THEOREM TrimsBothHolds ==
    ASSUME NEW Char, NEW s \in Seq(Char)
    PROVE  TrimsBoth(s)
  <1> DEFINE Cut == \E l, r \in 0 .. Len(s) :
                      /\ l + Len(Trim(s)) + r = Len(s)
                      /\ Trim(s) = SubSeq(s, l + 1, Len(s) - r)
                      /\ \A i \in 1 .. Len(s) :
                            i <= l \/ i > Len(s) - r => s[i] \in Spaces
  <1>1. Len(s) \in Nat
    OBVIOUS
  <1>2. CASE NonSpaces(s) = {}
    <2>1. \A t, n : Sub(t, -1, n) = <<>>
      BY DEF Sub
    <2>2. FirstNonSpace(s) = -1 /\ LastNonSpace(s) = -1
      BY <1>2 DEF FirstNonSpace, LastNonSpace
    <2>3. Trim(s) = <<>> /\ LTrim(s) = <<>>
      BY <2>1, <2>2 DEF Trim, LTrim
    <2>4. RTrim(s) = <<>>
      <3>1. RTrim(s) = Sub(s, 0, 0)
        BY <2>2 DEF RTrim
      <3>2. CASE Len(s) = 0
        <4>1. 0 \notin 0 .. Len(s) - 1
          BY <3>2
        <4> QED
          BY <3>1, <4>1 DEF Sub
      <3>3. CASE Len(s) # 0
        <4>1. 0 \in 0 .. Len(s) - 1 /\ 0 \in Nat
              /\ Reaches(s, 0, 0, 0)
          BY <1>1, <3>3 DEF Reaches
        <4>2. Sub(s, 0, 0) = SubSeq(s, 0 + 1, 0)
          BY <4>1, SubIs
        <4>3. SubSeq(s, 0 + 1, 0) = <<>>
          BY SubSeqEmpty
        <4> QED
          BY <3>1, <4>2, <4>3
      <3> QED
        BY <3>2, <3>3
    <2>5. LTrim(<<>>) = <<>> /\ RTrim(<<>>) = <<>>
      <3>1. NonSpaces(<<>>) = {}
        BY DEF NonSpaces
      <3>2. FirstNonSpace(<<>>) = -1 /\ LastNonSpace(<<>>) = -1
        BY <3>1 DEF FirstNonSpace, LastNonSpace
      <3>3. LTrim(<<>>) = <<>>
        BY <2>1, <3>2 DEF LTrim
      <3>4. RTrim(<<>>) = Sub(<<>>, 0, 0)
        BY <3>2 DEF RTrim
      <3>5. 0 \notin 0 .. Len(<<>>) - 1
        OBVIOUS
      <3> QED
        BY <3>3, <3>4, <3>5 DEF Sub
    <2>6. Cut
      <3>1. \A i \in 1 .. Len(s) : s[i] \in Spaces
        <4> SUFFICES ASSUME NEW i \in 1 .. Len(s) PROVE s[i] \in Spaces
          OBVIOUS
        <4>1. PICK j \in 0 .. Len(s) - 1 : j + 1 = i
          <5>1. i - 1 \in 0 .. Len(s) - 1 /\ (i - 1) + 1 = i
            BY <1>1
          <5> QED
            BY <5>1
        <4> QED
          BY <1>2, <4>1 DEF NonSpaces
      <3>2. SubSeq(s, Len(s) + 1, Len(s) - 0) = <<>>
        BY <1>1, SubSeqEmpty
      <3>3. Len(s) \in 0 .. Len(s) /\ 0 \in 0 .. Len(s) /\ Len(s) + Len(<<>>) + 0 = Len(s)
        BY <1>1
      <3> QED
        BY <2>3, <3>1, <3>2, <3>3
    <2> QED
      BY <2>3, <2>4, <2>5, <2>6 DEF TrimsBoth
  <1>3. CASE NonSpaces(s) # {}
    <2>1. PICK f \in Nat, l \in Nat, k \in Nat, n \in Nat :
            /\ f = FirstNonSpace(s) /\ l = LastNonSpace(s) /\ k = l + 1 /\ n = Len(s)
            /\ f <= l /\ k <= n /\ f < k /\ f <= n /\ l < n
            /\ s[f + 1] \notin Spaces /\ s[k] \notin Spaces
            /\ \A i \in 1 .. Len(s) : i <= f \/ i > k => s[i] \in Spaces
      <3>1. /\ FirstNonSpace(s) \in 0 .. Len(s) - 1 /\ LastNonSpace(s) \in 0 .. Len(s) - 1
            /\ FirstNonSpace(s) <= LastNonSpace(s)
            /\ s[FirstNonSpace(s) + 1] \notin Spaces /\ s[LastNonSpace(s) + 1] \notin Spaces
            /\ \A i \in 1 .. Len(s) :
                 i <= FirstNonSpace(s) \/ i > LastNonSpace(s) + 1 => s[i] \in Spaces
        BY <1>3, NonSpacesAre
      <3>2. PICK f \in Nat, l \in Nat : f = FirstNonSpace(s) /\ l = LastNonSpace(s)
        BY <1>1, <3>1
      <3>3. l + 1 \in Nat /\ f <= l /\ l + 1 <= Len(s) /\ f < l + 1 /\ f <= Len(s) /\ l < Len(s)
        BY <1>1, <3>1, <3>2
      <3> QED
        BY <1>1, <3>1, <3>2, <3>3
    <2>2. Trim(s) = SubSeq(s, f + 1, k) /\ LTrim(s) = SubSeq(s, f + 1, n)
          /\ RTrim(s) = SubSeq(s, 1, k)
      <3>1. Trim(s) = SubSeq(s, f + 1, l + 1) /\ LTrim(s) = SubSeq(s, f + 1, Len(s))
            /\ RTrim(s) = SubSeq(s, 1, l + 1)
        <4>1. f = FirstNonSpace(s) /\ l = LastNonSpace(s)
          BY <2>1
        <4> QED
          BY <1>3, <4>1, TrimsAre
      <3> QED
        BY <2>1, <3>1
    <2> DEFINE u == RTrim(s)
               v == LTrim(s)
               w == Trim(s)
    <2>3. /\ u \in Seq(Char) /\ Len(u) = k /\ \A j \in 1 .. k : u[j] = s[j]
      <3>1. 0 <= k /\ k <= Len(s)
        BY <2>1
      <3>2. /\ SubSeq(s, 0 + 1, k) \in Seq(Char) /\ Len(SubSeq(s, 0 + 1, k)) = k - 0
            /\ \A j \in 1 .. k - 0 : SubSeq(s, 0 + 1, k)[j] = s[0 + j]
        BY <3>1, PartIs
      <3>3. /\ SubSeq(s, 1, k) \in Seq(Char) /\ Len(SubSeq(s, 1, k)) = k
            /\ \A j \in 1 .. k : SubSeq(s, 1, k)[j] = s[j]
        BY <3>2
      <3>4. u = SubSeq(s, 1, k)
        BY <2>2
      <3> HIDE DEF u
      <3> QED
        BY <3>3, <3>4
    <2>4. /\ v \in Seq(Char) /\ Len(v) = n - f /\ \A j \in 1 .. n - f : v[j] = s[f + j]
      <3>1. f <= n /\ n <= Len(s)
        BY <2>1
      <3>2. /\ SubSeq(s, f + 1, n) \in Seq(Char) /\ Len(SubSeq(s, f + 1, n)) = n - f
            /\ \A j \in 1 .. n - f : SubSeq(s, f + 1, n)[j] = s[f + j]
        BY <3>1, PartIs
      <3> QED
        BY <2>2, <3>2
    <2>5. /\ w \in Seq(Char) /\ Len(w) = k - f /\ \A j \in 1 .. k - f : w[j] = s[f + j]
      <3>1. f <= k /\ k <= Len(s)
        BY <2>1
      <3>2. /\ SubSeq(s, f + 1, k) \in Seq(Char) /\ Len(SubSeq(s, f + 1, k)) = k - f
            /\ \A j \in 1 .. k - f : SubSeq(s, f + 1, k)[j] = s[f + j]
        BY <3>1, PartIs
      <3> QED
        BY <2>2, <3>2
    <2>6. NonSpaces(u) # {} /\ FirstNonSpace(u) = f
      <3>1. LET t == SubSeq(s, 0 + 1, k) IN
              NonSpaces(t) # {} /\ FirstNonSpace(t) = FirstNonSpace(s) - 0
              /\ LastNonSpace(t) = LastNonSpace(s) - 0
        BY <1>3, <2>1, NonSpacesOfPart
      <3> QED
        BY <2>1, <2>2, <3>1
    <2>7. PICK m \in Nat : NonSpaces(v) # {} /\ LastNonSpace(v) = m /\ m = l - f
                           /\ m + 1 = k - f
      <3>1. LET t == SubSeq(s, f + 1, n) IN
              NonSpaces(t) # {} /\ FirstNonSpace(t) = FirstNonSpace(s) - f
              /\ LastNonSpace(t) = LastNonSpace(s) - f
        BY <1>3, <2>1, NonSpacesOfPart
      <3>2. l - f \in Nat /\ (l - f) + 1 = k - f
        BY <2>1
      <3> QED
        BY <2>1, <2>2, <3>1, <3>2
    <2> HIDE DEF u, v, w
    <2>8. LTrim(u) = SubSeq(u, f + 1, k)
      <3>1. LastNonSpace(u) \in Nat
        <4>1. LastNonSpace(u) \in 0 .. Len(u) - 1
          BY <2>3, <2>6, NonSpacesAre
        <4> QED
          BY <2>3, <4>1
      <3> QED
        BY <2>1, <2>3, <2>6, <3>1, TrimsAre
    <2>9. RTrim(v) = SubSeq(v, 1, m + 1)
      <3>1. FirstNonSpace(v) \in Nat
        <4>1. FirstNonSpace(v) \in 0 .. Len(v) - 1
          BY <2>4, <2>7, NonSpacesAre
        <4> QED
          BY <2>1, <2>4, <4>1
      <3> QED
        BY <2>1, <2>4, <2>7, <3>1, TrimsAre
    <2>10. LTrim(u) = w
      <3>1. /\ SubSeq(u, f + 1, k) \in Seq(Char) /\ Len(SubSeq(u, f + 1, k)) = k - f
            /\ \A j \in 1 .. k - f : SubSeq(u, f + 1, k)[j] = u[f + j]
        BY SMTT(30), <2>1, <2>3, PartIs
      <3>2. \A j \in 1 .. k - f : f + j \in 1 .. k
        BY SMTT(30), <2>1
      <3>3. \A j \in 1 .. k - f : SubSeq(u, f + 1, k)[j] = w[j]
        BY <2>3, <2>5, <3>1, <3>2
      <3> HIDE DEF u
      <3> QED
        BY <2>5, <2>8, <3>1, <3>3, SeqEqual
    <2>11. RTrim(v) = w
      <3>1. PICK x \in Nat : x = m + 1 /\ x = k - f /\ 0 <= x /\ x <= Len(v)
        BY SMTT(30), <2>1, <2>4, <2>7
      <3>2. /\ SubSeq(v, 0 + 1, x) \in Seq(Char) /\ Len(SubSeq(v, 0 + 1, x)) = x - 0
            /\ \A j \in 1 .. x - 0 : SubSeq(v, 0 + 1, x)[j] = v[0 + j]
        BY <2>4, <3>1, PartIs
      <3>3. \A j \in 1 .. x : j \in 1 .. n - f
        BY <2>1, <3>1
      <3>4. SubSeq(v, 1, x) \in Seq(Char) /\ Len(SubSeq(v, 1, x)) = x
            /\ \A j \in 1 .. x : SubSeq(v, 1, x)[j] = v[j]
        BY <3>1, <3>2
      <3>5. \A j \in 1 .. x : SubSeq(v, 1, x)[j] = w[j]
        BY <2>4, <2>5, <3>1, <3>3, <3>4
      <3> QED
        BY <2>5, <2>9, <3>1, <3>4, <3>5, SeqEqual
    <2>12. Cut
      <3>1. PICK r \in 0 .. Len(s) : r = n - k /\ Len(s) - r = k
        <4>1. n - k \in 0 .. Len(s) /\ Len(s) - (n - k) = k
          BY <2>1
        <4> QED
          BY <4>1
      <3>2. f \in 0 .. Len(s)
        BY <2>1
      <3>3. f + Len(w) + r = Len(s)
        <4>1. f + (k - f) + (n - k) = n
          OBVIOUS
        <4>2. Len(w) = k - f /\ r = n - k /\ Len(s) = n
          BY <2>1, <2>5, <3>1
        <4> QED
          BY <4>1, <4>2
      <3>4. w = SubSeq(s, f + 1, Len(s) - r)
        BY <2>2, <3>1 DEF w
      <3>5. \A i \in 1 .. Len(s) : i <= f \/ i > Len(s) - r => s[i] \in Spaces
        BY <2>1, <3>1
      <3> QED
        BY <3>2, <3>3, <3>4, <3>5 DEF w
    <2>13. Head(w) = s[f + 1] /\ Last(w) = s[k]
      <3>1. PICK x \in 1 .. k - f, y \in 1 .. k - f : x = 1 /\ y = k - f
                                                     /\ f + x = f + 1 /\ f + y = k
        BY <2>1
      <3>2. w[x] = s[f + 1] /\ w[y] = s[k]
        BY <2>5, <3>1
      <3>3. Head(w) = w[1] /\ Last(w) = w[k - f]
        BY <2>1, <2>5 DEF Last
      <3> QED
        BY <3>1, <3>2, <3>3
    <2>14. {Head(w), Last(w)} \cap Spaces = {}
      BY <2>1, <2>13
    <2> QED
      BY <2>10, <2>11, <2>12, <2>14 DEF TrimsBoth, u, v, w
  <1> QED
    BY <1>2, <1>3

\* One row of the recursion that defines Pieces: what is split from each
\* position on into at most k pieces, given what is for k - 1.
Row(s, sep, k, below) ==
    [i \in 0 .. Len(s) |->
        LET seps == {j \in i .. Len(s) - 1 : s[j + 1] = sep} IN
        IF k = 1 \/ seps = {} THEN <<Sub(s, i, Len(s) - i)>>
        ELSE <<Sub(s, i, Min(seps) - i)>> \o below[Min(seps) + 1]]

\* That recursion has a solution, for any number of pieces.
LEMMA RowsAre ==
    ASSUME NEW s, NEW sep, NEW m \in Nat \ {0}
    PROVE  \E r : /\ Pieces(s, sep, m) = r[m][0]
                  /\ \A k \in 1 .. m : r[k] = Row(s, sep, k, r[k - 1])
  <1> DEFINE Step(k, f)  == Row(s, sep, k, f[k - 1])
             Good(f, n)  == \A k \in 1 .. n : f[k] = Step(k, f)
             Bad         == {n \in Nat : ~\E f : Good(f, n)}
             F(f)        == [k \in 1 .. m |-> Step(k, f)]
             rest        == CHOOSE f : f = F(f)
  <1>1. Pieces(s, sep, m) = rest[m][0]
    BY DEF Pieces, Row
  <1>2. \A f, h : Step(1, f) = Step(1, h)
    BY DEF Row
  <1>3. \A k, f, h : f[k - 1] = h[k - 1] => Step(k, f) = Step(k, h)
    OBVIOUS
  <1> HIDE DEF Step
  <1>4. ASSUME NEW n \in Nat, \E f : Good(f, n) PROVE \E f : Good(f, n + 1)
    <2>1. PICK f : Good(f, n)
      BY <1>4
    <2> DEFINE g == [k \in 1 .. n + 1 |-> IF k = n + 1 THEN Step(k, f) ELSE f[k]]
    <2>2. ASSUME NEW k \in 1 .. n + 1 PROVE g[k] = Step(k, f)
      <3>1. k = n + 1 \/ k \in 1 .. n
        OBVIOUS
      <3> QED
        BY <2>1, <3>1
    <2>3. ASSUME NEW k \in 1 .. n + 1, k # 1 PROVE g[k - 1] = f[k - 1]
      <3>1. k - 1 \in 1 .. n + 1 /\ k - 1 # n + 1
        BY <2>3
      <3> QED
        BY <3>1
    <2> HIDE DEF g
    <2>4. \A k \in 1 .. n + 1 : g[k] = Step(k, g)
      BY <1>2, <1>3, <2>2, <2>3
    <2> QED
      BY <2>4
  <1>5. 0 \notin Bad
    OBVIOUS
  <1> HIDE DEF Good
  <1>6. Bad = {}
    <2> SUFFICES ASSUME Bad # {} PROVE FALSE
      OBVIOUS
    <2>1. PICK n \in Bad : \A l \in Bad : n <= l
      BY MinIs
    <2>2. n \in Nat /\ n # 0
      BY <1>5, <2>1
    <2>3. n - 1 \in Nat /\ n - 1 \notin Bad /\ (n - 1) + 1 = n
      BY <2>1, <2>2
    <2> QED
      BY <1>4, <2>3
  <1>7. PICK f : Good(f, m)
    BY <1>6
  <1> DEFINE h == [k \in 1 .. m |-> f[k]]
  <1>8. h = F(h)
    <2>1. \A k \in 1 .. m : h[k] = Step(k, f)
      BY <1>7 DEF Good
    <2>2. ASSUME NEW k \in 1 .. m, k # 1 PROVE h[k - 1] = f[k - 1]
      BY <2>2
    <2>3. \A k \in 1 .. m : h[k] = Step(k, h)
      <3> HIDE DEF h
      <3> QED
        BY <1>2, <1>3, <2>1, <2>2
    <2> QED
      BY <2>3
  <1>9. rest = F(rest)
    BY <1>8
  <1>10. \A k \in 1 .. m : rest[k] = Row(s, sep, k, rest[k - 1])
    <2> HIDE DEF rest
    <2> QED
      BY <1>9 DEF Step
  <1> HIDE DEF rest
  <1> QED
    BY <1>1, <1>10

\* Piece after piece, g is what they are when joined from there on.
Joins(g, p, sep) ==
    \A i \in 1 .. Len(p) :
        g[i] = IF i = Len(p) THEN p[i] ELSE p[i] \o <<sep>> \o g[i + 1]

\* The recursion that defines Joined has one solution.
LEMMA JoinedIs ==
    ASSUME NEW S, NEW p \in Seq(S), p # <<>>, NEW sep, NEW g, Joins(g, p, sep)
    PROVE  Joined(p, sep) = g[1]
  <1> DEFINE n    == Len(p)
             Step(f, i) == IF i = n THEN p[i] ELSE p[i] \o <<sep>> \o f[i + 1]
             F(f) == [i \in 1 .. n |-> Step(f, i)]
             join == CHOOSE f : f = F(f)
             Bad  == {i \in 1 .. n : join[i] # g[i]}
  <1>1. n \in Nat /\ n # 0 /\ DOMAIN p = 1 .. n
    BY EmptySeq, LenProperties
  <1>2. Joined(p, sep) = join[1]
    BY <1>1 DEF Joined
  <1>3. \A f, h, i : f[i + 1] = h[i + 1] => Step(f, i) = Step(h, i)
    OBVIOUS
  <1>4. \A i \in 1 .. n : g[i] = Step(g, i)
    BY DEF Joins
  <1>5. \A f, h : Step(f, n) = Step(h, n)
    OBVIOUS
  <1> HIDE DEF Step, n
  <1> DEFINE h == [i \in 1 .. n |-> g[i]]
  <1>6. h = F(h)
    <2>1. ASSUME NEW i \in 1 .. n, i # n PROVE h[i + 1] = g[i + 1]
      <3>1. i + 1 \in 1 .. n
        BY <1>1, <2>1
      <3> QED
        BY <3>1
    <2>2. \A i \in 1 .. n : h[i] = g[i]
      OBVIOUS
    <2> HIDE DEF h
    <2>3. \A i \in 1 .. n : h[i] = Step(h, i)
      BY <1>3, <1>4, <1>5, <2>1, <2>2
    <2> QED
      BY <2>3 DEF h
  <1>7. join = F(join)
    BY <1>6
  <1> HIDE DEF join
  <1>8. \A i \in 1 .. n : join[i] = Step(join, i)
    BY <1>7
  <1>9. Bad = {}
    <2> SUFFICES ASSUME Bad # {} PROVE FALSE
      OBVIOUS
    <2>1. Bad \in SUBSET (0 .. n)
      BY <1>1
    <2>2. PICK i \in Bad : \A y \in Bad : y <= i
      BY <1>1, <2>1, MaxIs
    <2>3. i \in 1 .. n /\ join[i] # g[i]
      OBVIOUS
    <2>4. i # n
      BY <1>4, <1>5, <1>8, <2>3
    <2>5. i + 1 \in 1 .. n /\ ~(i + 1 <= i)
      BY <1>1, <2>3, <2>4
    <2>6. join[i + 1] = g[i + 1]
      BY <2>2, <2>5
    <2> QED
      BY <1>3, <1>4, <1>8, <2>3, <2>6
  <1> QED
    BY <1>1, <1>2, <1>9

\* The positions of separators from i on.
Seps(s, sep, i) == {j \in i .. Len(s) - 1 : s[j + 1] = sep}

\* What the pieces p from position i on promise, if there may be k of them.
\* The last conjunct bounds k, since each piece but the last takes a separator.
SplitsFrom(p, s, sep, i, k, Char) ==
    /\ p \in Seq(Seq(Char)) /\ p # <<>> /\ Len(p) <= k
    /\ \E g : Joins(g, p, sep) /\ g[1] = SubSeq(s, i + 1, Len(s))
    /\ \A x \in 1 .. Len(p) : Contains(p[x], sep) => x = k /\ k <= Len(s) - i

\* What is left from i on.
LEMMA RestIs ==
    ASSUME NEW Char, NEW s \in Seq(Char), NEW i \in 0 .. Len(s)
    PROVE  Sub(s, i, Len(s) - i) = SubSeq(s, i + 1, Len(s))
  <1>1. Len(s) \in Nat /\ i \in Nat /\ i <= Len(s)
    OBVIOUS
  <1>2. CASE i = Len(s)
    <2>1. Sub(s, i, Len(s) - i) = <<>>
      BY <1>1, <1>2 DEF Sub
    <2>2. SubSeq(s, i + 1, Len(s)) = <<>>
      BY <1>1, <1>2, SubSeqEmpty
    <2> QED
      BY <2>1, <2>2
  <1>3. CASE i # Len(s)
    <2>1. PICK n \in Nat, k \in Nat : n = Len(s) - i /\ k = Len(s) /\ i + n = k
      <3>1. Len(s) - i \in Nat /\ i + (Len(s) - i) = Len(s)
        BY <1>1
      <3> QED
        BY <1>1, <3>1
    <2>2. i \in 0 .. Len(s) - 1 /\ Reaches(s, i, n, k)
      BY <1>1, <1>3, <2>1 DEF Reaches
    <2>3. Sub(s, i, n) = SubSeq(s, i + 1, k)
      BY <2>2, SubIs
    <2> QED
      BY <2>1, <2>3
  <1> QED
    BY <1>2, <1>3

\* The rest is the last piece.
LEMMA LastPiece ==
    ASSUME NEW Char, NEW s \in Seq(Char), NEW sep, NEW i \in 0 .. Len(s),
           NEW k \in Nat \ {0}, k = 1 \/ Seps(s, sep, i) = {}
    PROVE  SplitsFrom(<<SubSeq(s, i + 1, Len(s))>>, s, sep, i, k, Char)
  <1> DEFINE t == SubSeq(s, i + 1, Len(s))
             p == <<t>>
  <1>1. Len(s) \in Nat /\ i \in Nat /\ i <= Len(s) /\ Len(s) <= Len(s)
    OBVIOUS
  <1>2. t \in Seq(Char) /\ Len(t) = Len(s) - i /\ \A j \in 1 .. Len(s) - i : t[j] = s[i + j]
    BY <1>1, PartIs
  <1> HIDE DEF t
  <1>3. p \in Seq(Seq(Char)) /\ Len(p) = 1 /\ p[1] = t /\ p # <<>> /\ Len(p) <= k
    BY <1>2
  <1>4. Joins(p, p, sep)
    <2> HIDE DEF p
    <2>1. \A x \in 1 .. Len(p) : x = Len(p)
      BY <1>3
    <2> QED
      BY <2>1 DEF Joins
  <1>5. ASSUME NEW x \in 1 .. Len(p), Contains(p[x], sep)
        PROVE  x = k /\ k <= Len(s) - i
    <2>1. x = 1 /\ Contains(t, sep)
      BY <1>3, <1>5
    <2>2. PICK j \in 1 .. Len(s) - i : s[i + j] = sep
      BY <1>2, <2>1 DEF Contains
    <2>3. PICK l \in i .. Len(s) - 1 : l + 1 = i + j
      <3>1. i + j - 1 \in i .. Len(s) - 1 /\ (i + j - 1) + 1 = i + j
        BY <1>1
      <3> QED
        BY <3>1
    <2>4. l \in Seps(s, sep, i)
      BY <2>2, <2>3 DEF Seps
    <2>5. k = 1 /\ 1 <= Len(s) - i
      BY <1>1, <2>4
    <2> QED
      BY <2>1, <2>5
  <1> HIDE DEF p
  <1>6. p[1] = SubSeq(s, i + 1, Len(s))
    BY <1>3 DEF t
  <1>7. SplitsFrom(p, s, sep, i, k, Char)
    BY <1>3, <1>4, <1>5, <1>6 DEF SplitsFrom
  <1> QED
    BY <1>7 DEF p, t

\* A piece up to the next separator goes before the pieces behind it.
LEMMA OneMorePiece ==
    ASSUME NEW Char, NEW s \in Seq(Char), NEW sep, NEW i \in 0 .. Len(s),
           NEW k \in Nat \ {0}, NEW n \in Nat \ {0}, n = k + 1,
           NEW j \in Seps(s, sep, i), \A l \in Seps(s, sep, i) : j <= l,
           NEW m \in 0 .. Len(s), m = j + 1,
           NEW q, SplitsFrom(q, s, sep, m, k, Char)
    PROVE  SplitsFrom(<<SubSeq(s, i + 1, j)>> \o q, s, sep, i, n, Char)
  <1> DEFINE t == SubSeq(s, i + 1, j)
             p == <<t>> \o q
             u == SubSeq(s, m + 1, Len(s))
             v == SubSeq(s, i + 1, Len(s))
  <1>1. /\ Len(s) \in Nat /\ i \in Nat /\ j \in Nat /\ i <= j /\ j < Len(s) /\ m <= Len(s)
        /\ j <= Len(s) /\ i <= Len(s) /\ Len(s) <= Len(s) /\ m \in Nat /\ s[m] = sep
    BY DEF Seps
  <1>2. t \in Seq(Char) /\ Len(t) = j - i /\ \A x \in 1 .. j - i : t[x] = s[i + x]
    BY <1>1, PartIs
  <1>3. u \in Seq(Char) /\ Len(u) = Len(s) - m /\ \A x \in 1 .. Len(s) - m : u[x] = s[m + x]
    BY <1>1, PartIs
  <1>4. v \in Seq(Char) /\ Len(v) = Len(s) - i /\ \A x \in 1 .. Len(s) - i : v[x] = s[i + x]
    BY <1>1, PartIs
  <1>5. PICK g : Joins(g, q, sep) /\ g[1] = u
    BY DEF SplitsFrom
  <1>6. /\ q \in Seq(Seq(Char)) /\ Len(q) \in Nat /\ Len(q) >= 1 /\ Len(q) <= k
        /\ \A x \in 1 .. Len(q) : Contains(q[x], sep) => x = k /\ k <= Len(s) - m
    <2>1. q \in Seq(Seq(Char)) /\ q # <<>> /\ Len(q) <= k
      BY DEF SplitsFrom
    <2>2. Len(q) \in Nat \ {0}
      BY <2>1, EmptySeq
    <2> QED
      BY <2>1, <2>2 DEF SplitsFrom
  <1> HIDE DEF t, u, v
  <1>7. t \o <<sep>> \o u = v
    <2>1. sep \in Char
      BY <1>1
    <2>2. <<sep>> \in Seq(Char) /\ Len(<<sep>>) = 1 /\ <<sep>>[1] = sep
      BY <2>1
    <2>3. /\ t \o <<sep>> \in Seq(Char) /\ Len(t \o <<sep>>) = m - i
          /\ \A x \in 1 .. m - i : (t \o <<sep>>)[x] = s[i + x]
      <3>1. /\ t \o <<sep>> \in Seq(Char) /\ Len(t \o <<sep>>) = (j - i) + 1
            /\ \A x \in 1 .. (j - i) + 1 :
                  (t \o <<sep>>)[x] = IF x <= j - i THEN t[x] ELSE <<sep>>[x - (j - i)]
        BY <1>2, <2>2, ConcatProperties
      <3>2. (j - i) + 1 = m - i
        BY <1>1
      <3>3. ASSUME NEW x \in 1 .. m - i PROVE (t \o <<sep>>)[x] = s[i + x]
        <4>1. CASE x <= j - i
          BY <1>1, <1>2, <3>1, <3>2, <4>1
        <4>2. CASE ~(x <= j - i)
          <5>1. x - (j - i) = 1 /\ i + x = m /\ x \in 1 .. (j - i) + 1
            BY <1>1, <4>2
          <5> QED
            BY <1>1, <2>2, <3>1, <4>2, <5>1
        <4> QED
          BY <4>1, <4>2
      <3> QED
        BY <3>1, <3>2, <3>3
    <2> DEFINE w == t \o <<sep>>
    <2> HIDE DEF w
    <2>4. w \in Seq(Char) /\ Len(w) = m - i /\ \A x \in 1 .. m - i : w[x] = s[i + x]
      BY <2>3 DEF w
    <2>5. /\ w \o u \in Seq(Char) /\ Len(w \o u) = (m - i) + (Len(s) - m)
          /\ \A x \in 1 .. (m - i) + (Len(s) - m) :
                (w \o u)[x] = IF x <= m - i THEN w[x] ELSE u[x - (m - i)]
      <3>1. w \in Seq(Char) /\ u \in Seq(Char)
        BY <1>3, <2>4
      <3>2. /\ w \o u \in Seq(Char) /\ Len(w \o u) = Len(w) + Len(u)
            /\ \A x \in 1 .. Len(w) + Len(u) :
                  (w \o u)[x] = IF x <= Len(w) THEN w[x] ELSE u[x - Len(w)]
        BY <3>1, ConcatProperties
      <3>3. Len(w) = m - i /\ Len(u) = Len(s) - m
        BY <1>3, <2>4
      <3> QED
        BY <3>2, <3>3
    <2>6. (m - i) + (Len(s) - m) = Len(s) - i
      BY <1>1
    <2>7. ASSUME NEW x \in 1 .. Len(s) - i PROVE (w \o u)[x] = s[i + x]
      <3>1. CASE x <= m - i
        <4>1. x \in 1 .. m - i
          BY <1>1, <3>1
        <4>2. (w \o u)[x] = w[x]
          BY <2>5, <2>6, <3>1
        <4> QED
          BY <2>4, <4>1, <4>2
      <3>2. CASE ~(x <= m - i)
        <4>1. PICK y \in 1 .. Len(s) - m : y = x - (m - i) /\ m + y = i + x
          <5>1. x - (m - i) \in 1 .. Len(s) - m /\ m + (x - (m - i)) = i + x
            BY <1>1, <3>2
          <5> QED
            BY <5>1
        <4>2. (w \o u)[x] = u[y]
          BY <2>5, <2>6, <3>2, <4>1
        <4> QED
          BY <1>3, <4>1, <4>2
      <3> QED
        BY <3>1, <3>2
    <2>8. w \o u = v
      <3>1. /\ w \o u \in Seq(Char) /\ Len(w \o u) = Len(v)
            /\ \A x \in 1 .. Len(w \o u) : (w \o u)[x] = v[x]
        BY <1>4, <2>5, <2>6, <2>7
      <3> QED
        BY <1>4, <3>1, SeqEqual
    <2> QED
      BY <2>8 DEF w
  <1>8. /\ p \in Seq(Seq(Char)) /\ Len(p) = Len(q) + 1 /\ p[1] = t
        /\ \A x \in 2 .. Len(q) + 1 : p[x] = q[x - 1]
    <2>1. <<t>> \in Seq(Seq(Char)) /\ Len(<<t>>) = 1 /\ <<t>>[1] = t
      BY <1>2
    <2>2. /\ p \in Seq(Seq(Char)) /\ Len(p) = 1 + Len(q)
          /\ \A x \in 1 .. 1 + Len(q) : p[x] = IF x <= 1 THEN <<t>>[x] ELSE q[x - 1]
      BY <1>6, <2>1, ConcatProperties
    <2> HIDE DEF p
    <2>3. 1 \in 1 .. 1 + Len(q) /\ 1 + Len(q) = Len(q) + 1
          /\ \A x \in 2 .. Len(q) + 1 : x \in 1 .. 1 + Len(q) /\ ~(x <= 1)
      BY <1>6
    <2> QED
      BY <2>1, <2>2, <2>3
  <1> HIDE DEF p
  <1>9. p # <<>> /\ Len(p) <= n
    BY <1>6, <1>8, EmptySeq
  <1> DEFINE h == [x \in 1 .. Len(q) + 1 |-> IF x = 1 THEN v ELSE g[x - 1]]
  <1>10. h[1] = v /\ \A x \in 2 .. Len(q) + 1 : h[x] = g[x - 1]
    BY <1>6
  <1> HIDE DEF h
  <1>11. Joins(h, p, sep)
    <2> SUFFICES ASSUME NEW x \in 1 .. Len(q) + 1
                 PROVE  h[x] = IF x = Len(q) + 1 THEN p[x] ELSE p[x] \o <<sep>> \o h[x + 1]
      BY <1>8 DEF Joins
    <2>1. CASE x = 1
      <3>1. 2 \in 2 .. Len(q) + 1 /\ 2 - 1 = 1 /\ 1 + 1 = 2 /\ 1 # Len(q) + 1
        BY <1>6
      <3>2. h[1 + 1] = u
        BY <1>5, <1>10, <3>1
      <3>3. h[1] = p[1] \o <<sep>> \o h[1 + 1]
        BY <1>7, <1>8, <1>10, <3>2
      <3> QED
        BY <2>1, <3>1, <3>3
    <2>2. CASE x # 1
      <3>1. PICK y \in 1 .. Len(q) : y = x - 1 /\ x = y + 1
        <4>1. x - 1 \in 1 .. Len(q) /\ x = (x - 1) + 1
          BY <1>6, <2>2
        <4> QED
          BY <4>1
      <3>2. h[x] = g[y] /\ p[x] = q[y]
        BY <1>8, <1>10, <2>2, <3>1
      <3>3. g[y] = IF y = Len(q) THEN q[y] ELSE q[y] \o <<sep>> \o g[y + 1]
        BY <1>5 DEF Joins
      <3>4. CASE y = Len(q)
        BY <3>1, <3>2, <3>3, <3>4
      <3>5. CASE y # Len(q)
        <4>1. x + 1 \in 2 .. Len(q) + 1 /\ (x + 1) - 1 = y + 1 /\ x # Len(q) + 1
          BY <1>6, <3>1, <3>5
        <4>2. h[x + 1] = g[y + 1]
          <5>1. h[x + 1] = g[(x + 1) - 1]
            BY <1>10, <4>1
          <5> QED
            BY <4>1, <5>1
        <4> QED
          BY <3>2, <3>3, <3>5, <4>1, <4>2
      <3> QED
        BY <3>4, <3>5
    <2> QED
      BY <2>1, <2>2
  <1>12. ASSUME NEW x \in 1 .. Len(q) + 1, Contains(p[x], sep)
         PROVE  x = n /\ n <= Len(s) - i
    <2>1. x # 1
      <3> SUFFICES ASSUME Contains(t, sep) PROVE FALSE
        BY <1>8, <1>12
      <3>1. PICK y \in 1 .. j - i : s[i + y] = sep
        BY <1>2 DEF Contains
      <3>2. PICK l \in i .. Len(s) - 1 : l + 1 = i + y /\ l < j
        <4>1. i + y - 1 \in i .. Len(s) - 1 /\ (i + y - 1) + 1 = i + y /\ i + y - 1 < j
          BY <1>1
        <4> QED
          BY <4>1
      <3>3. l \in Seps(s, sep, i)
        BY <3>1, <3>2 DEF Seps
      <3> QED
        BY <1>1, <3>2, <3>3
    <2>2. PICK y \in 1 .. Len(q) : y = x - 1 /\ x = y + 1
      <3>1. x - 1 \in 1 .. Len(q) /\ x = (x - 1) + 1
        BY <1>6, <2>1
      <3> QED
        BY <3>1
    <2>3. p[x] = q[y]
      <3>1. x \in 2 .. Len(q) + 1
        BY <1>6, <2>1
      <3> QED
        BY <1>8, <2>2, <3>1
    <2>4. y = k /\ k <= Len(s) - m
      BY <1>6, <1>12, <2>3
    <2> QED
      BY <1>1, <2>2, <2>4
  <1>13. SplitsFrom(p, s, sep, i, n, Char)
    BY <1>8, <1>9, <1>10, <1>11, <1>12 DEF SplitsFrom, v
  <1> QED
    BY <1>13 DEF p, t

\* What the rows of the recursion hold, one after the other.
LEMMA RowsSplit ==
    ASSUME NEW Char, NEW s \in Seq(Char), NEW sep, NEW m \in Nat \ {0}, NEW r,
           \A k \in 1 .. m : r[k] = Row(s, sep, k, r[k - 1])
    PROVE  \A k \in 1 .. m, i \in 0 .. Len(s) : SplitsFrom(r[k][i], s, sep, i, k, Char)
  <1> DEFINE Holds(k) == \A i \in 0 .. Len(s) : SplitsFrom(r[k][i], s, sep, i, k, Char)
             Bad      == {k \in 1 .. m : ~Holds(k)}
  <1>0. Len(s) \in Nat
    OBVIOUS
  <1>1. ASSUME NEW k \in 1 .. m, NEW i \in 0 .. Len(s), k = 1 \/ Seps(s, sep, i) = {}
        PROVE  SplitsFrom(r[k][i], s, sep, i, k, Char)
    <2>1. r[k][i] = <<Sub(s, i, Len(s) - i)>>
      BY <1>1 DEF Row, Seps
    <2>2. Sub(s, i, Len(s) - i) = SubSeq(s, i + 1, Len(s))
      BY RestIs
    <2>3. k \in Nat \ {0}
      OBVIOUS
    <2>4. SplitsFrom(<<SubSeq(s, i + 1, Len(s))>>, s, sep, i, k, Char)
      BY <1>1, <2>3, LastPiece
    <2> QED
      BY <2>1, <2>2, <2>4
  <1>2. ASSUME NEW k \in 1 .. m, NEW n \in 1 .. m, n = k + 1, Holds(k)
        PROVE  Holds(n)
    <2> SUFFICES ASSUME NEW i \in 0 .. Len(s), Seps(s, sep, i) # {}
                 PROVE  SplitsFrom(r[n][i], s, sep, i, n, Char)
      BY <1>1
    <2>1. Seps(s, sep, i) \in SUBSET Nat
      BY <1>0 DEF Seps
    <2>2. PICK j \in Seps(s, sep, i) :
             j = Min(Seps(s, sep, i)) /\ \A l \in Seps(s, sep, i) : j <= l
      BY <2>1, MinIs
    <2>3. j \in Nat /\ i <= j /\ j < Len(s) /\ i \in Nat
      BY <1>0, <2>2 DEF Seps
    <2>4. PICK e \in 0 .. Len(s) : e = j + 1
      BY <1>0, <2>3
    <2>5. SplitsFrom(r[k][e], s, sep, e, k, Char)
      BY <1>2
    <2>6. r[n][i] = <<SubSeq(s, i + 1, j)>> \o r[k][e]
      <3>1. n # 1 /\ n - 1 = k
        BY <1>2
      <3>2. r[n] = Row(s, sep, n, r[k])
        BY <3>1
      <3>3. r[n][i] = <<Sub(s, i, j - i)>> \o r[k][j + 1]
        BY <2>2, <3>1, <3>2 DEF Row, Seps
      <3>4. Sub(s, i, j - i) = SubSeq(s, i + 1, j)
        <4>1. PICK d \in Nat : d = j - i /\ i + d = j
          <5>1. j - i \in Nat /\ i + (j - i) = j
            BY <2>3
          <5> QED
            BY <5>1
        <4>2. i \in 0 .. Len(s) - 1 /\ Reaches(s, i, d, j)
          BY <1>0, <2>3, <4>1 DEF Reaches
        <4>3. Sub(s, i, d) = SubSeq(s, i + 1, j)
          BY <2>3, <4>2, SubIs
        <4> QED
          BY <4>1, <4>3
      <3> QED
        BY <2>4, <3>3, <3>4
    <2>7. k \in Nat \ {0} /\ n \in Nat \ {0}
      OBVIOUS
    <2>8. SplitsFrom(<<SubSeq(s, i + 1, j)>> \o r[k][e], s, sep, i, n, Char)
      BY <1>2, <2>2, <2>4, <2>5, <2>7, OneMorePiece
    <2> QED
      BY <2>6, <2>8
  <1>3. Holds(1)
    BY <1>1
  <1> HIDE DEF Holds
  <1>4. Bad = {}
    <2> SUFFICES ASSUME Bad # {} PROVE FALSE
      OBVIOUS
    <2>1. Bad \in SUBSET Nat
      OBVIOUS
    <2>2. PICK n \in Bad : \A l \in Bad : n <= l
      BY <2>1, MinIs
    <2>3. n \in 1 .. m /\ n # 1
      BY <1>3, <2>2
    <2>4. PICK k \in 1 .. m : n = k + 1
      <3>1. n - 1 \in 1 .. m /\ n = (n - 1) + 1
        BY <2>3
      <3> QED
        BY <3>1
    <2>5. k \notin Bad
      BY <2>2, <2>4
    <2> QED
      BY <1>2, <2>2, <2>4, <2>5
  <1> QED
    BY <1>4 DEF Holds

\* A text that is split and joined again is the same, for any text, separator
\* and number of pieces; they are no more than asked for, and only the last of
\* all that were asked for has separators (str_nsplit).
THEOREM SplitsToJoinHolds ==
    ASSUME NEW Char, NEW s \in Seq(Char), NEW sep, NEW n \in Nat \cup {-1}
    PROVE  SplitsToJoin(s, sep, n)
  <1> SUFFICES ASSUME n # 0 PROVE SplitsToJoin(s, sep, n)
    BY DEF SplitsToJoin
  <1>1. Len(s) \in Nat
    OBVIOUS
  <1>2. PICK m \in Nat \ {0} : m = IF n = -1 THEN Len(s) + 1 ELSE n
    <2>1. (n = -1 => Len(s) + 1 \in Nat \ {0}) /\ (n # -1 => n \in Nat \ {0})
      BY <1>1
    <2> QED
      BY <2>1
  <1> DEFINE p == NSplit(s, sep, n)
  <1>3. p = Pieces(s, sep, m)
    BY <1>2 DEF NSplit
  <1>4. PICK r : /\ Pieces(s, sep, m) = r[m][0]
                 /\ \A k \in 1 .. m : r[k] = Row(s, sep, k, r[k - 1])
    BY RowsAre
  <1>5. \A k \in 1 .. m, i \in 0 .. Len(s) : SplitsFrom(r[k][i], s, sep, i, k, Char)
    BY <1>4, RowsSplit
  <1>6. SplitsFrom(p, s, sep, 0, m, Char)
    <2>1. m \in 1 .. m /\ 0 \in 0 .. Len(s)
      BY <1>1
    <2> QED
      BY <1>3, <1>4, <1>5, <2>1
  <1> HIDE DEF p
  <1>7. PICK g : Joins(g, p, sep) /\ g[1] = SubSeq(s, 0 + 1, Len(s))
    BY <1>6 DEF SplitsFrom
  <1>8. p \in Seq(Seq(Char)) /\ p # <<>> /\ Len(p) <= m /\ DOMAIN p = 1 .. Len(p)
    BY <1>6 DEF SplitsFrom
  <1>9. Joined(p, sep) = s
    <2>1. Joined(p, sep) = g[1]
      BY <1>7, <1>8, JoinedIs
    <2>2. SubSeq(s, 0 + 1, Len(s)) = s
      BY SubSeqFull
    <2> QED
      BY <1>7, <2>1, <2>2
  <1>10. n > 0 => Len(p) <= n
    BY <1>2, <1>8
  <1>11. ASSUME NEW i \in DOMAIN p, Contains(p[i], sep) PROVE i = n
    <2>1. i = m /\ m <= Len(s) - 0
      BY <1>6, <1>8, <1>11 DEF SplitsFrom
    <2> QED
      BY <1>1, <1>2, <2>1
  <1> QED
    BY <1>9, <1>10, <1>11 DEF SplitsToJoin, p

----------------------------------------------------------------------------
(* The status messages.                                                     *)

\* The first n entries of s are the texts of the codes from first on.
Starts(s, n, first) ==
    s \in Seq(Nat) /\ n <= Len(s) /\ \A i \in 1 .. n : s[i] = first + i - 1

LEMMA CodesStart ==
    ASSUME NEW first \in Nat, NEW last \in Nat, NEW n \in Nat, first + n = last + 1
    PROVE  Starts(Codes(first, last), n, first)
  <1>1. last - first + 1 = n
    OBVIOUS
  <1>2. \A i \in 1 .. n : first + i - 1 \in Nat
    OBVIOUS
  <1>3. Codes(first, last) = [i \in 1 .. n |-> first + i - 1]
    BY <1>1 DEF Codes
  <1> QED
    BY <1>2, <1>3 DEF Starts

\* What is appended changes no entry.
LEMMA StartStays ==
    ASSUME NEW s, NEW n \in Nat, NEW first, Starts(s, n, first), NEW u \in Seq(Nat)
    PROVE  Starts(s \o u, n, first)
  <1>1. s \in Seq(Nat) /\ Len(s) \in Nat /\ Len(u) \in Nat /\ n <= Len(s)
    BY DEF Starts
  <1>2. s \o u \in Seq(Nat) /\ Len(s \o u) = Len(s) + Len(u)
    BY <1>1, ConcatProperties
  <1>3. ASSUME NEW i \in 1 .. n PROVE (s \o u)[i] = s[i]
    <2>1. i \in 1 .. Len(s) + Len(u) /\ i <= Len(s)
      BY <1>1
    <2> QED
      BY <1>1, <2>1, ConcatProperties
  <1> QED
    BY <1>1, <1>2, <1>3 DEF Starts

\* The text of a code is the entry of its class at its place.
LEMMA StatusMsgIs ==
    ASSUME NEW k \in Nat, NEW first \in Nat, first = 100 * k,
           NEW n \in 0 .. 100, Starts(StatusMsgs[k], n, first),
           NEW c \in first .. first + n - 1
    PROVE  StatusMsg(c) = c
  <1>1. c \div 100 = k
    OBVIOUS
  <1>2. PICK i \in 1 .. n : i = c - first + 1 /\ first + i - 1 = c
    <2>1. c - first + 1 \in 1 .. n /\ first + (c - first + 1) - 1 = c
      OBVIOUS
    <2> QED
      BY <2>1
  <1>3. StatusMsgs[k][i] = c
    BY <1>2 DEF Starts
  <1> QED
    BY <1>1, <1>2, <1>3 DEF StatusMsg

LEMMA ClassesStart ==
    /\ Starts(StatusMsgs[1], 4, 100) /\ Starts(StatusMsgs[2], 9, 200)
    /\ Starts(StatusMsgs[4], 19, 400) /\ Starts(StatusMsgs[5], 9, 500)
  <1> DEFINE a == Codes(100, 103)
             b == Codes(200, 208)
             c == Codes(400, 418)
             d == Codes(421, 426)
             e == Codes(500, 508)
             f == <<428, 429, 431, 451>>
             g == <<Moved>> \o Codes(302, 308)
             r == <<226>>
             t == <<510, 511>>
  <1>1. /\ a = Codes(100, 103) /\ b = Codes(200, 208) /\ c = Codes(400, 418)
        /\ d = Codes(421, 426) /\ e = Codes(500, 508)
    OBVIOUS
  <1>2. f \in Seq(Nat) /\ r \in Seq(Nat) /\ t \in Seq(Nat)
    OBVIOUS
  <1>3. StatusMsgs = <<a, b \o r, g, c \o d \o f, e \o t>>
    BY DEF StatusMsgs
  <1> HIDE DEF a, b, c, d, e, f, g, r, t
  <1>4. /\ StatusMsgs[1] = a /\ StatusMsgs[2] = b \o r
        /\ StatusMsgs[4] = (c \o d) \o f /\ StatusMsgs[5] = e \o t
    BY <1>3
  <1>5. Starts(a, 4, 100)
    <2>1. 100 + 4 = 103 + 1 /\ 100 \in Nat /\ 103 \in Nat /\ 4 \in Nat
      OBVIOUS
    <2> QED
      BY <1>1, <2>1, CodesStart
  <1>6. Starts(b \o r, 9, 200)
    <2>1. 200 + 9 = 208 + 1 /\ 200 \in Nat /\ 208 \in Nat /\ 9 \in Nat
      OBVIOUS
    <2>2. Starts(b, 9, 200)
      BY <1>1, <2>1, CodesStart
    <2> QED
      BY <1>2, <2>1, <2>2, StartStays
  <1>7. Starts((c \o d) \o f, 19, 400)
    <2>1. 400 + 19 = 418 + 1 /\ 400 \in Nat /\ 418 \in Nat /\ 19 \in Nat
      OBVIOUS
    <2>2. Starts(c, 19, 400)
      BY <1>1, <2>1, CodesStart
    <2>3. 421 + 6 = 426 + 1 /\ 421 \in Nat /\ 426 \in Nat /\ 6 \in Nat
      OBVIOUS
    <2>4. Starts(d, 6, 421)
      BY <1>1, <2>3, CodesStart
    <2>5. d \in Seq(Nat)
      BY <2>4 DEF Starts
    <2>6. Starts(c \o d, 19, 400)
      BY <2>1, <2>2, <2>5, StartStays
    <2> QED
      BY <1>2, <2>1, <2>6, StartStays
  <1>8. Starts(e \o t, 9, 500)
    <2>1. 500 + 9 = 508 + 1 /\ 500 \in Nat /\ 508 \in Nat /\ 9 \in Nat
      OBVIOUS
    <2>2. Starts(e, 9, 500)
      BY <1>1, <2>1, CodesStart
    <2> QED
      BY <1>2, <2>1, <2>2, StartStays
  <1> QED
    BY <1>4, <1>5, <1>6, <1>7, <1>8

LEMMA ListedText ==
    ASSUME NEW c \in Listed
    PROVE  StatusMsg(c) = c
  <1>1. PICK k \in Nat, first \in Nat, n \in 0 .. 100 :
          /\ first = 100 * k /\ Starts(StatusMsgs[k], n, first)
          /\ c \in first .. first + n - 1
    <2>1. CASE c \in 100 .. 103
      <3>1. /\ 1 \in Nat /\ 100 \in Nat /\ 4 \in 0 .. 100 /\ 100 = 100 * 1
            /\ c \in 100 .. 100 + 4 - 1
        BY <2>1
      <3> QED
        BY <3>1, ClassesStart
    <2>2. CASE c \in 200 .. 208
      <3>1. /\ 2 \in Nat /\ 200 \in Nat /\ 9 \in 0 .. 100 /\ 200 = 100 * 2
            /\ c \in 200 .. 200 + 9 - 1
        BY <2>2
      <3> QED
        BY <3>1, ClassesStart
    <2>3. CASE c \in 400 .. 418
      <3>1. /\ 4 \in Nat /\ 400 \in Nat /\ 19 \in 0 .. 100 /\ 400 = 100 * 4
            /\ c \in 400 .. 400 + 19 - 1
        BY <2>3
      <3> QED
        BY <3>1, ClassesStart
    <2>4. CASE c \in 500 .. 508
      <3>1. /\ 5 \in Nat /\ 500 \in Nat /\ 9 \in 0 .. 100 /\ 500 = 100 * 5
            /\ c \in 500 .. 500 + 9 - 1
        BY <2>4
      <3> QED
        BY <3>1, ClassesStart
    <2> QED
      BY <2>1, <2>2, <2>3, <2>4 DEF Listed
  <1> QED
    BY <1>1, StatusMsgIs

LEMMA OwnTextHolds ==
    ASSUME NEW c \in Listed
    PROVE  OwnText(c)
  <1>1. Listed \subseteq Nat
    BY DEF Listed
  <1> QED
    BY <1>1, ListedText DEF OwnText

----------------------------------------------------------------------------
(* All of them, for the texts and codes that are ever written.              *)

TextsInv ==
    /\ text \in Seq(Chars) /\ Len(text) <= MaxLen
    /\ code \in Listed \cup {0}

LEMMA TextsInvariant == Spec => []TextsInv
  <1>1. Init => TextsInv
    BY LibraryAssumption DEF Init, TextsInv
  <1>2. TextsInv /\ [Next]_vars => TextsInv'
    <2> SUFFICES ASSUME TextsInv, [Next]_vars PROVE TextsInv'
      OBVIOUS
    <2>1. CASE Write
      <3>1. PICK c \in Chars : text' = Append(text, c)
        BY <2>1 DEF Write
      <3>2. text' \in Seq(Chars) /\ Len(text') = Len(text) + 1
        BY <3>1, AppendProperties DEF TextsInv
      <3>3. Len(text') <= MaxLen
        BY <2>1, <3>2, LibraryAssumption DEF Write, TextsInv
      <3> QED
        BY <2>1, <3>2, <3>3 DEF Write, TextsInv
    <2>2. CASE Respond
      BY <2>2 DEF Respond, TextsInv
    <2>3. CASE UNCHANGED tvars
      BY <2>3 DEF tvars, TextsInv
    <2>4. Write \/ Respond \/ UNCHANGED tvars
      BY DEF Next, vars
    <2> QED
      BY <2>1, <2>2, <2>3, <2>4
  <1> QED
    BY <1>1, <1>2, PTL DEF Spec

\* Every text that is written is trimmed of its spaces and split into what
\* joins to it again, is its own path if it is a target without query and
\* fragment, and every listed code has its own text: whatever the characters,
\* and however long texts may be (str.cc, url.cc, http_constant.cc).
THEOREM TextsRightHolds == Spec => []TextsRight
  <1>1. TextsInv => TextsRight
    <2> SUFFICES ASSUME TextsInv PROVE TextsRight
      OBVIOUS
    <2>1. text \in Seq(Chars) /\ Len(text) \in Nat /\ Len(text) <= MaxLen
      BY DEF TextsInv
    <2>2. TrimsBoth(text)
      BY <2>1, TrimsBothHolds
    <2>3. \A n \in -1 .. MaxLen : SplitsToJoin(text, "?", n)
      <3>1. \A n \in -1 .. MaxLen : n \in Nat \cup {-1}
        BY LibraryAssumption
      <3> QED
        BY <2>1, <3>1, SplitsToJoinHolds
    <2>4. PathAsWritten(text)
      BY <2>1, PathHolds
    <2>5. code # 0 => OwnText(code)
      BY OwnTextHolds DEF TextsInv
    <2> QED
      BY <2>2, <2>3, <2>4, <2>5 DEF TextsRight
  <1> QED
    BY <1>1, TextsInvariant, PTL
=============================================================================
