-------------------------------- MODULE List --------------------------------
(***************************************************************************)
(* The list of ehp (src/src/list.cc): a ring of nodes that are linked both *)
(* ways, with its head and its tail.  Nodes are numbered in the order they *)
(* are made in, and stand for the values they hold.                        *)
(***************************************************************************)
EXTENDS Integers, Sequences

CONSTANTS
    Null,
    MaxNodes   \* bound on the nodes made

ASSUME ListAssumption == MaxNodes \in Nat /\ Null \notin 1 .. MaxNodes

VARIABLES
    nodes, head, tail, len,
    ring    \* history: the nodes in the order a deque has them in

lvars == <<nodes, head, tail, len, ring>>

Nodes == 1 .. MaxNodes
Node  == [prev : Nodes \cup {Null}, next : Nodes \cup {Null}]

ListInit ==
    nodes = <<>> /\ head = Null /\ tail = Null /\ len = 0 /\ ring = <<>>

\* Mutant of Closed: the other way round the ring is forgotten.
ClosedOneWay(ns, h, t) == [ns EXCEPT ![h].prev = t]

\* A node gets another neighbour on one side.
WithPrev(ns, i, n) == [ns EXCEPT ![i].prev = n]
WithNext(ns, i, n) == [ns EXCEPT ![i].next = n]

\* The head and the tail are made neighbours of node n, or of one another.
Between(ns, h, t, n) == WithNext(WithPrev(ns, h, n), t, n)
Closed(ns, h, t)     == WithNext(WithPrev(ns, h, t), t, h)

\* A new node n between the tail and the head.
Push(n) ==
    /\ n = Len(nodes) + 1 /\ n \in Nodes
    /\ len' = len + 1
    /\ LET ns == Append(nodes, [prev |-> tail, next |-> head])
       IN  nodes' = IF len = 0 THEN ns ELSE Between(ns, head, tail, n)

PushFront(n) ==
    /\ Push(n)
    /\ head' = n
    /\ tail' = IF len = 0 THEN n ELSE tail
    /\ ring' = <<n>> \o ring

PushBack(n) ==
    /\ Push(n)
    /\ tail' = n
    /\ head' = IF len = 0 THEN n ELSE head
    /\ ring' = Append(ring, n)

PopFront ==
    /\ len > 0
    /\ len' = len - 1
    /\ head' = IF len = 1 THEN Null ELSE nodes[head].next
    /\ tail' = IF len = 1 THEN Null ELSE tail
    /\ nodes' = IF len = 1 THEN nodes ELSE Closed(nodes, head', tail)
    /\ ring' = SubSeq(ring, 2, len)

PopBack ==
    /\ len > 0
    /\ len' = len - 1
    /\ tail' = IF len = 1 THEN Null ELSE nodes[tail].prev
    /\ head' = IF len = 1 THEN Null ELSE head
    /\ nodes' = IF len = 1 THEN nodes ELSE Closed(nodes, head, tail')
    /\ ring' = SubSeq(ring, 1, len - 1)

ListNext == (\E n \in Nodes : PushFront(n) \/ PushBack(n)) \/ PopFront \/ PopBack

ListSpec == ListInit /\ [][ListNext]_lvars

----------------------------------------------------------------------------
\* A walk from head to tail, and one back, meets the nodes of the deque and
\* ends where it began, whatever was pushed and popped on either side.
RingIsDeque ==
    /\ len = Len(ring)
    /\ head = IF len = 0 THEN Null ELSE ring[1]
    /\ tail = IF len = 0 THEN Null ELSE ring[len]
    /\ \A i \in 1 .. len - 1 :
          nodes[ring[i]].next = ring[i + 1] /\ nodes[ring[i + 1]].prev = ring[i]
    /\ len > 1 => nodes[tail].next = head /\ nodes[head].prev = tail
=============================================================================
