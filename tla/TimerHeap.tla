----------------------------- MODULE TimerHeap ------------------------------
(***************************************************************************)
(* The binary heap of timers of a worker (src/src/ptimer.cc), the timer    *)
(* that is due first at its root.  A timer that is pushed moves up as long *)
(* as the one above is not due before it; a pop puts the last timer at the *)
(* root and moves it down past the earlier of its children.                *)
(*                                                                         *)
(* The heap is indexed from 1 here, from 0 in the code: the parent of i is *)
(* i \div 2, its children are 2i and 2i + 1.                               *)
(***************************************************************************)
EXTENDS Integers, Sequences, FiniteSetsExt

CONSTANTS
    Timers,   \* the timers: records with a field `due'
    MaxLen    \* bound on the length of the heap

ASSUME TimerAssumption ==
    /\ \A t \in Timers : t.due \in Nat
    /\ MaxLen \in Nat

VARIABLE heap

\* i and the places above it, up to the root.
Upwards[i \in Nat] == IF i = 0 THEN {} ELSE {i} \cup Upwards[i \div 2]

\* Mutant of Pushed: the timer goes one place up and not as far as it must.
PushedOneUp(h, t) ==
    LET p   == Len(h) + 1
        top == IF p > 1 /\ ~(h[p \div 2].due < t.due) THEN p \div 2 ELSE p
    IN  [i \in 1 .. p |-> IF i = top THEN t
                          ELSE IF i = p THEN h[i \div 2] ELSE h[i]]

\* ptimer_heap_push: t ends up below the nearest place that is due before it.
Pushed(h, t) ==
    LET p    == Len(h) + 1
        Free(q) == \A i \in Upwards[p] \ {p} : i >= q => ~(h[i].due < t.due)
        top  == Min({q \in Upwards[p] : Free(q)})
    IN  [i \in 1 .. p |->
            CASE i = top                       -> t
              [] i \in Upwards[p] /\ i > top   -> h[i \div 2]
              [] OTHER                         -> h[i]]

\* Mutant of Child: the left child whatever the right one is due.
LeftChild(h, i) == 2 * i

\* The child of i that is due first; the left one if they are due together.
Child(h, i) ==
    IF 2 * i + 1 <= Len(h) /\ h[2 * i + 1].due < h[2 * i].due
    THEN 2 * i + 1 ELSE 2 * i

\* The places ptimer_heap_pop empties on its way down: the root, and a child
\* of such a place unless the last timer is due before it.
Emptied(h) ==
    LET Follows(i) == /\ i = Child(h, i \div 2)
                      /\ ~(h[Len(h)].due < h[i].due)
    IN  {i \in 1 .. Len(h) : \A j \in Upwards[i] : j = 1 \/ Follows(j)}

\* Mutant of Popped: the last timer is put at the root and left there.
PoppedUnsifted(h) ==
    [i \in 1 .. Len(h) - 1 |-> IF i = 1 THEN h[Len(h)] ELSE h[i]]

\* ptimer_heap_pop of a heap that is not empty.
Popped(h) ==
    [i \in 1 .. Len(h) - 1 |->
        CASE i = Max(Emptied(h)) -> h[Len(h)]
          [] i \in Emptied(h) /\ i # Max(Emptied(h)) -> h[Child(h, i)]
          [] OTHER -> h[i]]

Init == heap = <<>>

Push(t) ==
    /\ Len(heap) < MaxLen
    /\ heap' = Pushed(heap, t)

Pop ==
    /\ heap # <<>>
    /\ heap' = Popped(heap)

Next == (\E t \in Timers : Push(t)) \/ Pop

Spec == Init /\ [][Next]_heap

----------------------------------------------------------------------------
(* What the heap promises.                                                 *)

Queue == INSTANCE TimerQueue WITH
    held <- [t \in Timers |-> Cardinality({i \in DOMAIN heap : heap[i] = t})]

\* The heap is a queue of timers: what is popped was due first of all, and
\* no other timer is lost, doubled or made up.
ImplementsQueue == Queue!Spec

\* No timer is due before the one above it: the root is what ptimer_run sets
\* the alarm for.  (Timers due together may stand in any order.)
HeapOrdered == \A i \in 2 .. Len(heap) : heap[i \div 2].due <= heap[i].due
=============================================================================
