----------------------------- MODULE TimerQueue -----------------------------
(***************************************************************************)
(* What the heap of timers promises: a bag, and a pop takes out one of the *)
(* timers that are due first.                                              *)
(***************************************************************************)
EXTENDS Naturals

CONSTANT Timers

VARIABLE held   \* how many of each timer are held

Init == held = [t \in Timers |-> 0]

Push(t) == held' = [held EXCEPT ![t] = @ + 1]

Pop(t) ==
    /\ held[t] > 0
    /\ \A u \in Timers : held[u] > 0 => t.due <= u.due
    /\ held' = [held EXCEPT ![t] = @ - 1]

Next == \E t \in Timers : Push(t) \/ Pop(t)

Spec == Init /\ [][Next]_held
=============================================================================
