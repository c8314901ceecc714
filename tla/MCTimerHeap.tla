---------------------------- MODULE MCTimerHeap -----------------------------
(* Timers of two connections, due at four times; up to seven in the heap.     *)
EXTENDS TimerHeap

MCTimers == [fd : {1}, due : 1 .. 3] \cup [fd : {2}, due : {2, 4}]
=============================================================================
