\* Every heap of up to seven of five timers, two of which are due together.
CONSTANTS
    Timers <- MCTimers
    MaxLen = 7
SPECIFICATION Spec
INVARIANTS HeapOrdered
PROPERTIES ImplementsQueue
