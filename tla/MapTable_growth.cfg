\* The call that makes the table grow loses what was in it.
CONSTANTS
    k1 = k1
    k2 = k2
    k3 = k3
    k4 = k4
    k5 = k5
    v1 = v1
    v2 = v2
    Keys = {k1, k2, k3, k4, k5}
    Values = {v1, v2}
    NULL = NULL
    Hash <- MCHash
    InitCap = 4
    MaxSets = 8
SPECIFICATION Spec
\* The bound on the calls ends every behaviour.
CHECK_DEADLOCK FALSE
INVARIANTS GetReturnsLast

