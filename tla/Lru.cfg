\* A cache of eight bytes and a table of two buckets that grows to sixteen;
\* six responses are stored.
CONSTANTS
    k1 = k1
    k2 = k2
    k3 = k3
    k4 = k4
    tiny = tiny
    page = page
    huge = huge
    Keys = {k1, k2, k3, k4}
    Values = {tiny, page, huge}
    NULL = NULL
    Size <- MCSize
    Hash <- MCHash
    Cap = 8
    HashInit = 2
    MaxStores = 6
SPECIFICATION Spec
\* The bound on the calls ends every behaviour.
CHECK_DEADLOCK FALSE
INVARIANTS SameNodes LenIsBytes Bounded TableHasRoom
PROPERTIES ImplementsFifoCache
