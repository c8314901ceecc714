\* One worker with a pipe of two bytes it reads one at a time, three connections,
\* crashes and signals: the write of the master blocks, is interrupted, fails.
CONSTANTS
    c1 = c1
    c2 = c2
    c3 = c3
    NPrs = 1
    Conns = {c1, c2, c3}
    PipeCap = 2
    BufSize = 1
    Crashable = {0}
    MaxAcceptErrors = 1
    MaxStops = 1
SPECIFICATION FairSpec
CHECK_DEADLOCK FALSE
INVARIANTS FullPipeSeen
PROPERTIES NotifyCompletes
