\* Two workers, of which one may crash at any time; two connections; one SIGTERM
\* or ^C.  The server may stop: no deadlock check.
CONSTANTS
    c1 = c1
    c2 = c2
    c3 = c3
    NPrs = 2
    Conns = {c1, c2}
    PipeCap = 1
    BufSize = 1
    Crashable = {0}
    MaxAcceptErrors = 0
    MaxStops = 1
SPECIFICATION FairSpec
CHECK_DEADLOCK FALSE
INVARIANTS TypeOK NoLostWakeup ExitReapsAll
PROPERTIES KillsOnlyOwn ImplementsServer HandledUnlessLost ShutdownCompletes LastDeathEndsMaster
