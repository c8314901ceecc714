\* As Worker.cfg, with a map of time stamps that never grows: no connection
\* loses its stamp here.
CONSTANTS
    NFds = 2
    Delay = 2
    Start = 2
    MaxTime = 6
    MaxAccepts = 3
    MaxForgets = 0
    MaxLag = 1
SPECIFICATION Spec
CHECK_DEADLOCK FALSE
INVARIANTS IdleIsClosed
