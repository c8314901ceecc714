\* Two descriptors for three connections, which the kernel thus uses again;
\* a timeout of two ticks, a SIGALRM that waits for at most one, and a map of
\* time stamps that grows once.  Time, and with it every behaviour, is bounded.
CONSTANTS
    NFds = 2
    Delay = 2
    Start = 2
    MaxTime = 6
    MaxAccepts = 3
    MaxForgets = 1
    MaxLag = 1
SPECIFICATION Spec
CHECK_DEADLOCK FALSE
INVARIANTS TypeOK EveryConnTimed AlarmHasTimer
PROPERTIES ClosesOnlyIdle
