\* A map that grows at the fourth setting, and a len_t of 16 values; a
\* site of which the path is cut has no page.
CONSTANTS
    two = two
    zero = zero
    site = site
    Inputs <- MCInputs
    ConfigFiles <- MCConfigFiles
    DefaultFile = DefaultFile
    Worker = worker
    Root = root
    Keys = {worker, root}
    Values = {two, zero, site}
    Numbers = {two}
    Sites = {site}
    Cut = Cut
    NULL = NULL
    Factor = 3
    LenWord = 16
SPECIFICATION Spec
CHECK_DEADLOCK FALSE
INVARIANTS ArgumentsTaken SettingsTaken CrashExplained
PROPERTIES StartEnds
