\* A 404 page for more than one request.
CONSTANTS
    w1 = w1
    w2 = w2
    c1 = c1
    c2 = c2
    a = a
    b = b
    Workers = {w1, w2}
    Conns = {c1, c2}
    Paths = {a, b}
    Requests <- MCRequests
    Torn = {}
    NFds = 2
    Page = Page
    Free = Free
    Foreign = Foreign
    NULL = NULL
    MaxSends = 3
    MaxEdits = 0
    MaxForgets = 0
SPECIFICATION Spec
CHECK_DEADLOCK FALSE
INVARIANTS MissingGetsPage
