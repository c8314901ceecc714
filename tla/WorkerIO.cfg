\* Two workers, two connections and three requests: enough for a third
\* request to meet the descriptor of the 404 page in other hands.  The order
\* of workers and of connections is nowhere asked for.
CONSTANTS
    w1 = w1
    w2 = w2
    c1 = c1
    c2 = c2
    a = a
    b = b
    Workers = {w1, w2}
    Conns = {c1, c2}
    Paths = {a, b}
    Requests <- MCRequests
    Torn <- MCTorn
    NFds = 2
    Page = Page
    Free = Free
    Foreign = Foreign
    NULL = NULL
    MaxSends = 3
    MaxEdits = 1
    MaxForgets = 2
SYMMETRY Symmetry
SPECIFICATION Spec
CHECK_DEADLOCK FALSE
INVARIANTS TypeOK UnreadIsAnnounced ClosesAsAsked
PROPERTIES RightAnswers 
