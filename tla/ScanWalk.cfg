SPECIFICATION Spec
CONSTANTS
    top = top
    sub = sub
    a = a
    b = b
    Procs = {p1, p2}
    Root = top
    Subs = {sub}
    Files = {a, b}
    In <- MCIn
    MaxEvents = 2
    Fragile = {sub, b}
    MaxJobs = 2
    MaxRequests = 2
    Reuse <- MCReuse
INVARIANTS CompleteVouches AnswersAreFresh OneTraversal
PROPERTIES PublishedWasTrue ListingIsExact
SYMMETRY Symmetry
CHECK_DEADLOCK FALSE
