SPECIFICATION Spec
CONSTANTS
    Procs = {p1, p2}
    NoProc = NoProc
    Direct = {p2}
    MaxJobs = 2
    MaxStarts = 2
    MaxRev = 2
    MaxFaults = 1
    Ops = {"hash", "verify", "probe"}
    Digests = {d1, d2}
    Failures = {"timeout"}
    Workers = 2
    MaxRetries = 1
    LeaseTicks = 1
INVARIANTS FactsWereRead OneWorker
PROPERTIES FactsNeverOlder BaselineHolds CancelHolds
SYMMETRY Symmetry
CHECK_DEADLOCK FALSE
