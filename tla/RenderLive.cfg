SPECIFICATION FairSpec
CONSTANTS
    Procs = {p1, p2}
    ApiWorkers = {}
    Jobs = {j1}
    NoProc = NoProc
    NoJob = NoJob
    MaxAttempts = 1
    MaxFaults = 2
    LeaseTicks = 2
INVARIANTS IntentPinsJob
PROPERTIES IntentResolves UnfinishedSettles
CHECK_DEADLOCK FALSE
