SPECIFICATION Spec
CONSTANTS
    Procs = {p1}
    ApiWorkers = {p1}
    Jobs = {j1}
    NoProc = NoProc
    NoJob = NoJob
    MaxAttempts = 1
    MaxFaults = 1
    LeaseTicks = 1
PROPERTIES RequeueAfterReconcile
CHECK_DEADLOCK FALSE
