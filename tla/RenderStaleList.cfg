SPECIFICATION Spec
CONSTANTS
    Procs = {p1, p2}
    ApiWorkers = {}
    Jobs = {j1, j2}
    NoProc = NoProc
    NoJob = NoJob
    MaxAttempts = 1
    MaxFaults = 1
    LeaseTicks = 1
SYMMETRY Symmetry
INVARIANTS InterruptedBeforePublication
CHECK_DEADLOCK FALSE
