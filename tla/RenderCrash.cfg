SPECIFICATION Spec
CONSTANTS
    Procs = {p1, p2}
    ApiWorkers = {p1}
    Jobs = {j1}
    NoProc = NoProc
    NoJob = NoJob
    MaxAttempts = 2
    MaxFaults = 3
    LeaseTicks = 2
INVARIANTS NoOrphanOutput IntentIsDurable RegisteredIsDurable
PROPERTIES StaleWorkerIsPowerless CancelSticks PublicationPromise
CHECK_DEADLOCK FALSE
