SPECIFICATION Spec
CONSTANTS
    Principals = {p1, p2}
    Keys = {k1, k2}
    MaxJobs = 2
    PrincipalLimit = 2
    GlobalLimit = 3
    Slots = 1
    LocalRetries = {2}
SYMMETRY Symmetry
INVARIANTS PendingIsReserved NoOvercommit
 
CHECK_DEADLOCK FALSE
