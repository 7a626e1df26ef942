SPECIFICATION Spec
CONSTANTS
    Principals = {p1, p2}
    Keys = {k1, k2}
    MaxJobs = 2
    PrincipalLimit = 2
    GlobalLimit = 3
    Slots = 2
    LocalRetries = {1}
SYMMETRY Symmetry
INVARIANTS ReservedWhileUnfinished
CHECK_DEADLOCK FALSE
