SPECIFICATION FairSpec
CONSTANTS
    Drainers = {p1, p2}
    Events = {e1, e2}
    Dests = {d1}
    NoDrainer = NoDrainer
    LeaseTicks = 1
    MaxTries = 2
    MaxCommands = 2
INVARIANTS TypeOK EditRevokes CompleteWasAccepted
PROPERTIES StaleAckIsPowerless DeliverySettles
CHECK_DEADLOCK FALSE
