SPECIFICATION FairSpec
CONSTANTS
    Procs = {"a", "b"}
    Legacy = {"b"}
    Values = {"v", "w"}
    First = "v"
    NoValue = "none"
    Defs <- TwoDefs
    MaxSteps = 4
    MaxCommands = 2
INVARIANTS NothingMissed OneNotice SubscribersCurrent
PROPERTIES StaleRunIsPowerless EventsSettle
CHECK_DEADLOCK FALSE
