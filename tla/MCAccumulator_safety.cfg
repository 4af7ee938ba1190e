SPECIFICATION Spec
CONSTANTS
    Step = 3
    Delay = 1
    DayBuckets = 2
    Lateness = 1
    Last = 2
    MaxPoints = 2
    Stalls = {"backfill", "loop", "timer"}
    FaultKinds = {"read", "store", "backfill read", "backfill store", "crash", "stop"}
    MaxFaults = 2
    None = None
INVARIANTS
    TypeOK
    BucketsAreOwned
    NothingLeftOut
PROPERTIES
    AverageNeverShrinks
CHECK_DEADLOCK FALSE
