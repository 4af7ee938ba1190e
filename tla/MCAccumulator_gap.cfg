SPECIFICATION FairSpec
CONSTANTS
    Step = 3
    Delay = 1
    DayBuckets = 2
    Lateness = 0
    Last = 2
    MaxPoints = 1
    Stalls = {"backfill"}
    FaultKinds = {}
    MaxFaults = 0
    None = None
PROPERTIES
    EveryBucketAveraged
CHECK_DEADLOCK FALSE
