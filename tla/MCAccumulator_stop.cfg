SPECIFICATION Spec
CONSTANTS
    Step = 3
    Delay = 1
    DayBuckets = 2
    Lateness = 0
    Last = 2
    MaxPoints = 1
    Stalls = {}
    FaultKinds = {"stop"}
    MaxFaults = 1
    None = None
PROPERTIES
    StopLosesNothing
CHECK_DEADLOCK FALSE
