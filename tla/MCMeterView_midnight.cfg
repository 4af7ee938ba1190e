SPECIFICATION ModeSpec
CONSTANTS
    DayLen = 12
    DayStart = 4
    DayEnd = 8
    Tol = 1
    MinAge = 3
    MaxDist = 2
    LastDay = 2
    Horizon = 23
    PollTimes <- AllPolls
    Loads <- AllLoads
    FaultKinds = {"crash", "redis", "store", "read"}
    MaxFaults = 1
    None = None
    TariffTTL = 2
    MercuryTTL = 3
    StaleAge = 5
    T0 <- Evening
    RequestTimes = {11, 12, 14, 15, 19, 23}
INVARIANTS
    RowIsOfToday
