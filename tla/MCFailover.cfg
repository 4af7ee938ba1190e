SPECIFICATION FairSpec
CONSTANTS
    Loops = {"map", "errors"}
    Serials = {"primary", "fallback"}
    Recheck = 2
    Backoff = 2
    FailMax = 2
    Slow = 1
    MaxChanges = 1
    None = None
INVARIANTS
    TypeOK
    FlagsTellDevice
PROPERTIES
    ReturnAfterSuccess
    DeviceIsFound
