SPECIFICATION DevicesSpec
CONSTANTS
    Kinds = 2
    Retries = 1
    Forced = FALSE
    MaxFaults = 1
    Size <- MCSize
    Depth = 2
    Tags = {a, b}
    Names = {n, m}
    Moments = {1, 2}
    MaxSaves = 2
    None = None
INVARIANTS
    TypesOK
    SessionsAreClean
    AnswersAreOwn
PROPERTIES
    TroublePasses
CHECK_DEADLOCK FALSE
