SPECIFICATION PanelSpec
CONSTANTS
    NLamps = 2
    Callers = {c1, c2}
    Keep = 2
    None = None
    Requests = {1, 2, 3}
    Periods <- Spans
    TTL = 2
    FlightMax = 1
    MaxTime = 5
INVARIANTS
    TypesOK
    MemoryAgrees
    AnswersServe
PROPERTIES
    LampsFollow
    LampsShowGrid
    WaitsEnd
