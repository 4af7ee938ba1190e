SPECIFICATION Spec
CONSTANTS
    Procs = {p1}
    Stored = {"inverter", "map", "bms26", "dts017m"}
    FaultKinds = {"crash"}
    MaxFaults = 1
    None = None
INVARIANTS
    HistoryOrMarker
