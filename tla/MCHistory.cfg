SPECIFICATION HistorySpec
CONSTANTS
    Procs = {p1, p2}
    Stored = {"inverter", "map", "bms26", "dts017m"}
    FaultKinds = {"query", "swallowed query", "save", "crash", "mark", "del", "slow"}
    MaxFaults = 2
    Appliances <- Four
    Brands = {"deye", "sofar"}
    Own = {"dts017m"}
    Merged = {"map"}
    Step = 2
    Last = 1
    LastSecond = {3}
    Load <- MCLoad
    Count <- MCCount
    Rounds <- MCRounds
    Lossy <- MCLossy
    MaxGaps = 1
    Failing <- MCFailing
    MaxStarts = 2
    None = None
INVARIANTS
    TypesOK
    RestorationHolds
PROPERTIES
    MarkerRemovedWhenWhole
    RowsStayTrue
SYMMETRY Alike
