SPECIFICATION PollersSpec
CONSTANTS
    Serials = {s1}
    Codes = {"F35", "F12"}
    MaxSeen = 3
    MaxChanges = 2
    MaxRestarts = 1
    Controllers = {k1, k2}
    Labelled = {k1}
    Values = {v1, v2}
    Kept = {"battery_power"}
    Passing = {}
    Delay = 2
    Tolerance = 3
    Ids = {1, 2}
    Batteries = {"a"}
    SerialOf <- MCSerialOf
    Step = 2
    MaxTime = 4
    BackoffMax = 2
    Warns = {"warn"}
    Protects = {"prot"}
    MapAlarms = {"net"}
    Slots = {"b1", "b2"}
    Window = 2
    MaxAlarmChanges = 4
    None = None
INVARIANTS
    TypesOK
    AlarmsAlternate
    ReadingsAreKept
PROPERTIES
    SilenceIsReal
    ShownIsTrue
    PointsBecomeRows
    AlarmsHaveRows
CHECK_DEADLOCK FALSE
SYMMETRY Symmetry
