SPECIFICATION FairSpec
CONSTANTS
    Accounts <- MCAccounts
    Stable = 1
    Undeclared = 1
    MaxRestarts = 1
    None = None
INVARIANTS
    TypeOK
PROPERTIES
    Alternation
    Hysteresis
    LeaverIsLeftAlone
    AlertsGetThrough
