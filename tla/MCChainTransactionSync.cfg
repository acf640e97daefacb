SPECIFICATION SyncSpec
CONSTANTS
    NoBlock = NoBlock
    FinalConfirmations = 3
    Passes = {p1, p2}
    Alone = p1
    MaxHead = 4
    MaxForks = 1
    ReorgDepth = 2
    Evictions = TRUE
    Executions = {TRUE, FALSE}
    Outages = TRUE
    MaxCuts = 1
INVARIANTS
    TypeOK
    ConfirmedIsFinal
    TablesAgreeAlone
PROPERTY FinalityRestored
CHECK_DEADLOCK FALSE
