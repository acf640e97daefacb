SPECIFICATION Spec
CONSTANTS
    Requests = {r1, r2}
    Keys = {k1}
    Traces = {t1, t2}
    TxHashes = {h1}
    None = None
    Backends = {"pg"}
    TTL = 1
    MaxTime = 1
    MemoryCapacity = 3
    PromptHolders = FALSE
    MaxNonce = 1
    DailyLimit = 1
    DistinctTraces = TRUE
INVARIANTS IntentOwnsItsNonce RefusedLeavesNothing
PROPERTY AcceptsAtMostOnce
SYMMETRY Symmetry
CHECK_DEADLOCK FALSE
