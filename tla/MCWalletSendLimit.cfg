SPECIFICATION Spec
CONSTANTS
    Requests = {r1, r2}
    Keys = {k1, k2}
    Traces = {t1, t2}
    TxHashes = {h1}
    None = None
    Backends = {"pg"}
    TTL = 1
    MaxTime = 0
    MemoryCapacity = 3
    PromptHolders = FALSE
    MaxNonce = 0
    DailyLimit = 1
    DistinctTraces = TRUE
INVARIANT DailyLimitRespected
CHECK_DEADLOCK FALSE
