SPECIFICATION QueuesSpec
CONSTANTS
    Alerts = {a1, a2}
    Sinks = {s1}
    Drainers = {d1, d2}
    Backends = {"redis", "memory"}
    AlertDepth = 1
    AlertBatch = 2
    MaxOverdue = 1
    MaxAlertFaults = 1
    Signals = {g1, g2}
    Processes = {1, 2}
    SignalBackends = {"redis", "memory"}
    SignalDepth = 2
    SignalBatch = 2
    LagKnown = TRUE
    HighWater = 1
    LowWater = 0
    MaxRetries = 1
    MaxEntries = 3
    MaxMishaps = 1
INVARIANTS DeliveredIsTrue KeptUntilTried
PROPERTIES QueuedIsTried AdmittedInTheEnd
CHECK_DEADLOCK FALSE
