SPECIFICATION ScheduleSpec
CONSTANTS
    r1 = r1
    r2 = r2
    w1 = w1
    w2 = w2
    SyncRows <- TwoRows
    Wallets = {w1, w2}
    WalletsOf <- Senders
    Watched = {}
    WorkerLimit = 0
    PageLimit = 2
    MaxTake = 1
    MaxLosses = 0
PROPERTY EveryRowIsSynced
