SPECIFICATION WorkersSpec
CONSTANTS
    N = 2
    Workers = {w1, w2}
    Nonces <- ReservationIds
    NonceOf <- NonceOfIntent
    None = None
    StrictMode = FALSE
    MaxCrashes = 1
    row1 = row1
    row2 = row2
    wallet1 = wallet1
    wallet2 = wallet2
    SyncRows <- TwoRows
    Wallets = {wallet1, wallet2}
    WalletsOf <- Senders
    Watched = {wallet2}
    WorkerLimit = 0
    PageLimit = 2
    MaxTake = 1
    MaxLosses = 1
    Logs = {log1}
    Actions = {action1}
    Verdicts = {verdict1}
    Reconcilers = {r1, r2}
    MaxPassThrows = 1
PROPERTIES QueuedIntentsSettle WatchedRowsAreSynced StuckIsReported IssuesBecomeTrue
CHECK_DEADLOCK FALSE
