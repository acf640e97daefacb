SPECIFICATION FairSpec
CONSTANTS
    N = 1
    Workers = {w1}
    Nonces <- ReservationIds
    NonceOf <- NonceOfIntent
    None = None
    StrictMode = TRUE
    MaxCrashes = 0
PROPERTY AcceptedIsTracked
CHECK_DEADLOCK FALSE
