SPECIFICATION Spec
CONSTANTS
    N = 3
    Workers = {w1, w2}
    Nonces <- ReservationIds
    NonceOf <- NonceOfIntent
    None = None
    StrictMode = TRUE
    MaxCrashes = 1
INVARIANTS TypeOK SentAtMostOnce ReleasedNonceNeverSent SubmittedWasAccepted
           OneActiveRowPerNonce
CHECK_DEADLOCK FALSE
