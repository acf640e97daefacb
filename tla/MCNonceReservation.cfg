SPECIFICATION Spec
CONSTANTS
    c1 = c1
    c2 = c2
    c3 = c3
    a1 = a1
    a2 = a2
    h1 = h1
    None = None
    Calls = {c1, c2, c3}
    ActionIds = {a1, a2}
    TxHashes = {h1}
    MaxNonce = 2
SYMMETRY Symmetry
INVARIANTS
    TypeOK
    NonceConflictUnreachable
    ReplayReturnsSameReservation
    NoUnexplainedGap
PROPERTIES
    ReservationsArePermanent
