SPECIFICATION XrplSpec
CONSTANTS
    Requests = {q1, q2}
    Holders = {o1}
    XrplKeys = {x1, x2}
    NoKey = NoKey
    Kinds = {"trustline_authorize", "issuer_payment"}
    SignerOf <- SharedSigner
    Policies <- IssuerPolicies
    Decisions = {"approved", "revoked"}
    MaxAttempts = 2
    MaxReviews = 2
    MaxExpiries = 1
INVARIANT RowAnswersReview
CHECK_DEADLOCK FALSE
