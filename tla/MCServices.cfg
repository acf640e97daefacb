SPECIFICATION ServicesSpec
CONSTANTS
    None = None
    Calls = {c1, c2, c3}
    Keys = {k1, k2}
    TTL = 2
    MaxTime = 3
    MemoryCapacity = 1
    PromptHolders = TRUE
    LimitedCalls = {r1, r2, r3}
    Hosts = {h1, h2}
    Limit = 1
    Window = 2
    RateModes = {"memory", "redis", "distributed"}
    Emitters = {m1, m2, m3, m4}
    EscalateAfter = 2
    EscalateEvery = 1
    Signals = {s1, s2}
    Processes = {1, 2}
    SignalBackends = {"redis", "memory"}
    SignalDepth = 2
    SignalBatch = 2
    LagKnown = TRUE
    HighWater = 1
    LowWater = 0
    MaxRetries = 1
    MaxEntries = 2
    MaxMishaps = 2
    AnomalyCalls = {1, 2, 3, 4}
    AnomalyScenarios <- AnomalyCases
    VelocityWindow = 2
    Thresholds <- TwoEach
    TravelWindow = 2
    Far <- FarPlaces
    SignalBuffer = 3
    EnabledRules = {1, 2, 3, 4, 5, 6}
    MinScore = 50
    Requests = {q1, q2}
    Holders = {o1}
    XrplKeys = {x1}
    NoKey = NoKey
    Kinds = {"account_set", "trustline_authorize", "issuer_payment"}
    SignerOf <- SharedSigner
    Policies <- IssuerPolicies
    Decisions = {"approved"}
    MaxAttempts = 2
    MaxReviews = 1
    MaxExpiries = 1
    AnchorRequests = {a1, a2, a3}
    AnchorKeys = {ak}
    AnchorKeyOf <- SameAnchorKey
    PrivacyIds = {i1, i2}
    Staff = {t1, t2}
    Purgers = {u1, u2}
    Signups = {g1, g2}
    Usernames = {n1, n2}
    Emails = {e1}
    Creations = {w1, w2}
    Seeds = {d1, d2}
    NoBlock = NoBlock
    FinalConfirmations = 12
    MaxHead = 15
SYMMETRY Symmetry
INVARIANTS
    ExclusiveReservation
    WindowEnds
    LimitPerWindow
    SuppressedWasAnnounced
    AcceptedIsAccountedFor
    SuspicionsAreAlerted
    AppliedOncePerKey
    ValidatedWasApplied
    CommittedIsResolvable
    ReleasedAnchorNonceNeverSent
    HistoryExplainsStatus
    AnswerIsKept
    FinalMeansDepth
    ReadsAlike
PROPERTIES
    ReplacesOnlyExpired
CHECK_DEADLOCK FALSE
