SPECIFICATION IssueSpec
CONSTANTS
    AuthCalls = {c1, c2}
    Cookies = {k1, k2}
    LockoutThreshold = 2
    MaxFailures = 3
    MaxPasswords = 2
    MaxSecrets = 2
    MaxStep = 2
    IdentityFaults = 1
    r1 = k1
    r2 = k2
    Issuers = {i1, i2}
    KnownIssuers = {i1}
    Anchors <- MCAnchors
    FedBindings = {b1}
    SvcTokens = {t1}
    ScopeTargets = {s1}
    Exchanges = {x1}
    Addresses = {p1, p2}
    TrustRows <- MCTrustRows
    MaxTrust = 2
    Attempts = {a1, a2, a3}
    Bodies = {h1, h2}
    Leases = {l1}
    Requests = {c1, c2}
    Passes = {m1}
    TTLs = {1, 2}
    Grace = 1
    BatchLimit = 2
    Broken = {}
    MaxTime = 3
    MaxFaults = 1
CONSTRAINT Explored
SYMMETRY CallSymmetry
INVARIANTS
    AttemptsAreCounted
    SessionsFollowThePassword
    FederationIsPinned
    RequestsRunOnce
    LiveRoleIsTracked
    NeverPastCeiling
PROPERTY FinishedStaysFinished
CHECK_DEADLOCK FALSE
