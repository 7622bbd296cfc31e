SPECIFICATION Spec
CONSTANTS
    Requests = {r1, r2}
    Projects = {p}
    Settings = {}
    AuthKey = AuthKey
    Shares = {s1, s2}
    Mistyped = {}
    Threshold = 2
    MaxMaster = 2
    MaxVersions = 2
SYMMETRY HandlerSymmetry
INVARIANT
    FailedMeansRolledBack
