SPECIFICATION EntrySpec
CONSTANTS
    p1 = p1
    People = {u1, u2}
    Oldest = u1
    Teams = {g1, g2}
    Directory = {g2}
    Projects = {p1}
    Envs = {}
    ProjectOf <- MCProjectOf
    RoleRanks = {1, 3, 4}
    AccessCalls = {c1, c2}
    MaxGrants = 1
    MaxBoots = 1
    Members = {m1, m2}
    Authenticators = {a1, a2}
    Counterless = {a2}
    PasskeyCalls = {c1, c2}
    MaxCredentials = 2
    MaxChallenges = 3
    MaxCount = 2
    PasskeyFaults = 2
    Subjects = {s1, s2}
    OIDCUsers = {m1, m2}
    OIDCGroups = {d1}
    Callbacks = {c1, c2}
    MaxStates = 2
    MaxProvider = 2
    MaxMoves = 1
CONSTRAINT Explored
SYMMETRY EntrySymmetry
INVARIANTS
    OwnerLostOnlyByOverlap
    
    CeremonyOpensItsOwner
    LoginOpensOnce

    
    
CHECK_DEADLOCK FALSE
