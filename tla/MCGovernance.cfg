SPECIFICATION GovernanceSpec
CONSTANTS
    Users = {v1, v2}
    Writers = {w1}
    Approvers = {c1, c2}
    Edits = {q1}
    Promos = {m1}
    MaxCommits = 2
    MaxFaults = 1
    AuditCalls = {c1, c2}
    MaxEvents = 3
    MaxAlterations = 1
    ShipBatch = 1
    RetainEvents = {0, 1}
    TransitCalls = {c1, c2}
    MaxKeys = 2
    MaxKeyVersion = 3
    MaxMaterial = 3
CONSTRAINT Explored
SYMMETRY GovernanceSymmetry
INVARIANTS
    DecisionsAgree
    
    CheckpointsVouchForIntactEvents
    VerdictIsEarned
    PruneTakesNothingNeeded
    EnvelopesStayOpenable
CHECK_DEADLOCK FALSE
