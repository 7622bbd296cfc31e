SPECIFICATION AutomationSpec
CONSTANTS
    Rotators = {"postgres", "oauth", "aws_iam"}
    v1 = v1
    Credentials = {v1, v2, v3, v4}
    NoValue = none
    RotateCalls = {c1}
    Threshold = 1
    MaxKEK = 2
    RotationFaults = 1
    Retention = 1
    HistoryCap = 2
    MaxClock = 3
    MaxInits = 2
    MaxVersion = 2
    BackupFaults = 2
    MaxChannels = 2
    Kinds = {k1}
    Quiet = quiet
    MaxEvents = 2
    FanoutBatch = 1
    DeliverBatch = 2
    MaxAttempts = 2
    NotifyFaults = 1
    MaxEdits = 1
    MaxNotices = 2
CONSTRAINT Explored
SYMMETRY AutomationSymmetry
INVARIANTS
    RotationRecovers
    BackupsHold
    NoticesAreAccountedFor
CHECK_DEADLOCK FALSE
