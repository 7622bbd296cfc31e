SPECIFICATION BackgroundSpec
CONSTANTS
    Leases = {l1, l2}
    Requests = {c1}
    Passes = {p1}
    TTLs = {1}
    Grace = 1
    BatchLimit = 2
    Broken = {l1}
    MaxTime = 2
    MaxFaults = 1
    MaxChannels = 2
    Kinds = {k1}
    Quiet = quiet
    MaxEvents = 1
    FanoutBatch = 1
    DeliverBatch = 2
    MaxAttempts = 2
    NotifyFaults = 1
    MaxEdits = 1
    MaxNotices = 2
PROPERTIES
    
    EveryNoticeIsSettled
CHECK_DEADLOCK FALSE
