SPECIFICATION DeliverySpec
CONSTANTS
    Slugs = {s, t}
    Keys = {k1, k2}
    Coords <- MCCoords
    MaxRows = 10
    MaxChanges = 2
    MaxRefs = 2
    MaxRefChanges = 1
    MaxDepth = 3
    SyncProviders = {"github", "k8s"}
    SyncKeys = {"A", "B"}
    ReservedNames = {"B"}
    MaxSyncValue = 2
    Destinations = {d1, d2}
    SyncCalls = {n1}
    SyncThreshold = 1
    MaxEdits = 1
    SyncFaults = 1
CONSTRAINT Explored
SYMMETRY DeliverySymmetry
INVARIANTS
    TreeHolds
    RevealIsAccountedFor
    AnswerIsTheTruth
    
 
CHECK_DEADLOCK FALSE
