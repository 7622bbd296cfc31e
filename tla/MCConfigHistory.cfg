SPECIFICATION Spec
CONSTANTS
    Keys = {k1, k2}
    Readers = {r1}
    Promotions = {p1}
    Floor = 1
    Keeps = {0, 1}
    MaxVersion = 3
SYMMETRY HistorySymmetry
INVARIANTS
    RetentionIsExact
    PendingSourceRetained
    TombstonesAreTheRemovals
    
PROPERTY
    ImplementsVersionLog
CHECK_DEADLOCK FALSE
