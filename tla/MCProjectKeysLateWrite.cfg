SPECIFICATION Spec
CONSTANTS
    RowCount = 2
    Requests = {}
    Writers = {w1}
    Sweepers = {s1}
    Readers = {}
    BatchSize = 1
    MaxVersion = 3
INVARIANT
    NoStrandedDEK
