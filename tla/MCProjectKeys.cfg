SPECIFICATION Spec
CONSTANTS
    RowCount = 3
    Requests = {q1}
    Writers = {w1}
    Sweepers = {s1, s2}
    Readers = {g1}
    BatchSize = 2
    MaxVersion = 3
SYMMETRY ActorSymmetry
CONSTRAINT ReadsApart
INVARIANTS
    StrandedOnlyByRetiringAHeldVersion
    RetryFailsOnlyWhenOvertaken
