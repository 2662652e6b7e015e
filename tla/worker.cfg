SPECIFICATION Spec
CONSTANTS
    A = A
    B = B
    i1 = i1
    Workers = {w1, w2}
    Partitions = {p1}
    Idents = {i1}
    Clusters = {A, B}
    Registered = {A, B}
    Malformed = Malformed
    NoEvent = NoEvent
    NoBatch = NoBatch
    Loaded <- Outdated
    Events <- Conflicting
    MaxAttempts = 2
    MaxPollRecords = 2
    MaxTopic = 3
    MaxFaults = 2
    DlqMayFail = TRUE
    LateWrites = TRUE
SYMMETRY Symmetric
INVARIANTS TypeOK
PROPERTIES CheckpointsAdvance OffsetsAdvance
CHECK_DEADLOCK FALSE
