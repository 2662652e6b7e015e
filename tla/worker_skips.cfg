SPECIFICATION Spec
CONSTANTS
    A = A
    B = B
    i1 = i1
    Workers = {w1, w2}
    Partitions = {p1}
    Idents = {i1}
    Clusters = {A, B}
    Registered = {A, B}
    Malformed = Malformed
    NoEvent = NoEvent
    NoBatch = NoBatch
    Loaded <- Earlier
    Events <- InSequence
    MaxAttempts = 1
    MaxPollRecords = 1
    MaxTopic = 2
    MaxFaults = 2
    DlqMayFail = TRUE
    LateWrites = FALSE
SYMMETRY Symmetric
INVARIANTS AckedSettled
CHECK_DEADLOCK FALSE
