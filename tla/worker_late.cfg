SPECIFICATION Spec
CONSTANTS
    A = A
    B = B
    i1 = i1
    Workers = {w1, w2}
    Partitions = {p1}
    Idents = {i1}
    Clusters = {A, B}
    Registered = {A, B}
    Malformed = Malformed
    NoEvent = NoEvent
    NoBatch = NoBatch
    Loaded <- Current
    Events <- InSequence
    MaxAttempts = 2
    MaxPollRecords = 1
    MaxTopic = 2
    MaxFaults = 1
    DlqMayFail = FALSE
    LateWrites = TRUE
SYMMETRY Symmetric
INVARIANTS FenceHolds
CHECK_DEADLOCK FALSE
