SPECIFICATION FairSpec
CONSTANTS
    A = A
    B = B
    i1 = i1
    Workers = {w1, w2}
    Partitions = {p1}
    Idents = {i1}
    Clusters = {A, B}
    Registered = {A, B}
    Malformed = Malformed
    NoEvent = NoEvent
    NoBatch = NoBatch
    Loaded <- Current
    Events <- InSequence
    MaxAttempts = 2
    MaxPollRecords = 1
    MaxTopic = 1
    MaxFaults = 1
    DlqMayFail = FALSE
    LateWrites = FALSE
PROPERTIES Drained
CHECK_DEADLOCK FALSE
