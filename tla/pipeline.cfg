SPECIFICATION PipeSpec
CONSTANTS
    A = A
    B = B
    p1 = p1
    Partitions = {p1}
    Idents = {i1}
    Malformed = Malformed
    NoEvent = NoEvent
    NoBatch = NoBatch
    Loaded <- Current
    Events <- MCEvents
    MaxAttempts = 2
    MaxPollRecords = 1
    MaxTopic = 3
    MaxFaults = 1
    DlqMayFail = FALSE
    LateWrites = FALSE
    Keys = {k1, k2, repair}
    RepairKeys = {repair}
    Bodies = {v1, Deletion}
    Deletion = Deletion
    Routes <- OneRoute
    RepairRoutes <- Candidate
    PartitionOf <- OnePartition
    Publishers = {x1, x2}
    BatchSize = 2
    MaxMisses = 1
    MaxRows = 2
    SendMayDrop = FALSE
    Workers = {w1, w2}
    Clusters = {A, B}
    Registered = {A, B}
SYMMETRY Symmetric
CHECK_DEADLOCK FALSE
INVARIANTS
    TypeOK
    FenceHolds
    AckedSettled
    PublishedReachedKafka
    Converged
    NothingRejected
PROPERTIES
    CheckpointsAdvance
    OffsetsAdvance
