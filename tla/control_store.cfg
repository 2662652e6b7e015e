SPECIFICATION StoreSpec
CONSTANTS
    Writers = {w1, w2}
    Dispatchers = {d1, d2}
    HeldRevisions = {}
    BatchSize = 1
    MaxUnpublished = 1
    Nil = Nil
    MaxEntries = 3
    MaxFaults = 1
CHECK_DEADLOCK FALSE
INVARIANTS
    RevisionAccounted
    PublishedAnnounced
PROPERTIES
    Implements
    Announces
