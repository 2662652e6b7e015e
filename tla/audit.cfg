SPECIFICATION DeliverySpec
CONSTANTS
    Workers = {w1, w2}
    PageLimit = 2
    NoAttempt = NoAttempt
    MaxAudit = 3
    MaxMishaps = 2
CHECK_DEADLOCK FALSE
INVARIANTS
    CursorCovered
    SinkGapFree
PROPERTIES
    Delivered
