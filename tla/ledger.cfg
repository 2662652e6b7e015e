SPECIFICATION Spec
CONSTANTS
    Idents = {1}
    Targets = {a, b}
    Routes <- Everywhere
    Limit = 2
    Nil = Nil
    MaxSeq = 3
    MaxRestores = 2
    MaxFaults = 1
CHECK_DEADLOCK FALSE
INVARIANTS
    NothingResurrected
    ReceiptIsCurrent
PROPERTIES
    Reopens
