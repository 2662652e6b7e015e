SPECIFICATION Spec
CONSTANTS
    Docs = {1, 2}
    Values <- MCValues
    Clients <- MCClients
    NoPriority = NoPriority
    Policies <- Whole
    Historic = {}
    Replicas = {r1, r2}
    Operators = {o1}
    Lapses = {}
    Nil = Nil
    MaxDocuments = 1
    MaxLag = 0
    MaxLog = 1
    MaxVersion = 11
    MaxFaults = 1
SYMMETRY Symmetry
CHECK_DEADLOCK FALSE
INVARIANTS
    NoHiddenDocument
PROPERTIES
    ProgressKept
    CutoverExact
