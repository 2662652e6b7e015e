SPECIFICATION Spec
CONSTANTS
    Docs = {1, 2}
    Values <- MCValues
    Clients <- MCClients
    NoPriority = NoPriority
    Policies <- Whole
    Historic = {}
    Replicas = {r1}
    Operators = {o1}
    Lapses = {"unsettled"}
    Nil = Nil
    MaxDocuments = 1
    MaxLag = 0
    MaxLog = 1
    MaxVersion = 13
    MaxFaults = 0
SYMMETRY Symmetry
CHECK_DEADLOCK FALSE
INVARIANTS  NoHiddenDocument

