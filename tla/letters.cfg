SPECIFICATION Spec
CONSTANTS
    Events = {1, 2, 3}
    IdentOf <- MCIdentOf
    KindOf <- MCKindOf
    Operators = {o1, o2}
    Nil = Nil
    FirstCommit = 0
    MaxLetters = 4
    MaxReplays = 4
    MaxExpired = 1
    MaxFaults = 2
CHECK_DEADLOCK FALSE
INVARIANTS
    NothingForgotten
PROPERTIES
    LagEnds
