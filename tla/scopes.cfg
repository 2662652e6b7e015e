SPECIFICATION Spec
CONSTANTS
    Threads = {t1, t2, t3}
    Keys = {1, 2}
    Events <- MCEvents
    Objects = {o1, o2, o3, o4}
    NoObject = NoObject
    MaxScopes = 4
    MaxFaults = 1
SYMMETRY Interchangeable
CHECK_DEADLOCK FALSE
INVARIANTS
    Exclusive
    NeverDeadlocked
    NothingKept
PROPERTIES
    ProgressStored
