SPECIFICATION Spec
CONSTANTS
    Replicas = {r1, r2}
    Requests = {q1, q2}
    Clusters = {c0, c1}
    Collections = {k1}
    Base = c0
    Kinds = {"create", "tombstone"}
    Turns = TRUE
    Nil = Nil
    MaxFaults = 0
SYMMETRY Symmetric
INVARIANTS ConflictLeavesNothing
CHECK_DEADLOCK FALSE
