SPECIFICATION Spec
CONSTANTS
    Replicas = {r1, r2}
    Requests = {q1, q2}
    Clusters = {c0, c1}
    Collections = {k1}
    Base = c0
    Kinds = {"register", "unregister", "create", "tombstone", "alias", "unalias", "import"}
    Turns = FALSE
    Nil = Nil
    MaxFaults = 0
SYMMETRY Symmetric
INVARIANTS OneChangePerRevision
CHECK_DEADLOCK FALSE
