SPECIFICATION LiveSpec
CONSTANTS
    Replicas = {r1, r2}
    Requests = {q1, q2}
    Clusters = {c0, c1}
    Collections = {k1}
    Base = c0
    Kinds = {"register", "unregister", "create", "tombstone", "alias", "import", "route", "reconcile"}
    Turns = TRUE
    Nil = Nil
    MaxFaults = 1
CHECK_DEADLOCK FALSE
INVARIANTS
    OneChangePerRevision
    RuntimeMatchesRevision
    AnswersAgree
PROPERTIES
    AppliedAdvances
    Converges
