SPECIFICATION LiveSpec
CONSTANTS
    Replicas = {r1}
    Requests = {q1, q2}
    Clusters = {c0, c1}
    Collections = {k1}
    Base = c0
    Kinds = {"register", "unregister"}
    Turns = FALSE
    Nil = Nil
    MaxFaults = 0
CHECK_DEADLOCK FALSE
PROPERTIES
    Converges
