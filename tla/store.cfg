SPECIFICATION Spec
CONSTANTS
    A = A
    B = B
    Idents = {i1, i2}
    Clusters = {A, B}
    Keys = {k1, repair}
    RepairKeys = {repair}
    Bodies = {v1, v2}
    Sessions = {c1, c2}
    Routes <- MCRoutes
    NoDraft = NoDraft
    NoRow = NoRow
    MaxPos = 3
SYMMETRY Symmetric
CHECK_DEADLOCK FALSE
INVARIANTS
    AnsweredIsDurable
PROPERTIES
    ImplementsLog
