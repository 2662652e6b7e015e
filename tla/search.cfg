SPECIFICATION Spec
CONSTANTS
    Clusters = {c1, c2}
    Ids = {1, 2, 3}
    Scores = {1, 2}
    Limits = {1, 2}
    ProviderMax = 2
    MaxDeep = 3
    OrderedTies = TRUE
    Nil = Nil
    ChangesDuring = {"lookup"}
    MaxWrites = 1
    MaxFaults = 1
SYMMETRY ClusterSymmetry
CHECK_DEADLOCK FALSE
INVARIANTS
    PageIsExact
    CountsAreHonest
    SessionReadsAll
    MissingIsMissing
