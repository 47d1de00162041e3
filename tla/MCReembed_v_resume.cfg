\* A killed re-embedding is resumed at the id the runbook works out from the points.
SPECIFICATION Spec
CONSTANTS
    v1 = v1
    v2 = v2
    w1 = w1
    d1 = d1
    d2 = d2
    small = small
    large = large
    large2 = large2
    none = none
    None = none
    Versions <- ThreeVersions
    DocOf <- TwoDocuments
    Layouts <- Cuts
    Models <- ThreeModels
    Dim <- Dims
    Kinds <- BothKinds
    Alone <- SqliteOnly
    BatchSize = 1
    MaxPublishes = 3
    MaxStarts = 3
INVARIANTS
    ResumedIsComplete
CHECK_DEADLOCK FALSE
