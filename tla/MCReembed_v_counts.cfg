\* SQLite alone; a version is indexed again with other chunks.
SPECIFICATION Spec
CONSTANTS
    v1 = v1
    v2 = v2
    w1 = w1
    d1 = d1
    d2 = d2
    small = small
    large = large
    large2 = large2
    none = none
    None = none
    Versions <- ThreeVersions
    DocOf <- TwoDocuments
    Layouts <- Cuts
    Models <- ThreeModels
    Dim <- Dims
    Kinds <- SqliteOnly
    Alone <- SqliteOnly
    BatchSize = 1
    MaxPublishes = 3
    MaxStarts = 3
INVARIANTS
    CountsAgree
CHECK_DEADLOCK FALSE
