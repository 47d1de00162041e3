\* Both deployments; on SQLite the worker is stopped while a tool runs.
SPECIFICATION Spec
CONSTANTS
    v1 = v1
    v2 = v2
    w1 = w1
    d1 = d1
    d2 = d2
    small = small
    large = large
    large2 = large2
    none = none
    None = none
    Versions <- ThreeVersions
    DocOf <- TwoDocuments
    Layouts <- Cuts
    Models <- ThreeModels
    Dim <- Dims
    Kinds <- BothKinds
    Alone <- SqliteOnly
    BatchSize = 1
    MaxPublishes = 2
    MaxStarts = 3
INVARIANTS
    TypeOK
    EveryChunkIsEmbedded
    LexicalIsExact
    GoneIsGone
CHECK_DEADLOCK FALSE
