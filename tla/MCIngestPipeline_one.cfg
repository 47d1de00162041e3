\* One worker: uploads of two contents, deletions, reindexing, a crash.
SPECIFICATION Spec
CONSTANTS
    v1 = v1
    v2 = v2
    j1 = j1
    j2 = j2
    j3 = j3
    w1 = w1
    w2 = w2
    None = None
    Versions <- TwoVersions
    Jobs <- ThreeJobs
    Workers <- OneWorker
    MaxAttempts = 2
    SlowWorkers = FALSE
    MaxCrashes = 1
    MaxRevivals = 0
INVARIANTS
    TypeOK
    OnlyCurrentStored
PROPERTIES
    KeepsPromise
CHECK_DEADLOCK FALSE
