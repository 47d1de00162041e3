\* One worker: an ingest job is retried after the deletion.
SPECIFICATION Spec
CONSTANTS
    v1 = v1
    v2 = v2
    j1 = j1
    j2 = j2
    j3 = j3
    w1 = w1
    w2 = w2
    None = None
    Versions <- TwoVersions
    Jobs <- TwoJobs
    Workers <- OneWorker
    MaxAttempts = 2
    SlowWorkers = FALSE
    MaxCrashes = 0
    MaxRevivals = 0
INVARIANTS
    DeletedIsEmpty
CHECK_DEADLOCK FALSE
