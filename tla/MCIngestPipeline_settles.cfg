\* Two workers on two jobs, a crash, a job put back by hand, fair polling and time.
SPECIFICATION FairSpec
CONSTANTS
    v1 = v1
    v2 = v2
    j1 = j1
    j2 = j2
    j3 = j3
    w1 = w1
    w2 = w2
    None = None
    Versions <- TwoVersions
    Jobs <- TwoJobs
    Workers <- TwoWorkers
    MaxAttempts = 2
    SlowWorkers = FALSE
    MaxCrashes = 1
    MaxRevivals = 1
INVARIANTS
    OneWorkerPerJob
    IndexedIsStored
    AttemptsAreBounded
PROPERTIES
    CompletedIsFinal
    JobsSettle
CHECK_DEADLOCK FALSE
