\* One worker: a version is built when another one is current.
SPECIFICATION Spec
CONSTANTS
    v1 = v1
    v2 = v2
    w1 = w1
    c1 = c1
    None = None
    Versions <- TwoVersions
    Workers <- OneWorker
    Checks <- NoChecks
    MaxAttempts = 2
    Retention = 1
    MaxCrashes = 0
    MaxDeletions = 0
    MaxClock = 0
INVARIANTS
    ReadyIsComplete
CHECK_DEADLOCK FALSE
