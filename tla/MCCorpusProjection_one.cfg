\* One plagiarism worker, two versions, one check, a crash, a deletion.
SPECIFICATION Spec
CONSTANTS
    v1 = v1
    v2 = v2
    w1 = w1
    c1 = c1
    None = None
    Versions <- TwoVersions
    Workers <- OneWorker
    Checks <- OneCheck
    MaxAttempts = 2
    Retention = 1
    MaxCrashes = 1
    MaxDeletions = 1
    MaxClock = 3
INVARIANTS
    TypeOK
    WindowsAreDisjoint
    SnapshotResolves
    AttemptsAreBounded
CHECK_DEADLOCK FALSE
