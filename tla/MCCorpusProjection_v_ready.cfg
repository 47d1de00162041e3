\* A document is deleted and uploaded again.
SPECIFICATION FairSpec
CONSTANTS
    v1 = v1
    v2 = v2
    w1 = w1
    c1 = c1
    None = None
    Versions <- OneVersion
    Workers <- OneWorker
    Checks <- NoChecks
    MaxAttempts = 2
    Retention = 1
    MaxCrashes = 0
    MaxDeletions = 1
    MaxClock = 0
PROPERTIES
    BecomesReady
CHECK_DEADLOCK FALSE
