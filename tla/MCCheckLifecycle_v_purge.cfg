\* One worker, one DELETE: an accepted cancel that purges nothing.
SPECIFICATION FairSpec
CONSTANTS
    c1 = c1
    c2 = c2
    c3 = c3
    w1 = w1
    w2 = w2
    d1 = d1
    d2 = d2
    alice = alice
    once = once
    noKey = noKey
    book = book
    essay = essay
    NoKey = noKey
    Checks <- OneCheck
    Workers <- OneWorker
    Deleters <- OneDelete
    Owner <- OwnedByAlice
    IdemKey <- Unkeyed
    DocumentMode <- NoChecks
    Documents <- TwoSources
    MaxActive = 2
    MaxAttempts = 2
    SlowWorkers = FALSE
    MaxCrashes = 0
    ClaimCap = 4
PROPERTIES
    CancelPurges
CHECK_DEADLOCK FALSE
