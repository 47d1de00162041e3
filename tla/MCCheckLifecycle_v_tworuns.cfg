\* Leases may run out under live workers; one document check, one DELETE.
SPECIFICATION Spec
CONSTANTS
    c1 = c1
    c2 = c2
    c3 = c3
    w1 = w1
    w2 = w2
    d1 = d1
    d2 = d2
    alice = alice
    once = once
    noKey = noKey
    book = book
    essay = essay
    NoKey = noKey
    Checks <- OneCheck
    Workers <- TwoWorkers
    Deleters <- OneDelete
    Owner <- OwnedByAlice
    IdemKey <- Unkeyed
    DocumentMode <- OneCheck
    Documents <- TwoSources
    MaxActive = 2
    MaxAttempts = 2
    SlowWorkers = TRUE
    MaxCrashes = 1
    ClaimCap = 3
INVARIANTS
    ResultsOfOneRun
CHECK_DEADLOCK FALSE
