\* Two workers and two DELETE requests on one text check; leases outlive runs.
SPECIFICATION Spec
CONSTANTS
    c1 = c1
    c2 = c2
    c3 = c3
    w1 = w1
    w2 = w2
    d1 = d1
    d2 = d2
    alice = alice
    once = once
    noKey = noKey
    book = book
    essay = essay
    NoKey = noKey
    Checks <- OneCheck
    Workers <- TwoWorkers
    Deleters <- TwoDeletes
    Owner <- OwnedByAlice
    IdemKey <- Unkeyed
    DocumentMode <- NoChecks
    Documents <- TwoSources
    MaxActive = 2
    MaxAttempts = 2
    SlowWorkers = FALSE
    MaxCrashes = 1
    ClaimCap = 4
INVARIANTS
    TypeOK
    OneWorkerEach
    RunningIsReclaimable
    ClosedByItsEvent
    EndedHoldsNothing
    ResultsOfOneRun
PROPERTIES
    CancelIsHonoured
CHECK_DEADLOCK FALSE
