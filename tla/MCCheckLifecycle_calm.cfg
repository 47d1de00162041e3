\* Nobody deletes an active check: crashes, failures and retries only.
\* Three requests of one credential, two of them one keyed request repeated.
SPECIFICATION FairSpec
CONSTANTS
    c1 = c1
    c2 = c2
    c3 = c3
    w1 = w1
    w2 = w2
    d1 = d1
    d2 = d2
    alice = alice
    once = once
    noKey = noKey
    book = book
    essay = essay
    NoKey = noKey
    Checks <- ThreeChecks
    Workers <- TwoWorkers
    Deleters <- NoDelete
    Owner <- OwnedByAlice
    IdemKey <- PairKeyed
    DocumentMode <- OneCheck
    Documents <- TwoSources
    MaxActive = 1
    MaxAttempts = 2
    SlowWorkers = FALSE
    MaxCrashes = 2
    ClaimCap = 4
PROPERTIES
    OnlyTableMoves
    KeepsPromise
    EverySettles
CHECK_DEADLOCK FALSE
