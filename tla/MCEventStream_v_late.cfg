\* A worker may be late: a second run starts while the first goes on.
SPECIFICATION Spec
CONSTANTS
    w1 = w1
    w2 = w2
    p1 = p1
    p2 = p2
    Workers <- TwoWorkers
    Pages <- OnePage
    Limit = 2
    MaxAttempts = 2
    SlowWorkers = TRUE
    ClaimCap = 2
    MaxBreaks = 2
INVARIANTS
    NothingSkipped
CHECK_DEADLOCK FALSE
