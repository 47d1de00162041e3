\* SQLite: a caller's tag is found in the words of another tag.
CONSTANTS
    d1 = d1 d2 = d2 d3 = d3
    Chunks <- FourChunks
    DocOf <- Docs
    Acl <- Tags
    Words <- WordsOf
    AclWords <- ColumnOf
    Heading <- UnderOne
    Requests <- SomeRequests
    Kinds <- SqliteOnly
    Overfetch = 1
    RrfK = 2
    Weights <- BothWeights
    Scale = 60
    Configured <- AllRerankers
    MaxVariants = 3
    MaxWrites = 0
SPECIFICATION Spec
INVARIANTS
    TagsAreMatchedExactly
