\* Three documents are published, replaced and deleted while searches read
\* the index, on both deployments.
CONSTANTS
    d1 = d1 d2 = d2 d3 = d3
    Chunks <- FourChunks
    DocOf <- Docs
    Acl <- Tags
    Words <- WordsOf
    AclWords <- ColumnOf
    Heading <- UnderOne
    Requests <- SomeRequests
    Kinds <- BothKinds
    Overfetch = 2
    RrfK = 2
    Weights <- BothWeights
    Scale = 60
    Configured <- AllRerankers
    MaxVariants = 3
    MaxWrites = 2
SPECIFICATION Spec
INVARIANTS
    TypeOK
    ResultsAreOfTheIndex
    FullOrComplete
    AgreedOrderIsKept
