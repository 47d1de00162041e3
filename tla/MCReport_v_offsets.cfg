\* Documents with line breaks inside their sections.
SPECIFICATION Spec
CONSTANTS
    d1 = d1
    d2 = d2
    d3 = d3
    None = None
    TargetChars = 6
    OverlapChars = 2
    MinChars = 2
    MaxChars = 10
    MaxWindow = 4
    K = 2
    W = 3
    Hash <- RankOf
    Seed = 4
    Passage = 5
    ZhSeed = 3
    ZhPassage = 4
    MinEffective = 3
    PerChunk = 2
    Overlap = 1
    Lookahead = 2
    MergeGap = 2
    TopK = 3
    Titles <- Three
    Drafts <- ThreeDrafts
    Queries <- SomeQueries
    Languages <- AllLanguages
    RatioNum = 2
    RatioDen = 3
INVARIANTS
    OffsetsLineUp
CHECK_DEADLOCK FALSE
