CONSTANTS
    s1 = s1
    s2 = s2
    h1 = h1
    h2 = h2
    Scan = {s1, s2}
    Size <- MCSize
    Hash = {h1, h2}
    Batches <- MCBatches
    SmallThreshold = 3
    LargeThreshold = 7
    GeneratedDisabled = FALSE
    MaxInflight = 2
    CallBudget = 2
    NoPriority = NoPriority
    NoFile = NoFile
    NoAnswer = NoAnswer
    Empty = Empty
    Garbled = Garbled
SPECIFICATION Spec
INVARIANTS
    BudgetIsExact
    NoDuplicateCall
    CacheHitIsGenuine
PROPERTIES
    EveryScanEnds
CHECK_DEADLOCK FALSE
