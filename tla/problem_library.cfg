SPECIFICATION MCLibrarySpec
CONSTANTS
    Unit = 60
    NotPlaced = NotPlaced
    Blocked = Blocked
    NoPlacement = NoPlacement
    Default = Default
    MaxNesting = 2
    MaxDnfBranches = 3
    TooLarge = TooLarge
    NoExpression = NoExpression
    Failed = Failed
    Tasks = {1, 2, 3}
    Instants <- MCInstants
    Lasts <- MCDuration
    MaxEntries = 4
    BlockIds = {1, 2}
    Duration <- MCDuration
    Feasible <- MCFeasible
    MaxBlocks = 3
    MaxEdges = 2
    NoBlock = NoBlock
    Unplaced = Unplaced
    Nowhere = Nowhere
    Items = {1, 2, 3}
    Windows = {1, 2}
    DynamicKeys = {"d", "e"}
    NoDynamic = NoDynamic
    Error = Error
    Pending = Pending
    Evaluations <- MCEvaluations
    p1 = p1
    p2 = p2
    k1 = k1
    k2 = k2
    a2 = a2
    Queries = {r1, r2, r3}
    Problems = {p1, p2}
    CacheKeys = {k1, k2}
    Answers = {a1, a2}
    Nothing = Nothing
    NoFile = NoFile
    IoError = IoError
    Unanswered = Unanswered
    MaxCacheFaults = 1
ACTION_CONSTRAINT SmallBlocks
INVARIANTS
    PeriodSetsAreSets
    BranchesMeanTheExpression
    StagedChecksAgree
    MeasuresMeanWhatTheySay
    TreeIsTheBag
    LibraryTypeOK
    ProblemIsSound
    MemoIsTransparent
    CacheIsTransparent
PROPERTIES
    PlacedAfterPredecessors
CHECK_DEADLOCK FALSE
