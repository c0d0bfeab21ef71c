SPECIFICATION FairPipelineSpec
CONSTANTS
    NoCursor = NoCursor
    InvalidIds = {"../m"}
    Rejected = Rejected
    Unknown = Unknown
    KeyTails = 2
    None = None
    NotFound = NotFound
    BadRequest = BadRequest
    InvalidManifest = InvalidManifest
    d1 = d1
    d2 = d2
    x = x
    y = y
    b = b
    e1 = e1
    e2 = e2
    h1 = h1
    h2 = h2
    s1 = s1
    s2 = s2
    a1 = a1
    b1 = b1
    c1 = c1
    Datasets = {d1, d2}
    Contents = {x, y, b}
    Configs = {e1, e2}
    Hashes = {h1, h2}
    Broken = {b}
    NoSchedule = NoSchedule
    Outcomes <- MCOutcomes
    Sweeps = {s1, s2}
    CellsOf <- MCCellsOf
    MaxParallel = 2
    Legacy <- MCLegacy
    Missing = Missing
    Absent = Absent
    Null = Null
    MaxStarts = 2
    MaxEdits = 1
    MaxFaults = 1
    Publishers = {a1, b1, c1}
    FilesOf <- MCFiles
    Creates = {a1, b1}
    ChunkSize = 2
    Retries = 1
    Opened = FALSE
    MaxRefusals = 1
    MaxServerFaults = 1
INVARIANTS
    CellsAreWhatWasAsked
    RankingsAreConsistent
    ViewsAreConsistent
    PipelineTypeOK
    LinkedRunsHaveOwnBody
    RecordsAreTruthful
    ReportsAreHonest
PROPERTIES
    StoredStays
    WorkEnds
    JoinsOnce
CHECK_DEADLOCK FALSE
