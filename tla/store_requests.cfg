SPECIFICATION ScenarioSpec
CONSTANTS
    m1 = m1
    m2 = m2
    m3 = m3
    s1 = s1
    s2 = s2
    Scenarios = {"faults", "together", "alone"}
    Absent = Absent
    Unlinked = Unlinked
    Workspaces = {w1, w2}
    Manifests = {m1, m2, m3}
    Schedules = {s1, s2}
    Keys = {k1}
    Imports <- BothImports
    Clients = {c1, c2}
    Reimports = TRUE
    MaxFailures = 2
    MaxCrashes = 1
INVARIANTS
    TypeOK
    FilesAgree
    AnswersStand
    AckedIsDurable
PROPERTIES
    AloneLosesNothing
    RefinesMembership
