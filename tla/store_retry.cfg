SPECIFICATION ScenarioSpec
CONSTANTS
    m1 = m1
    m2 = m2
    m3 = m3
    s1 = s1
    s2 = s2
    Scenarios = {"kept"}
    Absent = Absent
    Unlinked = Unlinked
    Workspaces = {w1}
    Manifests = {m1, m2}
    Schedules = {s1}
    Keys = {k1}
    Imports <- NoImports
    Clients = {c1}
    Reimports = FALSE
    MaxFailures = 1
    MaxCrashes = 0
INVARIANT AnsweredIsDurable
