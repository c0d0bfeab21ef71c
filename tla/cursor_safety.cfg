SPECIFICATION Spec
CONSTANTS
    Tasks = {1, 2, 3}
    Cursors = {0, 1}
    Horizon <- MCHorizon
    Layouts <- AllLayouts
    Problems <- MCProblems
    SoftScore <- MCSoftScore
    KBeams = 2
    Branching = 2
    EndangeredThreshold = 2
    NoCursor = NoCursor
INVARIANTS
    TypeOK
    PlansAreValid
    NothingLeftBehind
    FrontiersNeverCross
    NoOptionIsLost
    RoundsPlaceOneTask
PROPERTIES
    SearchesPlans
