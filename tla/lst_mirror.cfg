SPECIFICATION Spec
CONSTANTS
    Tasks = {1, 2, 3}
    Cursors = {0}
    Horizon <- MCHorizon
    Layouts <- BackwardLayout
    Problems <- FreeProblems
    SoftScore <- MCSoftScore
    KBeams = 2
    Branching = 2
    EndangeredThreshold = 2
    NoCursor = NoCursor
PROPERTY
    LstIsReflectedEst
