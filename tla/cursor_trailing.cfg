SPECIFICATION Spec
CONSTANTS
    Tasks = {1, 2, 3}
    Cursors = {0, 1}
    Horizon <- MCHorizon
    Layouts <- TrailingLayout
    Problems <- MCProblems
    SoftScore <- MCSoftScore
    KBeams = 2
    Branching = 2
    EndangeredThreshold = 2
    NoCursor = NoCursor
INVARIANT
    EstIsFirstValidOverlap
