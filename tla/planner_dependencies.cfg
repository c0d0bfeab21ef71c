SPECIFICATION Spec
CONSTANTS
    Tasks = {1, 2, 3}
    Blocks = {1, 2, 3}
    Problems <- OrderedProblems
    Configs <- APOnly
    Unit = 2
    MaxCost = 100
INVARIANT DependenciesRespected
