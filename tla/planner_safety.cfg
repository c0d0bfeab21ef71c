SPECIFICATION Spec
CONSTANTS
    Tasks = {1, 2, 3}
    Blocks = {1, 2, 3}
    Problems <- MCProblems
    Configs <- MCConfigs
    Unit = 2
    MaxCost = 100
INVARIANTS
    TypeOK
    SchedulesValid
PROPERTIES
    RepairIsFair
    BestNeverWorse
    AccumulatesBlocks
    Termination
