SPECIFICATION FairSpec
CONSTANTS
    t1 = t1
    t2 = t2
    Task <- TwoTasks
    Configs <- Config
    Levels <- SomeLevels
    Strays = {1}
    Threshold = 2
    HardCap = 3
    RefireStep = 1
    MaxContext = 3
    MaxCompacts = 1
INVARIANTS TypeOK HandoffOnce
PROPERTIES EndIsHeard NobodyStranded LoopsEnd
