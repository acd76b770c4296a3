SPECIFICATION RunSpec
CONSTANTS
    WorldSize = 3
    NumLocalRanks = 2
    StartRank = 2
    NumRemoteRanks = 2
    Tensors <- MCTensors
    Params = 1
    GradAccumSteps = 2
    MaxIterations = 2
    DataParallelism = 2
    TensorParallelism = 2
    MaxDevices = 4
    Versions <- MCVersions
CHECK_DEADLOCK FALSE
INVARIANTS
    SidecarsInv
PROPERTIES
    NoRankHangs
    InitRunCorrect
    ManagerCorrect
