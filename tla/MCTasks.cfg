SPECIFICATION RunSpec
CONSTANTS
    CheckpointEpochs = 3
    KeepSteps = 1
    EvalTrainers = {t1, t2}
    NumDocs = 3
    EvalLimit = 2
    LastDoc = 6
    PromptBuffer = 1
    EvalPauses = 1
    NumThreads = 3
    MicroBatches = 2
    BootsInTime = TRUE
    MaxOperations = 2
    GossipSelf = me
    GossipPeers = {g1}
    Rosters <- MCRosters
    GossipSteps = 3
    MaxBootstrapPeers = 1
CHECK_DEADLOCK FALSE
INVARIANTS
    EvaluationInv
    TrainerInv
PROPERTIES
    CheckpointsCorrect
    TrainersComeBack
    OperationReturns
    GossipCorrect
