SPECIFICATION RunSpec
CONSTANTS
    TokenSize = 2
    SeqLen = 2
    NumFiles = 2
    MaxFile = 11
    MaxRows = 4
    NumProviders = 2
    MaxProvider = 3
    MaxWeight = 3
    MaxBatch = 3
    MaxNodes = 4
    ShuffleRounds = 2
    MaxWitnesses = 3
    MaxRoundBatch = 6
    SelectionSteps = 4
    TokensOf = 1
    Percents = {0, 50, 100, 101}
    WarmupTokens = {0, 8}
    MaxSize = 130
    MaxTarget = 12
    PlaneSizes = {1, 2, 3, 4, 6}
    IndexCounts = {1, 255, 256, 257, 65535, 65536, 65537}
    DistroClients = {d1, d2}
    TrainingRounds = 2
    BatchesOf <- MCBatchesOf
    CompressionTopk = 1
    DistroGradients <- MCGradients
    DistroResidues <- MCResidues
    LearningRates <- MCLearningRates
    QuantizeOneBit = TRUE
    Values = {0, 1, 2}
    Default = 0
    N = 4
    Writers = {w1, w2}
    NumRequests = 3
    RequestLength = 2
    MaxContext = 3
    MaxTokens = 3
    PassLimit = 2
    LastPosition = 5
    MaxAbsences = 2
    MaxLr = 2
    MaxWarmup = 3
    MaxSchedule = 12
    Spans = {1, 2, 3}
    HiddenFeatures = 6
    MaxTpWorld = 4
    MaxHeads = 8
    MaxPartSize = 10
    MaxSamples = 6
    MaxTrainers = 3
    MaxMicroBatch = 3
    MaxTrainBatches = 2
    GradVariables = 2
    SharePeers = {s1, s2}
    ModelParams <- MCModelParams
    MaxErrorsPerPeer = 2
    MaxRequestAttempts = 3
    MaxConcurrent = 2
    ShareEpochs = 2
    FetchSteps = 3
    StepBatches = 2
    FetchRetries = 1
    SampleBuffer = 1
    TcpPeers = {peer}
    TcpConnections = 2
    TcpQueue = 1
    TcpBroadcasts = 3
CHECK_DEADLOCK FALSE
INVARIANT
    SameModel
