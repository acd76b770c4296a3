SPECIFICATION FairSpec
CONSTANTS
    NumThreads = 2
    MicroBatches = 2
    BootsInTime = FALSE
    MaxOperations = 1
CHECK_DEADLOCK FALSE
PROPERTY
    BarrierOpens
