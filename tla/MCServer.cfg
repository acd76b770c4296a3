SPECIFICATION ServerSpec
CONSTANTS
    c1 = c1
    c2 = c2
    nobody = nobody
    ClientIds = {c1, c2, nobody}
    Peers = {c1, c2}
    NoIdentity = nobody
    Messages = {"Join"}
    MaxClients = 2
    MaxWitnesses = 2
    NumStoredRounds = 2
    SeqLen = 1
    Configs <- MCAllConfigs
    Repos = {"repo"}
    Seeds = {0}
    Shuffle <- ServerShuffle
    MaxAge = 1
    MaxConnections = 1
    MaxQueue = 1
    ServerConfigs <- MCServerConfigs
    InitWarmupTimes = {0}
    WithdrawOnDisconnect = TRUE
    HostsData = FALSE
    ServerBlooms <- MCServerBlooms
    ServerCheckpoint <- MCServerCheckpoint
    MaxInterventions = 1
SYMMETRY MCServerSymmetry
CHECK_DEADLOCK FALSE
INVARIANTS
    ServerInv
PROPERTIES
    AdmitsRightClients
