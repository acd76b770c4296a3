SPECIFICATION RunSpec
CONSTANTS
    c1 = c1
    c2 = c2
    c3 = c3
    ClientIds = {c1, c2, c3}
    MaxClients = 3
    MaxWitnesses = 3
    NumStoredRounds = 2
    SeqLen = 1
    Configs <- MCConfigs
    Repos = {"repo"}
    Seeds = {0}
    Shuffle <- MCShuffle
    MaxAge = 1
    InitialCheckpoints <- MCCheckpoints
    Blooms <- MCBlooms
    Results = {d1}
    Parameters = {p1}
    MaxDownloadRetries = 1
    RetryTasks = {r1, r2}
    MaxFailures = 2
SYMMETRY Symmetry
CHECK_DEADLOCK FALSE
INVARIANTS
    Inv
    HistoricalClientsComplete
    DownloadsInv
PROPERTIES
    KeepsLedger
