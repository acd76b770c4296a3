SPECIFICATION FairSpec
CONSTANTS
    c1 = c1
    c2 = c2
    c3 = c3
    ClientIds = {c1, c2}
    MaxClients = 2
    MaxWitnesses = 2
    NumStoredRounds = 4
    SeqLen = 1
    Configs <- EpochConfigs
    Repos = {"repo"}
    Seeds = {0}
    Shuffle <- MCShuffle
    MaxAge = 3
    InitialCheckpoints <- MCCheckpoints
    Blooms = {{}}
CHECK_DEADLOCK FALSE
INVARIANTS
    LastStepAhead
PROPERTIES
    PauseHonoured
    EpochEnds
