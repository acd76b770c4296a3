SPECIFICATION Spec
CONSTANTS
    c1 = c1
    c2 = c2
    ClientIds = {c1, c2}
    MaxClients = 2
    MaxWitnesses = 2
    NumStoredRounds = 2
    SeqLen = 1
    Configs <- MCConfigs
    Repos = {"repo"}
    Seeds = {0}
    Shuffle <- MCShuffle
    MaxAge = 1
    UpdateCheckpoints <- MCCheckpoints
    Progresses <- SomeProgress
    EarningRates = {4}
    SlashingRates = {1}
    Blooms = {{}}
    MaxActive = 2
SYMMETRY MCSymmetry
INVARIANTS
    OnChainInvariant
    EpochFromRegistry
PROPERTIES
    FinishersPaidOnce
    RatesFixedInEpoch
