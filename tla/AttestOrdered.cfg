CONSTANTS
    Principals = {owner, publisher}
    Deployer = owner
    NoPrincipal = none
    Wallets = {w1, w2}
    Readings <- Publishable
    MaxAge = 2
    MaxHeight = 2
    MaxSnapshots = 4
    Publisher = publisher
    MinIntervalBlocks = 2
    RiskConcurrency = 1
    MaxAttempts = 2
    FaultKinds = {}
    MaxFaults = 0
    MaxRiskJobs = 3
    MaxAttestations = 4
SPECIFICATION FairSpec
INVARIANTS  NoRedundantAttestation
PROPERTIES ReadersCatchUp SkipsOnlyWhatReadersSee
CHECK_DEADLOCK FALSE
