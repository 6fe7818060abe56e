CONSTANTS
    Principals = {owner, publisher}
    Deployer = owner
    NoPrincipal = none
    Wallets = {w1}
    Readings <- Mixed
    MaxAge = 2
    MaxHeight = 1
    MaxSnapshots = 5
    Publisher = publisher
    MinIntervalBlocks = 1
    RiskConcurrency = 2
    MaxAttempts = 2
    FaultKinds = {"riskError", "publishError", "crash", "revoke", "reorg", "repeat"}
    MaxFaults = 2
    MaxRiskJobs = 2
    MaxAttestations = 5
SPECIFICATION FairSpec
INVARIANTS ConfirmedIdIsOnChain
PROPERTIES NoResendOnceRecorded EveryJobSettles
CHECK_DEADLOCK FALSE
