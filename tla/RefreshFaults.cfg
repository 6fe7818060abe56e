CONSTANTS
    Wallets = {w1}
    Positions = {low, high}
    TrackedAtStart = {w1}
    IndexConcurrency = 1
    RiskConcurrency = 1
    FaultKinds = {"crash", "indexError", "riskError", "reorg", "repeat"}
    MaxFaults = 2
    MaxHeight = 2
    MaxRefreshes = 1
    MaxAttempts = 3
SPECIFICATION FairSpec
INVARIANTS LabelIsLowerBound  
PROPERTIES RefreshIsAnswered NewestRiskMatchesBlocks
CHECK_DEADLOCK FALSE
