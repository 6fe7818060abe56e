CONSTANTS
    Metrics <- OneMetric
    Values = {1, 2}
    Null = null
    LocalRules <- OneRule
    PolicyChecks <- Checks
    Policies <- OnePerCheck
    MaxMinHealthFactorE4 = 3
    AlertConcurrency = 2
    FaultKinds = {"alertError", "policyError", "mailError", "crash", "edit"}
    MaxFaults = 2
    MaxSnapshots = 3
    MaxHeight = 1
    MaxAttempts = 3
SPECIFICATION Spec
INVARIANTS   NoDoubleSend CrossingsAreMailed
CHECK_DEADLOCK FALSE
