CONSTANTS
    MaxAttempts = 2
    FaultKinds = {"indexError", "fetchError", "drop", "timeout", "reload"}
    MaxFaults = 2
    MaxJobs = 2
SPECIFICATION FairSpec
PROPERTY PageCatchesUp
 
CHECK_DEADLOCK FALSE
