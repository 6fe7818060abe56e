CONSTANTS
    Endpoints = {hook1}
    RetrySteps = 3
    FaultKinds = {"dbError", "queueError", "crash", "edit"}
    MaxFaults = 2
    MaxEvents = 1
    MaxAttempts = 3
SPECIFICATION FairSpec
INVARIANTS FinalAnswerEnds RepeatsAreFaults ScheduleIsUsedUp
PROPERTY DeliveriesEnd
CHECK_DEADLOCK FALSE
