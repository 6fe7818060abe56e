CONSTANTS
    Addresses = {a1}
    Handlers = {h1}
    MaxSockets = 1
    MaxFaults = 0
SPECIFICATION RealtimeSpec
INVARIANTS CloseForgetsEverything
CHECK_DEADLOCK FALSE
