CONSTANTS
    Addresses = {a1, a2}
    Handlers = {h1, h2}
    MaxSockets = 2
    MaxFaults = 1
SPECIFICATION RealtimeFairSpec
INVARIANT OneSocketSpeaks
PROPERTY RoomsFollowHandlers
CHECK_DEADLOCK FALSE
