CONSTANTS
    Wallets = {w1}
    Calls = {"call"}
    Kinds = {"write", "scan"}
    Authed = {"write"}
    Limited = {"scan"}
    Idempotent = {"scan"}
    MaxRetries = 1
    Limit = 1
    MaxEvents = 2
SPECIFICATION FairSpec
INVARIANTS EffectsHappenOnce SessionIsWhole
PROPERTIES UnauthorizedWasRetried 
CHECK_DEADLOCK FALSE
