CONSTANTS
    Principals = {alice, bob}
    Deployer = alice
    NoPrincipal = none
    Wallets = {w1}
    Readings <- MCReadings
    MaxAge = 1
    MaxHeight = 2
    MaxSnapshots = 2
    Protocols = {zest}
    Descriptors = {v1, v2}
    MinHealthFactorE4 = 12500
    MaxConcentrationBps = 6000
    MaxApprovals = 1
    MaxAdminCalls = 3
SPECIFICATION Spec
INVARIANTS TypeOK FreshReadIsComplete NominationIsCurrent ApprovalsAreAuditable AdapterChangeIsVisible
PROPERTY ImplementsLog
CHECK_DEADLOCK FALSE
