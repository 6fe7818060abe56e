CONSTANTS
    StreamTotal = 2
    IndexPrecision = 2
    MaxAmount = 1
    MaxRate = 2
    MaxHeight = 3
SPECIFICATION ReadsSpec
INVARIANTS DebtIsNeverUnderstated UntouchedWalletIsExact
CHECK_DEADLOCK FALSE
