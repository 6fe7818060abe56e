SPECIFICATION Spec
CONSTANTS
    Null = Null
    Portfolios <- MCPortfolios
    Quotes <- MCQuotes
    Scenarios <- MCScenarios
INVARIANTS OnlyUnderwaterIsRefused LiquidatableIffPastThreshold FallsDoNotHelp 
