\* The search ends: it may deadlock.
SPECIFICATION OperationsSpec
CONSTANTS
    Nets <- MCNets
    MarketPrices <- MCMarketPrices
    MaxBound = 17
    MAX_ROUNDS = 4
INVARIANTS ArgsFit PoolsPricedAtOne RateOnSweep NeverStuck
    BracketKept FoundIsRight GivesUpRightly
CHECK_DEADLOCK FALSE
