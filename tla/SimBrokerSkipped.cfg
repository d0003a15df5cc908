\* A funding timestamp passes over an open position and is never charged.
SPECIFICATION Spec
CONSTANTS
    btc = btc
    eth = eth
    Symbols = {btc, eth}
    StrategyName = "TrendFollow"
    Marks = {4}
    Prices = {4}
    Rates = {1}
    Interests = {}
    FundingPeriod = 2
    MaxSlip = 0
    Skews = {0}
    MaxTime = 4
    MaxTrades = 1
PROPERTIES
    FundingCollected
