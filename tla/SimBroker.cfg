\* Two symbols under any strategy, with shorts, leverage and slippage; a position is
\* closed and opened again; two funding timestamps per symbol; context events come
\* late and in any order, and the host clock is off either way.
SPECIFICATION Spec
CONSTANTS
    btc = btc
    eth = eth
    Symbols = {btc, eth}
    StrategyName = "Any"
    Marks = {4}
    Prices = {5}
    Rates = {1}
    Interests = {}
    FundingPeriod = 2
    MaxSlip = 1
    Skews <- ClockErrors
    MaxTime = 3
    MaxTrades = 3
SYMMETRY MarketSymbols
INVARIANTS
    TypeOK
    ValuationFresh
    FundingAtMostOnce
PROPERTIES
    TradesCostTheirFees
