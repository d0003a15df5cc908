\* One manager and the open interest fetcher; every sequence of universes of at
\* most two of three symbols, the empty one included; one symbol has no futures.
SPECIFICATION LiveSpec
CONSTANTS
    btc = btc
    eth = eth
    sol = sol
    spot = spot
    futures = futures
    Coins = {btc, eth, sol}
    Futures = {btc, eth}
    TopN = 2
    Managers = {spot}
INVARIANTS
    TypeOK
    NoLostUpdate
    UrlHasSymbols
    OiNotAsleep
PROPERTIES
    HotSwap
    OpenInterestFetched
