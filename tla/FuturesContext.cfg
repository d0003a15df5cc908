\* Depth, liquidation and mark messages with unreadable values; the open interest
\* of one symbol comes over the socket as well.
SPECIFICATION LiveSpec
CONSTANTS
    None = None
    Inf = Inf
    Junk = Junk
    btc = btc
    eth = eth
    Symbols = {btc, eth}
    MaxOi = 1
    MaxFrames = 1
    WsOi = {eth}
    Marks <- SomeMarks
    Depths <- SomeDepths
    Orders <- SomeOrders
INVARIANTS
    TypeOK
    SnapshotWhole
PROPERTIES
    OiNeverOlder
    OiFreshInTheEnd
