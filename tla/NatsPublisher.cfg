\* NATS going up and down while the read loop publishes, reads pings and waits for
\* a universe; the channel of the NATS client holds two messages.
SPECIFICATION LiveSpec
CONSTANTS
    trade = trade
    depth = depth
    ping = ping
    None = None
    Messages = {trade, depth}
    Others = {ping}
    MinBackoff = 250
    MaxBackoff = 10000
    ClientCap = 2
    InboxMax = 3
INVARIANTS
    TypeOK
    GivenUpOnlyIfRefused
PROPERTIES
    BusSafety
    BusFair
    HotSwapUnlessStalled
    Recovers
