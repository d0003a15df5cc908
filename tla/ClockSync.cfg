\* Syncs of up to 2 ms under a host clock that drifts, and is set by more than a
\* round trip while a request is on its way.
SPECIFICATION LiveSpec
CONSTANTS
    None = None
    Skews <- Near
    InitialRetries = 2
    Normalised = {depth}
    Raw = {trade}
    depth = depth
    trade = trade
    MaxRtt = 2
    MaxSlew = 3
INVARIANTS
    TypeOK
    StampError
PROPERTIES
    EventuallyAccurate
