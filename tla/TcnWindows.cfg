\* Snapshots lost, stored twice, dropped by the script and unusable.
SPECIFICATION Spec
CONSTANTS
    Lookback = 2
    Horizon = 2
    Limit = 6
    MinRows = 4
    Kinds = {"ok", "empty", "overflow"}
    MaxTicks = 6
    MaxCopies = 2
INVARIANTS
    TypeOK
    SamplesAligned
    NoLeakage
    SamplesComplete
\* The market ends with MaxTicks, perhaps with too few rows to be processed.
CHECK_DEADLOCK FALSE
