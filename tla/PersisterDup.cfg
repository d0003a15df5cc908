\* The tables are not idempotent: a retry after a lost answer stores a row twice.
SPECIFICATION Spec
CONSTANTS
    Pipelines = {"raw"}
    Batch <- Threshold
    ChanCap <- Capacity
    MaxRows = 2
    MaxLanded = 2
INVARIANTS
    IdempotentInserts
