\* Two pipelines in one process, the raw one with its two kinds of rows; what any
\* of their inserts may leave behind when it fails.
SPECIFICATION Spec
CONSTANTS
    Pipelines = {"raw", "liq"}
    Batch <- Threshold
    ChanCap <- Capacity
    MaxRows = 3
    MaxLanded = 1
INVARIANTS
    TypeOK
    NoSilentLoss
    DuplicatesOnlyByRetry
    NoOvertaking
    BatchBound
PROPERTIES
    SinkSpec
