\* Liveness of the raw pipeline under the fairness of LiveSpec.
SPECIFICATION LiveSpec
CONSTANTS
    Pipelines = {"raw"}
    Batch <- Threshold
    ChanCap <- Capacity
    MaxRows = 2
    MaxLanded = 1
PROPERTIES
    EventuallyStored
