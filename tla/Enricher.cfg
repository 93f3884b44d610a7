SPECIFICATION FairSpec
CONSTANTS
    Batches <- SomeBatches
    Workers = {1, 2}
    BatchSize = 2
    MaxRetries = 3
    MaxMsgs = 2
    PerMsg = 2
    MaxFaults = 1
CHECK_DEADLOCK FALSE
INVARIANTS
    AtMostOnce
PROPERTIES
    HandsOver
    EventuallyStored
