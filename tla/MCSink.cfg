SPECIFICATION SinkFairSpec
CONSTANTS
    Capacity = 2
    MaxBatchSize = 2
    MaxEvents = 5
    MaxFailures = 2
INVARIANTS
    NoBloopLost
    StoredInOrder
PROPERTY
    EventuallyStored
CHECK_DEADLOCK FALSE
