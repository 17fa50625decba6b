SPECIFICATION SpecArrivals
CONSTANTS
    TraceIds = {1}
    SpanIds = {1}
    MinTime = 0
    MaxTime = 2
    Names = {"a"}
    Sessions = {"s1"}
    Models = {"m1"}
    MaxCost = 3
    NULL = NULL
    Batches <- MCBatches
    Cutoffs = {2}
    BatchSize = 1
    Retention = 1
    LastTick = 4
PROPERTIES
    NeverPurgesRecentArrivals
