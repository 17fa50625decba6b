SPECIFICATION Spec
CONSTANTS
    Keys = {"a", "b"}
    Batches <- MCBatches
    MaxPending = 2
    TTL = 1
    Slots = 1
    MaxTime = 3
    MaxDeliveries = 4
    NULL = NULL
INVARIANTS
    ResendKeepsPairs
\* The bounds on the clock and on the deliveries end every behaviour.
CHECK_DEADLOCK FALSE
