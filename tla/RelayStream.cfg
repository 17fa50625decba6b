SPECIFICATION FairSpec
CONSTANTS
    Requests = {"r1", "r2"}
    Units <- MCUnits
    ReadSize = 2
    Limit = 1
    Slots = 1
INVARIANTS
    TypeOK
    RelaysAll
    CapturedAsRelayed
    CapturesOutliveShutdown
PROPERTIES
    RelaysAndShutdownEnd
CHECK_DEADLOCK FALSE
