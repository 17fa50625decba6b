SPECIFICATION StoriesSpec
CONSTANTS
    Exchanges <- MCExchanges
    Keys = {"k1", "k2"}
    MaxToolCalls = 1
    Slots = 2
    Retention = 1
    MaxTime = 4
    NULL = NULL
INVARIANTS
    TypeOK
    SpansShowFirstResult
    LinkedSpansHaveParents
    RootCoversTurn
PROPERTIES
    ImplementsRegister
    NoOrphanWhileKnown
    EveryCaptureEnds
