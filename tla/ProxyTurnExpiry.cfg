SPECIFICATION Spec
CONSTANTS
    Exchanges <- MCRepeatedPrompt
    Keys = {"k1"}
    MaxToolCalls = 1
    Slots = 1
    Retention = 1
    MaxTime = 5
    NULL = NULL
INVARIANTS
    RootCoversRetained
