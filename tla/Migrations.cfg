SPECIFICATION Spec
CONSTANTS
    Latest = 4
INVARIANTS
    VersionMatchesSchema
    OursAreReclaimable
    ReadyOrNothing
PROPERTIES
    NeverOlder
