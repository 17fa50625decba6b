SPECIFICATION FairSpec
CONSTANTS
    Traces <- MCTraces
    BatchSize = 1
    MergeEvery = 2
    WalLimit = 2
    MaxReaders = 1
    MaxArrivals = 3
INVARIANTS
    TypeOK
    ImportedStay
    PolicyRestored
PROPERTIES
    PurgesAndImportsProceed
