SPECIFICATION ReadSpec
CONSTANTS
    TraceIds = {1, 2}
    SpanIds = {1, 2}
    MinTime = 0
    MaxTime = 5
    Names = {"a", "b"}
    Sessions = {1, 2}
    Models = {"m1", "m2"}
    MaxCost = 3
    NULL = NULL
    Batches <- MCBatches
    Cutoffs <- MCCutoffs
    BatchSize = 1
    Lists <- MCLists
    PageSize = 1
    Ranges <- MCRanges
    DayLength = 3
INVARIANTS
    TypeOK
    TracesSummarizeSpans
    IndexMatchesSpans
    SteadyRowsShownOnce
    PageShowsTrace
    ChartsAgree
PROPERTIES
    ImplementsLedger
    PagingEnds
