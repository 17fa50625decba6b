SPECIFICATION FairSpec
CONSTANTS
    Requests = {"r1", "r2", "r3"}
    Span <- MCSpan
    Spans <- MCSpans
    Clients = {"c1", "c2"}
    MinDuration <- MCMinDuration
    MinCost <- MCMinCost
    Slots = 2
    QueueSize = 1
    NULL = NULL
INVARIANTS
    EventsTellOfCommits
    NothingWithheld
PROPERTIES
    IngestEnds
