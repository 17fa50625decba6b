SPECIFICATION Spec
CONSTANTS
    Vendors = {"responses"}
    Replies <- MCReplies
    Usages <- MCUsages
    MaxPiece = 2
    Prices <- MCPrices
    MaxTokens <- MCMaxTokens
    MaxCost <- MCMaxCost
    Names <- MCNames
    Dialects = {}
    Statements = {}
    NULL = NULL
INVARIANTS
    PartialResponsesKept
CHECK_DEADLOCK FALSE
