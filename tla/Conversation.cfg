SPECIFICATION ConversationSpec
CONSTANTS
    Vendors = {"anthropic", "chat", "responses", "gemini"}
    Replies <- MCReplies
    Usages <- MCUsages
    MaxPiece = 3
    Prices <- MCPrices
    MaxTokens <- MCMaxTokens
    MaxCost <- MCMaxCost
    Names <- MCNames
    Dialects = {"genai", "older", "openinference", "vercel", "langfuse"}
    Statements <- MCStatements
    FollowUps <- MCFollowUps
    FollowUsage <- MCFollowUsage
    MaxExchanges = 3
    NULL = NULL
INVARIANTS
    StreamedAsWhole
    CutKeepsSent
    FirstPricedAlike
    NeverOvercharged
    ResultsFindCalls
    PromptsMakeTurns
\* The bound on the exchanges ends every behaviour.
CHECK_DEADLOCK FALSE
