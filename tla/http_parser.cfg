CONSTANTS
    Relaxed = TRUE
    Kinds = {"request", "response"}
    MaxLines = 2
    Cuts <- BetweenTokens
SPECIFICATION Spec
INVARIANTS TokensWhole HeadersRight FinishedComplete
CHECK_DEADLOCK FALSE
