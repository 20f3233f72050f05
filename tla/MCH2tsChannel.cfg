SPECIFICATION FairSpec
CONSTANTS
    a = a
    b = b
    Calls <- CallsMC
    MaxDials = 3
    Policy = TRUE
    MaxAttempts = 2
    Throttled = TRUE
    MaxTokens = 2
    Cost = 1
    TokenRatio = 1
INVARIANTS CacheIsTheChannel WatchIsTruthful RetryBudget
PROPERTIES AbortIsFinal AbortEndsCall
