SPECIFICATION FairSpec
CONSTANTS
    Scenarios <- MCScenarios
    Reloads = {"reload"}
    AllowImplicit = FALSE
    LenPrefix = 2
    MaxMessage = 2
    MaxVersion = 2
PROPERTIES UnaryPromise FreshInTheEnd AnsweredInTheEnd
CHECK_DEADLOCK FALSE
