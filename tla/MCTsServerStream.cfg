SPECIFICATION FairSpec
CONSTANTS
    Policy = TRUE
    MaxAttempts = 3
    MaxMessages = 5
    HighWaterMark = 2
    MaxNesting = 2
    Retryable <- UnavailableMC
INVARIANTS InOrder Backpressure
PROPERTIES AbortEndsStream
