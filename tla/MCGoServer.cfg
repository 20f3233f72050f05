SPECIFICATION FairSpec
CONSTANTS
    Requests <- AllRequests
    AllowImplicit = FALSE
    LenPrefix = 1
    MaxMessage = 1
    Others = {"stream"}
    Callers = {"signal"}
INVARIANTS ShutdownWaits
PROPERTIES UnaryPromise NoGoroutineLeak ShutdownReturns
CHECK_DEADLOCK FALSE
