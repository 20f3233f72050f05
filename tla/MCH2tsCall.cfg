SPECIFICATION FairSpec
CONSTANTS
    LenPrefix = 2
    Base = 2
    MaxRequest = 1
    MaxReply = 1
    MaxU64 = 4095
    Scripts <- MCScripts
INVARIANTS StatusIsTrue DeliveryIsExact LimitIsExact
PROPERTIES TimedCallEnds HandlerStops
CHECK_DEADLOCK FALSE
