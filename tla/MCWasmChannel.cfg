SPECIFICATION FairSpec
CONSTANTS
    Calls = {c1, c2, c3}
    Timed = {c1}
    MaxDials = 3
INVARIANTS DropIsSeen OneSocket
PROPERTIES LiveTunnelKept WaitersServed TimedCallsEnd
CHECK_DEADLOCK FALSE
