SPECIFICATION FairSpec
CONSTANTS
    OutCap = 1
    ReqCap = 2
    Keepalive = FALSE
    NoBody = FALSE
    ClientFrames <- InferFrames
    Codecs = {"infer"}
    Faults = {}
    MaxFrames = 3
    MaxStreams = 2
    MaxOut = 0
INVARIANTS StatusBeforeClose
PROPERTIES NoGoroutineLeak
CHECK_DEADLOCK FALSE
