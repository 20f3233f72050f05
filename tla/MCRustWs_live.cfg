SPECIFICATION FairSpec
CONSTANTS
    OutCap = 1
    ReqCap = 2
    Keepalive = FALSE
    Faults = {}
    NoBody = FALSE
    ClientFrames <- InferFrames
    Codecs = {"infer"}
    InFlight = 1
    MaxFrames = 3
    MaxStreams = 2
    MaxOut = 0
PROPERTIES CloseEndsConnection DrainEndsConnection
CHECK_DEADLOCK FALSE
