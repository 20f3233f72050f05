SPECIFICATION Spec
CONSTANTS
    OutCap = 1
    ReqCap = 2
    Keepalive = TRUE
    NoBody = FALSE
    ClientFrames <- ReopenFrames
    Codecs = {"proto"}
    Faults = {"gone"}
    MaxFrames = 3
    MaxStreams = 2
    MaxOut = 2
INVARIANTS WireWellFormed LiveTaskIsCurrent
CHECK_DEADLOCK FALSE
