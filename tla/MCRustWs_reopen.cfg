SPECIFICATION Spec
CONSTANTS
    OutCap = 1
    ReqCap = 2
    Keepalive = TRUE
    Faults = {"gone"}
    NoBody = FALSE
    ClientFrames <- ReopenFrames
    Codecs = {"proto"}
    InFlight = 1
    MaxFrames = 3
    MaxStreams = 2
    MaxOut = 2
INVARIANTS WireWellFormed LiveTaskIsCurrent GoingAwayOnlyIdle
CHECK_DEADLOCK FALSE
