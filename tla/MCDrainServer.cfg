SPECIFICATION FairSpec
CONSTANTS
    c1 = c1
    c2 = c2
    r1 = r1
    r2 = r2
    Conns <- ConnsMC
    Reqs <- ReqsMC
    Proxy = FALSE
INVARIANTS DoneMeansQuiet
PROPERTIES DrainCompletes
CHECK_DEADLOCK FALSE
