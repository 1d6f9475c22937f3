CONSTANTS
    p1 = p1
    p2 = p2
    Pids <- OnePid
    MAXJOBS = 1
    JidBound = 1
    ForkMayFail = FALSE
    Keys = {}
    OutsideStops = TRUE
SPECIFICATION FairSpec
PROPERTIES WaitfgReturns
CHECK_DEADLOCK FALSE
