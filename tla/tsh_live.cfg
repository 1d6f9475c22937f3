CONSTANTS
    p1 = p1
    p2 = p2
    Pids <- OnePid
    MAXJOBS = 1
    JidBound = 1
    ForkMayFail = FALSE
    Keys = {"INT", "TSTP"}
    OutsideStops = TRUE
SPECIFICATION FairSpec
PROPERTIES ZombieReaped ForegroundExitWakes
CHECK_DEADLOCK FALSE
