CONSTANTS
    p1 = p1
    p2 = p2
    Pids <- TwoPids
    MAXJOBS = 1
    JidBound = 2
    ForkMayFail = TRUE
    Keys = {"INT", "TSTP"}
    OutsideStops = TRUE
SPECIFICATION Spec
SYMMETRY PidSymmetry
INVARIANTS ForegroundIsAwaited EventNotLost
PROPERTIES NoSignalToBackground
CHECK_DEADLOCK FALSE
