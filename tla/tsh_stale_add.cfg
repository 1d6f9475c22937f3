CONSTANTS
    p1 = p1
    p2 = p2
    Pids <- TwoPids
    MAXJOBS = 1
    JidBound = 2
    ForkMayFail = FALSE
    Keys = {"TSTP"}
    OutsideStops = FALSE
SPECIFICATION Spec
PROPERTIES DocumentedTransitions
CHECK_DEADLOCK FALSE
