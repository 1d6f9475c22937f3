CONSTANTS
    p1 = p1
    p2 = p2
    Pids <- TwoPids
    MAXJOBS = 2
    JidBound = 3
    ForkMayFail = TRUE
    Keys = {"INT"}
    OutsideStops = TRUE
SPECIFICATION Spec
SYMMETRY PidSymmetry
INVARIANTS TypeOK JobsAreChildren ForegroundIsAwaited EventNotLost EveryChildTracked
PROPERTIES ImplementsJobControl
CHECK_DEADLOCK FALSE
