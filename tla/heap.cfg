CONSTANTS
    b1 = b1
    b2 = b2
    b3 = b3
    Ids <- ThreeBlocks
    Number <- Numbers
    Requests = {8, 20, 32}
    MM_UNIT = 5
    MAX_HEAP = 22
SPECIFICATION Spec
SYMMETRY BlockSymmetry
INVARIANTS TypeOK ListIntact NoLeak TreeMatchesList SegmentsHoldNodes UtilisationAtMostOne
PROPERTIES TraceAccepted ImplementsArena
CHECK_DEADLOCK FALSE
