CONSTANTS
    c1 = c1
    c2 = c2
    c3 = c3
    Conns <- ThreeConns
    MaxFds = 4
SPECIFICATION FairSpec
INVARIANTS OwnDescriptors NoDescriptorLeft RightServer RightTime LogsAgree
PROPERTIES LocksGranted
CHECK_DEADLOCK FALSE
