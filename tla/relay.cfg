CONSTANTS
    MAXLINE = 2
    Lengths = {1, 2, 3}
    MaxBody = 3
SPECIFICATION Spec
INVARIANTS InOrder BufferInBounds Complete
PROPERTIES TransferEnds ImplementsPipe
CHECK_DEADLOCK FALSE
