CONSTANTS
    MAXLINE = 2
    Lengths = {0, 1}
    MaxBody = 3
SPECIFICATION Spec

PROPERTIES TransferEnds
CHECK_DEADLOCK FALSE
