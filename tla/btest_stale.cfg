CONSTANTS
    W = 8
    EXP = 4
    TEST_RANGE = 4
    MaxLate = 1
    CommandLines <- NoOptions
SPECIFICATION Spec
PROPERTIES TimeoutOfCurrent
CHECK_DEADLOCK FALSE
