CONSTANTS
    W = 8
    EXP = 4
    TEST_RANGE = 4
    MaxLate = 1
    CommandLines <- Lines
SPECIFICATION Spec
INVARIANTS IntegerPuzzlesRight FloatPuzzlesRight ValuesFit EveryPuzzleScored
PROPERTIES TestsEnd
CHECK_DEADLOCK FALSE
