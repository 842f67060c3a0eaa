\* Strings of up to three pieces, numbers of five characters, three readings.
SPECIFICATION Spec
CONSTANTS
    INT_MAX = 255
    DBL_MAX_10_EXP = 8
    EPSILON <- MCEpsilon
    SMALL <- MCSmall
    LARGE = 2
    HUGE = 7
    EXACT = 6
    KEPT = 6
    PRECISION = 1
    Input <- MCInput
    NumberText <- MCNumberText
    MaxRounds = 3
INVARIANTS
    DecodeFits
    PrintFits
    DecodesJson
    PrintsBack
    NumbersKept
PROPERTIES
    NumbersSettle
CHECK_DEADLOCK FALSE
