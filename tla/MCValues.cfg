\* A write and a read; every number text of up to three characters, and longer ones.
SPECIFICATION Spec
CONSTANTS
    INT_MAX = 255
    DBL_MAX_10_EXP = 8
    EPSILON <- MCEpsilon
    SMALL <- MCSmall
    LARGE = 2
    HUGE = 7
    EXACT = 6
    KEPT = 6
    PRECISION = 1
    UINT8 = 4
    UINT16 = 16
    Size = 3
    Request <- MCRequest
    MaxRequests = 2
INVARIANTS
    ReadsBack
    TidEchoed
CHECK_DEADLOCK FALSE
