\* strtoll of a negative number.
SPECIFICATION LibcSpec
CONSTANTS
    Calls <- MCCalls
    LongSize = 4
    LONG_MAX = 63
    INT_MAX = 31
    Width = 1
    Bit <- MCBit
INVARIANTS StrtollNegative
CHECK_DEADLOCK FALSE
