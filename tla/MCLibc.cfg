\* Every function, and what each is for.
SPECIFICATION LibcSpec
CONSTANTS
    Calls <- MCCalls
    LongSize = 4
    LONG_MAX = 63
    INT_MAX = 31
    Width = 5
    Bit <- MCBit
INVARIANTS MemoryIsMeant ResultIsMeant NumberIsRead NumberIsWritten Divides
PROPERTIES CallsReturn
CHECK_DEADLOCK FALSE
