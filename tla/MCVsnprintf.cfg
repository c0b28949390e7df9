SPECIFICATION Spec
CONSTANTS
    Jobs <- MCFormats
    MemorySize = 16
    BufferSize = 8
    SIZE_T = 256
    CharBits = 3
    ShortBits = 4
    IntBits = 5
    LongBits = 16
    PointerDigits = 4
INVARIANTS TypeOK StaysInBuffer KeepsItsContract TakesItsArguments
    PrintsTheMeaning
PROPERTIES Returns
CHECK_DEADLOCK FALSE
