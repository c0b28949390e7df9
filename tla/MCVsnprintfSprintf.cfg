SPECIFICATION Spec
CONSTANTS
    Jobs <- MCSprintf
    MemorySize = 16
    BufferSize = 8
    SIZE_T = 256
    CharBits = 3
    ShortBits = 4
    IntBits = 5
    LongBits = 16
    PointerDigits = 4
INVARIANTS SprintfObeysFormat
CHECK_DEADLOCK FALSE
