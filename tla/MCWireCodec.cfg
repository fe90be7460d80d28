SPECIFICATION Spec
CONSTANTS
    SizeOf <- Sizes
    Struct <- Structs
    Call <- Calls
    BufferSize = 64
    NULL = NULL
    Garbage = Garbage
CHECK_DEADLOCK FALSE
INVARIANTS ArgumentsArrive SizesAreExact 
