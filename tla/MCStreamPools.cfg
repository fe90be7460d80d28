SPECIFICATION Spec
CONSTANTS
    Request = {0, 1, 3, 5}
    Fallback = 3
    DefaultSize = 8
    Alignment = 2
    BufferCount = 2
    RecvSize = 3
    LastAddress = 24
    MaxHeld = 3
INVARIANTS NoOverlap AtHome
