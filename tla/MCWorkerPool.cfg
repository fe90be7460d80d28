SPECIFICATION PoolSpec
CONSTANTS
    WorkerCount = 2
    QueueSize = 2
    LastMessage = 11
    Spurious = TRUE
    Wrap = 4
    Garbage = Garbage
INVARIANTS UniqueOwner Accounted HandledInOrder OutstandingDestroyed
PROPERTIES QueuedGetsHandled RingIsJobQueue
CHECK_DEADLOCK FALSE
