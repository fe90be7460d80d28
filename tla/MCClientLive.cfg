SPECIFICATION FairSpec
CONSTANTS
    t1 = t1
    t2 = t2
    Thread = {t1, t2}
    NULL = NULL
    MaxId = 3
    MaxAwait = 2
    Buffer = {b1, b2}
    Scenario <- Live
CHECK_DEADLOCK FALSE
PROPERTIES
    WaitReturns AwaitAllReturns
