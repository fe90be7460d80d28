SPECIFICATION FairSpec
CONSTANTS
    p1 = p1
    p2 = p2
    c1 = c1
    c2 = c2
    w1 = w1
    w2 = w2
    Main = Main
    Peer = {p1, p2}
    Caller = {c1, c2}
    Worker = {w1, w2}
    Header = 2
    MaxCalls = 3
    Scenario <- Scenarios
INVARIANT Framed
PROPERTIES IsChannel CallsAnswered TableKeepsUp
CHECK_DEADLOCK FALSE
