SPECIFICATION Spec
CONSTANTS
    s1 = s1
    s2 = s2
    k1 = k1
    StreamPeer = {s1, s2}
    PacketPeer = {k1}
    Protocol = {q1}
    MaxMessages = 3
    Scenario <- Safe
CHECK_DEADLOCK FALSE
INVARIANTS
    TableMatchesSockets SingleThreadedResponses  
