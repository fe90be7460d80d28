--------------------------- MODULE MessageChannel ---------------------------
(***************************************************************************)
(* What a stream link promises for the directions of its connections:      *)
(* whole messages, each once, in the order in which they were sent, and    *)
(* nothing new on a channel that is closed.                                *)
(***************************************************************************)
EXTENDS Sequences

CONSTANTS Channel, Message

VARIABLES queue,      \* sent and not delivered, on each channel
          delivered,  \* delivered so far
          open        \* channels whose connection is not closed

Init ==
    /\ queue = [c \in Channel |-> <<>>]
    /\ delivered = [c \in Channel |-> <<>>]
    /\ open = Channel

Send(c, m) ==
    /\ c \in open
    /\ queue' = [queue EXCEPT ![c] = Append(@, m)]
    /\ UNCHANGED <<delivered, open>>

Deliver(c) ==
    /\ queue[c] # <<>>
    /\ delivered' = [delivered EXCEPT ![c] = Append(@, Head(queue[c]))]
    /\ queue' = [queue EXCEPT ![c] = Tail(@)]
    /\ UNCHANGED open

Close ==
    /\ open' \in SUBSET open
    /\ UNCHANGED <<queue, delivered>>

Next ==
    \/ \E c \in Channel : Deliver(c) \/ \E m \in Message : Send(c, m)
    \/ Close

Spec == Init /\ [][Next]_<<queue, delivered, open>>
=============================================================================
