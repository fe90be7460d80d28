------------------------------- MODULE MCServer -------------------------------
(* Server for TLC.  A scenario says who takes part and what may happen; the   *)
(* .cfg files choose a set of them.  Two stream peers are needed for a socket *)
(* to be reused, one packet peer for a client without a connection.           *)
EXTENDS Server

CONSTANTS s1, s2, k1

Calls(peers, messages) ==
    [peers |-> peers, kinds |-> {"call"}, messages |-> messages, events |-> 0,
     workers |-> TRUE, buffers |-> 1, defer |-> FALSE, hangup |-> FALSE, stop |-> FALSE]

Single ==
    [Calls({s1, s2, k1}, 2) EXCEPT !.kinds = AllKinds \ {"short"}, !.events = 1,
                                   !.workers = FALSE, !.hangup = TRUE, !.stop = TRUE]

Pooled ==
    [Calls({s1, s2, k1}, 3) EXCEPT !.kinds = {"call", "unknown", "subscribe"}, !.buffers = 2,
                                   !.defer = TRUE, !.hangup = TRUE]

Safe == {Single, Pooled}

\* More requests than receive buffers, with peers that disconnect; and a shutdown.
Live ==
    {[Calls({s1, s2}, 3) EXCEPT !.hangup = TRUE],
     [Calls({s1, k1}, 2) EXCEPT !.kinds = {"call", "subscribe"}, !.stop = TRUE]}

\* The scenarios of the further disagreements that the README lists.
Reuse == {[Calls({s1, s2}, 1) EXCEPT !.hangup = TRUE]}
Packet(sent, broadcasts) ==
    {[Calls({k1}, 2) EXCEPT !.kinds = sent, !.workers = FALSE, !.events = broadcasts]}
Short == Packet({"call", "short"}, 0)
Unknown == Packet({"unknown"}, 0)
Subscriber == Packet({"subscribe"}, 1)
=============================================================================
