----------------------------- MODULE RemoteCalls ----------------------------
(***************************************************************************)
(* What a client promises its threads about the calls they make: a call    *)
(* is answered once, by its own response or by a rejection, the answer     *)
(* stays until a thread takes it, and is not disturbed while it is read.   *)
(***************************************************************************)
CONSTANTS Request, None, Rejected

VARIABLES phase,   \* per request
          answer   \* the request whose response it is, Rejected or None

Init ==
    /\ phase = [c \in Request |-> "none"]
    /\ answer = [c \in Request |-> None]

Advance(c, from, to, a) ==
    /\ phase[c] = from
    /\ phase' = [phase EXCEPT ![c] = to]
    /\ answer' = [answer EXCEPT ![c] = a]

Issue(c) == Advance(c, "none", "pending", None)
Respond(c) == Advance(c, "pending", "answered", c)
Reject(c) == Advance(c, "pending", "answered", Rejected)
Take(c) == Advance(c, "answered", "reading", answer[c])
Finish(c) == Advance(c, "reading", "none", None)

Next == \E c \in Request : Issue(c) \/ Respond(c) \/ Reject(c) \/ Take(c) \/ Finish(c)

Spec == Init /\ [][Next]_<<phase, answer>>
=============================================================================
