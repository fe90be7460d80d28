------------------------------- MODULE MCClient -------------------------------
(* Client for TLC.  A scenario is a pattern of calls and what the server and  *)
(* the connection do meanwhile; the .cfg files choose a set of them.          *)
EXTENDS ClientState, TLC

CONSTANTS t1, t2

Pattern(calls1, calls2, requests) ==
    [calls |-> t1 :> calls1 @@ t2 :> calls2, requests |-> requests, events |-> 0, errors |-> 0,
     large |-> FALSE, close |-> FALSE, spurious |-> FALSE]

\* Both threads, or one, send, wait for their context and collect the result.
TwoWaiters == Pattern({"invoke", "wait", "status"}, {"invoke", "wait", "status"}, 2)
OneWaiter == Pattern({"invoke", "wait", "pump", "status"}, {}, 2)
OnePoller == Pattern({"invoke", "try", "poll", "status"}, {}, 2)

\* One thread uses the synchronous await of all responses, or of any; or both do.
OneAwaiter == Pattern({"invoke", "invoke_stream", "await_all", "poll", "status"}, {}, 3)
AnyAwaiter == Pattern({"invoke", "await_any"}, {}, 2)
TwoAwaiters == Pattern({"invoke", "await_all", "status"}, {"invoke", "await_all", "status"}, 3)

\* One thread awaits asynchronously beside a thread that pumps messages.
AllAndPump == Pattern({"invoke", "await_all_async", "status"}, {"pump"}, 2)
AnyAndPump ==
    Pattern({"invoke", "await_all_async", "await_any_async", "status"}, {"pump"}, 2)

Safe ==
    {TwoWaiters,
     [OneAwaiter EXCEPT !.events = 1, !.errors = 1, !.large = TRUE, !.close = TRUE],
     [AllAndPump EXCEPT !.events = 1, !.errors = 1, !.close = TRUE]}

\* The premise of the theorems of ClientProofs.
ASSUME SafeUsage == \A s \in Safe : Disciplined(s)

Live ==
    {[OneWaiter EXCEPT !.events = 1, !.errors = 1],
     [OneAwaiter EXCEPT !.requests = 2, !.events = 1, !.errors = 1],
     [AnyAndPump EXCEPT !.errors = 1, !.spurious = TRUE]}

\* The scenarios of the further disagreements that the README lists.
Uncollected == {[OneWaiter EXCEPT !.events = 1]}
PollEvent == {[OnePoller EXCEPT !.events = 1]}
AwaitAny == {AnyAwaiter}
EventFirst == {[OneWaiter EXCEPT !.requests = 1, !.events = 1]}
Lost == {[OneAwaiter EXCEPT !.requests = 1, !.close = TRUE]}
Async == {[AllAndPump EXCEPT !.requests = 1]}
AsyncSpurious == {[AllAndPump EXCEPT !.requests = 1, !.spurious = TRUE]}
AsyncAny == {AnyAndPump}
Waiters == {TwoWaiters}
Awaiters == {TwoAwaiters}
Rejected == {[TwoWaiters EXCEPT !.errors = 1]}
Alone == {OneWaiter}
=============================================================================
