---------------------------- MODULE MCSocketLink ----------------------------
EXTENDS SocketLink, TLC

CONSTANTS p1, p2, c1, c2, w1, w2

Base == [conn |-> (c1 :> p1 @@ c2 :> p2), calls |-> 3, ahead |-> FALSE, stream |-> FALSE,
         pump |-> FALSE, workers |-> {}, room |-> 3, request |-> 1, response |-> 2,
         events |-> 0, close |-> {}, deaf |-> {}]
OneClient == (c1 :> p1 @@ c2 :> p1)

\* Two clients that wait for each answer, the handlers on the main thread.
CallAndWait == [Base EXCEPT !.close = {p2}]
\* The same with two workers.
CallAndWaitWorkers == [Base EXCEPT !.workers = {w1, w2}, !.close = {p2}]
\* Two threads of one client call ahead of the answers, a third one reads.
Pipelined == [Base EXCEPT !.conn = OneClient, !.ahead = TRUE, !.pump = TRUE, !.close = {p1}]
PipelinedWorker == [Pipelined EXCEPT !.workers = {w1}]
\* Sends always fit: without a lock, with two workers, and with events.
Roomy == [Base EXCEPT !.conn = OneClient, !.calls = 2, !.ahead = TRUE, !.pump = TRUE,
                      !.stream = TRUE, !.workers = {w1, w2}, !.room = 20, !.events = 2]

Scenarios == {CallAndWait, CallAndWaitWorkers, Pipelined, PipelinedWorker, Roomy}

\* The scenarios of the further disagreements that the README lists.
TwoResponders == {[Pipelined EXCEPT !.workers = {w1, w2}]}
TwoStreams == {[Pipelined EXCEPT !.stream = TRUE]}
FullEvent == {[Base EXCEPT !.events = 2]}
Ahead == {[Base EXCEPT !.conn = OneClient, !.ahead = TRUE]}
Deaf == {[Base EXCEPT !.deaf = {p2}]}
=============================================================================
