----------------------------- MODULE SocketLink -----------------------------
(***************************************************************************)
(* runtime/link/socket: both ends of the stream connections, composed with *)
(* the loops of runtime/client.c and runtime/server.c that drive them.     *)
(*                                                                         *)
(* A connection is two byte streams of bounded room, one per direction.    *)
(* Client and Server take a message as one unit; here it is a run of       *)
(* cells, the first Header of them its header, and a send that meets a     *)
(* full socket copies what fits and sleeps.  What the two ends rely on is  *)
(* therefore checked here: that a reader finds a header where it expects   *)
(* one, that messages arrive whole and in order, and that the blocking     *)
(* calls (a send, the read of a payload) always come to an end, although   *)
(* on the server they happen with clients_lock held for reading.           *)
(***************************************************************************)
EXTENDS Integers, Sequences, FiniteSets, FiniteSetsExt

CONSTANTS Peer,      \* client processes, one stream connection each
          Caller,    \* client threads that make calls
          Worker,    \* worker threads of the server
          Main,      \* the main thread of the server
          Header,    \* cells of a header
          MaxCalls,  \* bound: calls made by all callers
          Scenario   \* ways to run the system, of which a behaviour follows one

ASSUME SocketLinkAssumption ==
    /\ IsFiniteSet(Peer) /\ IsFiniteSet(Caller) /\ IsFiniteSet(Worker)
    /\ Caller \cap Worker = {} /\ Main \notin Caller \cup Worker
    /\ Header \in Nat \ {0} /\ MaxCalls \in Nat
    /\ \A s \in Scenario :
          /\ s.conn \in [Caller -> Peer]     \* the client a caller belongs to
          /\ s.calls \in 0 .. MaxCalls       \* bound: calls made
          /\ s.ahead \in BOOLEAN             \* a caller calls again before it is answered
          /\ s.stream \in BOOLEAN            \* gracht_client_invoke_stream: no send lock
          /\ s.pump \in BOOLEAN              \* a thread of the client only reads
          /\ s.workers \subseteq Worker      \* {}: the main thread runs the handlers
          /\ s.room \in Nat \ {0}            \* cells a socket buffer holds
          /\ s.request \in Nat /\ s.response \in Nat  \* cells of their payloads
          /\ s.events \in Nat                \* bound: events sent without blocking
          /\ s.close \subseteq Peer          \* clients that may go away
          /\ s.deaf \subseteq Peer           \* clients that call and never read

Server == Worker \cup {Main}
Thread == Caller \cup Server
Channel == Peer \X {"request", "response"}
\* An event has the number 0.
Message == [peer : Peer, dir : {"request", "response"}, id : 0 .. MaxCalls]

VARIABLES
    scenario,
    wire,        \* cells in the socket buffers of each channel
    sending,     \* what the send of a thread has not yet copied
    reading,     \* the receiving end of each channel
    calls,       \* calls[i]: who made call i
    backlog,     \* clients that connected and are not accepted
    registered,  \* clients in server->clients
    closed,      \* clients that went away
    main,        \* where the main thread is
    job,         \* the request a thread of the server handles
    jobs,        \* requests with the workers
    events,      \* events sent
    sent,        \* messages whose send began, on each channel
    received     \* messages received whole, on each channel

sockVars == <<wire, sending, reading, sent, received>>
clientVars == <<calls, closed>>
serverVars == <<backlog, registered, main, job, jobs, events>>
vars == <<scenario, sockVars, clientVars, serverVars>>

None == [peer |-> "none"]
AtHeader == [at |-> "header", message |-> None, got |-> 0]

Init ==
    /\ scenario \in Scenario
    /\ wire = [c \in Channel |-> <<>>]
    /\ sending = [t \in Thread |-> <<>>]
    /\ reading = [c \in Channel |-> AtHeader]
    /\ calls = <<>> /\ closed = {}
    /\ backlog = Peer /\ registered = {}
    /\ main = [at |-> "events", batch |-> {}]
    /\ job = [t \in Server |-> None] /\ jobs = {} /\ events = 0
    /\ sent = [c \in Channel |-> <<>>]
    /\ received = [c \in Channel |-> <<>>]

----------------------------------------------------------------------------
(* The socket calls                                                        *)

ChannelOf(m) == <<m.peer, m.dir>>
SizeOf(m) == Header + (IF m.dir = "request" THEN scenario.request ELSE scenario.response)
Cells(m) == [k \in 1 .. SizeOf(m) |-> <<m, k>>]
First(s, n) == SubSeq(s, 1, n)
Rest(s, n) == SubSeq(s, n + 1, Len(s))

\* How many of the cells a send copies at once.
Fits(c, cells) == Min({Len(cells), scenario.room - Len(wire[c])})

\* send on a blocking socket: the thread stays in the call with what does not fit.
StartSend(t, m) ==
    LET c == ChannelOf(m)
        n == Fits(c, Cells(m)) IN
    /\ wire' = [wire EXCEPT ![c] = @ \o First(Cells(m), n)]
    /\ sending' = [sending EXCEPT ![t] = Rest(Cells(m), n)]
    /\ sent' = [sent EXCEPT ![c] = Append(@, m)]
    /\ UNCHANGED <<reading, received>>

\* The kernel copies more once the other end has read.
ContinueSend(t) ==
    /\ sending[t] # <<>>
    /\ LET c == ChannelOf(sending[t][1][1])
           n == Fits(c, sending[t]) IN
       /\ n > 0 /\ c[1] \notin closed
       /\ wire' = [wire EXCEPT ![c] = @ \o First(sending[t], n)]
       /\ sending' = [sending EXCEPT ![t] = Rest(@, n)]
    /\ UNCHANGED <<scenario, reading, sent, received, clientVars, serverVars>>

\* A send to a client that went away fails.
SendFails(t) ==
    /\ sending[t] # <<>> /\ sending[t][1][1].peer \in closed
    /\ sending' = [sending EXCEPT ![t] = <<>>]
    /\ UNCHANGED <<scenario, wire, reading, sent, received, clientVars, serverVars>>

\* The peek of a whole header and the recv that takes it.  A reader that finds anything
\* else where it looks for a header has lost its place in the stream.
recv_header(c) ==
    /\ reading[c].at = "header" /\ Len(wire[c]) >= Header
    /\ LET m == wire[c][1][1] IN
       IF First(wire[c], Header) = First(Cells(m), Header)
       THEN /\ reading' = [reading EXCEPT ![c] = [at |-> "payload", message |-> m, got |-> Header]]
            /\ wire' = [wire EXCEPT ![c] = Rest(@, Header)]
       ELSE reading' = [reading EXCEPT ![c].at = "misframed"] /\ UNCHANGED wire
    /\ UNCHANGED <<sending, sent, received>>

Missing(c) == SizeOf(reading[c].message) - reading[c].got

\* The recv of the payload, with MSG_WAITALL: takes what comes until nothing is missing.
recv_payload(c) ==
    /\ reading[c].at = "payload" /\ Missing(c) > 0 /\ wire[c] # <<>>
    /\ LET n == Min({Missing(c), Len(wire[c])})
           r == reading[c] IN
       IF First(wire[c], n) = SubSeq(Cells(r.message), r.got + 1, r.got + n)
       THEN /\ reading' = [reading EXCEPT ![c].got = @ + n]
            /\ wire' = [wire EXCEPT ![c] = Rest(@, n)]
       ELSE reading' = [reading EXCEPT ![c].at = "misframed"] /\ UNCHANGED wire
    /\ UNCHANGED <<sending, sent, received>>

\* Mutated form: the payload was read with MSG_PEEK too and the message stays there.
recv_returns_peeked(c) ==
    /\ reading[c].at = "payload" /\ Missing(c) = 0
    /\ received' = [received EXCEPT ![c] = Append(@, reading[c].message)]
    /\ reading' = [reading EXCEPT ![c] = AtHeader]
    /\ wire' = [wire EXCEPT ![c] = Cells(reading[c].message) \o @]
    /\ UNCHANGED <<sending, sent>>

\* The message is whole and goes to the dispatcher.
recv_returns(c) ==
    /\ reading[c].at = "payload" /\ Missing(c) = 0
    /\ received' = [received EXCEPT ![c] = Append(@, reading[c].message)]
    /\ reading' = [reading EXCEPT ![c] = AtHeader]
    /\ UNCHANGED <<wire, sending, sent>>

----------------------------------------------------------------------------
(* Clients                                                                 *)

Up(p) == <<p, "request">>
Down(p) == <<p, "response">>
Response(p, i) == [peer |-> p, dir |-> "response", id |-> i]
CallersOf(p) == {c \in Caller : scenario.conn[c] = p}
Answered(i) == \E k \in DOMAIN received[Down(scenario.conn[calls[i]])] :
                  received[Down(scenario.conn[calls[i]])][k].id = i
Outstanding(c) == {i \in DOMAIN calls : calls[i] = c /\ ~Answered(i)}

\* A thread that reads: the one that only pumps, or a caller that waits for its answers.
HasReader(p) ==
    /\ p \notin scenario.deaf
    /\ \/ scenario.pump
       \/ \E c \in CallersOf(p) : sending[c] = <<>> /\ Outstanding(c) # {}

\* Mutated form: no lock is held across the send.
invoke_unlocked(c) ==
    LET p == scenario.conn[c] IN
    /\ p \notin closed /\ sending[c] = <<>>
    /\ Len(calls) < scenario.calls /\ (scenario.ahead \/ Outstanding(c) = {})
    /\ scenario.pump \/ reading[Down(p)].at = "header"
    /\ calls' = Append(calls, c)
    /\ StartSend(c, [peer |-> p, dir |-> "request", id |-> Len(calls')])
    /\ UNCHANGED <<scenario, closed, serverVars>>

\* gracht_client_invoke sends with send_buffer_lock held since gracht_client_get_buffer,
\* gracht_client_invoke_stream without a lock.
gracht_client_invoke(c) ==
    LET p == scenario.conn[c] IN
    /\ p \notin closed /\ sending[c] = <<>>
    /\ Len(calls) < scenario.calls /\ (scenario.ahead \/ Outstanding(c) = {})
    /\ scenario.pump \/ reading[Down(p)].at = "header"
    /\ scenario.stream \/ \A d \in CallersOf(p) : sending[d] = <<>>
    /\ calls' = Append(calls, c)
    /\ StartSend(c, [peer |-> p, dir |-> "request", id |-> Len(calls')])
    /\ UNCHANGED <<scenario, closed, serverVars>>

\* gracht_client_wait_message, up to the dispatch of the message.
gracht_client_wait_message(p) ==
    /\ p \notin closed
    /\ \/ HasReader(p) /\ recv_header(Down(p))
       \/ recv_payload(Down(p))
       \/ recv_returns(Down(p))
    /\ UNCHANGED <<scenario, clientVars, serverVars>>

\* The client goes away, its threads in the middle of whatever they do.
ClientGone(p) ==
    /\ p \in scenario.close \ closed
    /\ closed' = closed \cup {p}
    /\ sending' = [t \in Thread |-> IF t \in CallersOf(p) THEN <<>> ELSE sending[t]]
    /\ wire' = [wire EXCEPT ![Down(p)] = <<>>]
    /\ UNCHANGED <<scenario, reading, sent, received, calls, serverVars>>

----------------------------------------------------------------------------
(* The server                                                              *)

Listen == [peer |-> "listen", gone |-> FALSE]
Event(p) == [peer |-> p, gone |-> p \in closed]

\* Who holds clients_lock for reading in a send, besides the main thread itself.
Responding == {w \in Worker : sending[w] # <<>>}
MainRuns == sending[Main] = <<>> /\ job[Main] = None

\* gracht_io_wait: epoll reports every socket with something to read, and hang-ups.
gracht_io_wait ==
    LET ready == {Event(p) : p \in {q \in registered : wire[Up(q)] # <<>> \/ q \in closed}}
                 \cup (IF backlog # {} THEN {Listen} ELSE {}) IN
    /\ MainRuns /\ main.at = "events" /\ main.batch = {} /\ ready # {}
    /\ main' = [main EXCEPT !.batch = ready]
    /\ UNCHANGED <<scenario, sockVars, clientVars, backlog, registered, job, jobs, events>>

\* handle_connection: the table is changed under clients_lock held for writing.
handle_connection(p) ==
    /\ MainRuns /\ main.at = "events" /\ Listen \in main.batch /\ p \in backlog
    /\ Responding = {}
    /\ backlog' = backlog \ {p} /\ registered' = registered \cup {p}
    /\ main' = [main EXCEPT !.batch = @ \ {Listen}]
    /\ UNCHANGED <<scenario, sockVars, clientVars, job, jobs, events>>

\* handle_client_event for a hang-up: client_destroy, under the lock for writing.
client_destroy(p) ==
    /\ MainRuns /\ main.at = "events" /\ [peer |-> p, gone |-> TRUE] \in main.batch
    /\ Responding = {}
    /\ registered' = registered \ {p}
    /\ wire' = [wire EXCEPT ![Up(p)] = <<>>, ![Down(p)] = <<>>]
    /\ main' = [main EXCEPT !.batch = @ \ {[peer |-> p, gone |-> TRUE]}]
    /\ UNCHANGED <<scenario, sending, reading, sent, received, clientVars, backlog, job, jobs, events>>

\* handle_client_event for data: the loop that reads messages, clients_lock held for
\* reading until the peek finds less than a header.
handle_client_event(p) ==
    /\ MainRuns /\ main.at = "events" /\ [peer |-> p, gone |-> FALSE] \in main.batch
    /\ main' = [at |-> "read", peer |-> p,
                batch |-> main.batch \ {[peer |-> p, gone |-> FALSE]}]
    /\ UNCHANGED <<scenario, sockVars, clientVars, backlog, registered, job, jobs, events>>

\* Mutated form: the peek blocks, and returns less than a header only for a closed socket.
ReadsNothingBlocking ==
    LET c == Up(main.peer) IN
    /\ reading[c].at = "header" /\ Len(wire[c]) < Header /\ main.peer \in closed
    /\ main' = [at |-> "events", batch |-> main.batch]
    /\ UNCHANGED <<sockVars, job, jobs>>

\* peek_client finds less than a header, which ends the loop whether or not more is to come.
ReadsNothing ==
    LET c == Up(main.peer) IN
    /\ reading[c].at = "header" /\ Len(wire[c]) < Header
    /\ main' = [at |-> "events", batch |-> main.batch]
    /\ UNCHANGED <<sockVars, job, jobs>>

\* recv_client returns EPIPE: the rest of the message never comes.
ReadCutShort ==
    LET c == Up(main.peer) IN
    /\ reading[c].at = "payload" /\ Missing(c) > 0
    /\ wire[c] = <<>> /\ main.peer \in closed
    /\ reading' = [reading EXCEPT ![c] = AtHeader]
    /\ main' = [at |-> "events", batch |-> main.batch]
    /\ UNCHANGED <<wire, sending, sent, received, job, jobs>>

\* Mutated form: a message is dropped when the workers have one already.
dispatch_drops ==
    LET c == Up(main.peer)
        m == reading[c].message IN
    /\ recv_returns(c)
    /\ IF scenario.workers # {}
       THEN jobs' = (IF jobs = {} THEN {m} ELSE jobs) /\ UNCHANGED job
       ELSE job' = [job EXCEPT ![Main] = m] /\ UNCHANGED jobs
    /\ UNCHANGED main

\* dispatch_mt hands the message to the workers, dispatch_st runs the handler.
dispatch ==
    LET c == Up(main.peer)
        m == reading[c].message IN
    /\ recv_returns(c)
    /\ IF scenario.workers # {}
       THEN jobs' = jobs \cup {m} /\ UNCHANGED job
       ELSE job' = [job EXCEPT ![Main] = m] /\ UNCHANGED jobs
    /\ UNCHANGED main

ReadMessages ==
    /\ MainRuns /\ main.at = "read"
    /\ \/ ReadsNothing
       \/ (recv_header(Up(main.peer)) \/ recv_payload(Up(main.peer))) /\ UNCHANGED <<main, job, jobs>>
       \/ ReadCutShort
       \/ dispatch
    /\ UNCHANGED <<scenario, clientVars, backlog, registered, events>>

\* A worker takes a request; it is idle once its last response is sent.
WorkerTakes(w) ==
    /\ w \in scenario.workers /\ job[w] = None /\ sending[w] = <<>>
    /\ \E m \in jobs : jobs' = jobs \ {m} /\ job' = [job EXCEPT ![w] = m]
    /\ UNCHANGED <<scenario, sockVars, clientVars, backlog, registered, main, events>>

\* gracht_server_respond, in the handler: a blocking send, clients_lock held for reading.
gracht_server_respond(t) ==
    /\ job[t] # None
    /\ LET p == job[t].peer IN
       IF p \in registered \ closed
       THEN StartSend(t, Response(p, job[t].id))
       ELSE UNCHANGED sockVars
    /\ job' = [job EXCEPT ![t] = None]
    /\ UNCHANGED <<scenario, clientVars, backlog, registered, main, jobs, events>>

\* gracht_server_send_event by the application, with no flags: the send copies what fits
\* and the rest of the message is dropped.
gracht_server_send_event(p) ==
    LET m == Response(p, 0)
        c == Down(p)
        n == Fits(c, Cells(m)) IN
    /\ events < scenario.events /\ p \in registered \ closed
    /\ events' = events + 1
    /\ wire' = [wire EXCEPT ![c] = @ \o First(Cells(m), n)]
    /\ sent' = IF n > 0 THEN [sent EXCEPT ![c] = Append(@, m)] ELSE sent
    /\ UNCHANGED <<scenario, sending, reading, received, clientVars, backlog, registered,
                   main, job, jobs>>

----------------------------------------------------------------------------
\* A handler that responds, and the send of the response.
HandlerThread(t) == ContinueSend(t) \/ SendFails(t) \/ gracht_server_respond(t)

MainThread ==
    \/ gracht_io_wait \/ ReadMessages \/ HandlerThread(Main)
    \/ \E p \in Peer : handle_connection(p) \/ client_destroy(p) \/ handle_client_event(p)

Next ==
    \/ MainThread
    \/ \E w \in Worker : WorkerTakes(w) \/ HandlerThread(w)
    \/ \E c \in Caller : gracht_client_invoke(c) \/ ContinueSend(c)
    \/ \E p \in Peer : gracht_client_wait_message(p) \/ ClientGone(p) \/ gracht_server_send_event(p)

\* Threads run and handlers return; a client that has a reader reads.  Nothing is assumed
\* of calls being made, of events or of clients going away.
Fairness ==
    /\ WF_vars(MainThread)
    /\ \A w \in Worker : WF_vars(WorkerTakes(w) \/ HandlerThread(w))
    /\ \A c \in Caller : WF_vars(ContinueSend(c))
    /\ \A p \in Peer : WF_vars(gracht_client_wait_message(p))

Spec == Init /\ [][Next]_vars
FairSpec == Spec /\ Fairness

----------------------------------------------------------------------------
(* Properties                                                              *)

\* Neither end loses its place in a stream: whatever the threads of the other end were
\* doing when their sends met a full socket, a reader finds a whole header where it looks
\* for one, followed by the payload of that message (socket_link_peek_header,
\* socket_link_recv_stream, socket_link_peek_socket, socket_link_recv_client).
Framed == \A c \in Channel : reading[c].at # "misframed"

Promised == INSTANCE MessageChannel WITH
    queue <- [c \in Channel |-> SubSeq(sent[c], Len(received[c]) + 1, Len(sent[c]))],
    delivered <- received,
    open <- {c \in Channel : c[1] \notin closed}

\* Each direction of a connection implements a channel of whole messages, delivered once
\* each and in the order in which their sends began, with none sent after the client is
\* gone: the stream keeps the boundaries and the order the dispatchers rely on.
IsChannel == Promised!Spec

\* The link always comes to where every call made is answered, or its client gone: no cycle
\* of threads blocked in send and of readers that do not read keeps a request or a response
\* from arriving.
CallsAnswered ==
    []<>(\A i \in DOMAIN calls : Answered(i) \/ scenario.conn[calls[i]] \in closed)

\* The table always comes to where each client that connected has been put in and each that
\* went away taken out, although both need clients_lock for writing and responses are sent
\* with it held for reading.
TableKeepsUp == []<>(backlog = {} /\ registered \cap closed = {})
=============================================================================
