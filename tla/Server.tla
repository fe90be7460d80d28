------------------------------- MODULE Server -------------------------------
(***************************************************************************)
(* runtime/server.c over the socket links (runtime/link/socket/server.c):  *)
(* the event loop, the table of clients, dispatch to handlers, responses   *)
(* and events, subscriptions of the control protocol, and shutdown.        *)
(*                                                                         *)
(* The main thread waits for events, handles one at a time and reads a     *)
(* stream client until nothing is left.  With workers the requests are     *)
(* handled by the worker threads in any order (WorkerPool models the       *)
(* queues), otherwise by the main thread.  Sections under clients_lock     *)
(* and protocols_lock are steps (RwLock models the lock).  A client is     *)
(* known by a handle: the socket of a stream client, which the kernel      *)
(* reuses once it is closed, or a hash of the address of a packet client.  *)
(***************************************************************************)
EXTENDS Integers, Sequences, FiniteSets, Functions, FiniteSetsExt

CONSTANTS StreamPeer,   \* stream connections, each made once
          PacketPeer,   \* packet clients; a peer is its own handle
          Protocol,     \* protocols clients subscribe to
          MaxMessages,  \* bound: messages sent by peers
          Scenario      \* ways to run the server, of which a behaviour follows one

\* call: a served request; unknown: one for an unregistered protocol; large: longer
\* than the receive buffers; short: a packet without a full header.
AllKinds == {"call", "unknown", "subscribe", "unsubscribe", "large", "short"}
Peer == StreamPeer \cup PacketPeer
Fd == 1 .. Cardinality(StreamPeer)

ASSUME ServerAssumption ==
    /\ IsFiniteSet(Peer) /\ StreamPeer \cap PacketPeer = {}
    /\ Peer \cap Nat = {} /\ {"listen", "packet"} \cap Peer = {}
    /\ MaxMessages \in Nat
    /\ \A s \in Scenario :
          /\ s.peers \subseteq Peer             \* the peers that take part
          /\ s.kinds \subseteq AllKinds         \* the kinds of messages they send
          /\ s.messages \in 0 .. MaxMessages   \* bound: messages sent by peers
          /\ s.events \in Nat                  \* bound: broadcasts
          /\ s.workers \in BOOLEAN             \* a worker pool, or all on the main thread
          /\ s.buffers \in Nat \ {0}           \* receive buffers of recv_pool
          /\ s.defer \in BOOLEAN               \* handlers use gracht_server_defer_message
          /\ s.hangup \in BOOLEAN              \* stream peers disconnect
          /\ s.stop \in BOOLEAN                \* gracht_server_request_shutdown is called

VARIABLES
    state,      \* server->state
    main,       \* where the main thread is, and the event it handles
    clients,    \* server->clients: handle -> [peer, stream, subscriptions]
    fd,         \* the socket the server has for a stream peer, 0: none
    backlog,    \* stream peers that connected and are not accepted
    hup,        \* stream peers that closed their end
    inbox,      \* messages on each stream connection
    packets,    \* messages on the packet link
    work,       \* messages with the workers
    deferred,   \* messages whose handlers answer later
    free,       \* free buffers of recv_pool
    outbox,     \* what each peer was sent
    failed,     \* what could not be sent to a peer that was there
    leaked,     \* send buffers that were not given back
    announced,  \* handles reported by clientConnected and not by clientDisconnected
    owner,      \* which peer sent each message
    events,     \* broadcasts
    scenario    \* how the server is run

loopVars == <<state, main>>
tableVars == <<clients, announced>>
sockVars == <<fd, backlog, hup, inbox, packets, owner>>
workVars == <<work, deferred, free>>
outVars == <<outbox, failed, leaked>>
appVars == <<events, scenario>>
vars == <<loopVars, tableVars, sockVars, workVars, outVars, appVars>>

All == "all"
Message == [id : 1 .. MaxMessages, peer : Peer, client : Peer \cup {0} \cup Fd,
            kind : AllKinds, protocol : Protocol \cup {All}]
Item == [type : {"response", "error", "event"}, id : 0 .. MaxMessages]

TypeOK ==
    /\ state \in {"RUNNING", "SHUTDOWN_REQUESTED", "SHUTDOWN"}
    /\ main.at \in {"loop", "wait", "event", "read", "returned"}
    /\ DOMAIN clients \subseteq PacketPeer \cup Fd
    /\ \A h \in DOMAIN clients :
          clients[h] \in [peer : Peer, stream : BOOLEAN, subscriptions : SUBSET Protocol]
    /\ fd \in [StreamPeer -> {0} \cup Fd]
    /\ backlog \subseteq StreamPeer /\ hup \subseteq StreamPeer
    /\ \A p \in StreamPeer : \A i \in DOMAIN inbox[p] : inbox[p][i] \in Message
    /\ \A i \in DOMAIN packets : packets[i] \in Message
    /\ work \subseteq Message /\ deferred \subseteq Message
    /\ free \in 0 .. scenario.buffers
    /\ outbox \in [Peer -> SUBSET Item]
    /\ leaked \in Nat
    /\ \A i \in DOMAIN owner : owner[i] \in Peer
    /\ announced \subseteq PacketPeer \cup Fd

Init ==
    /\ scenario \in Scenario
    /\ state = "RUNNING" /\ main = [at |-> "loop"]
    /\ clients = <<>> /\ announced = {}
    /\ fd = [p \in StreamPeer |-> 0] /\ backlog = {} /\ hup = {}
    /\ inbox = [p \in StreamPeer |-> <<>>] /\ packets = <<>> /\ owner = <<>>
    /\ work = {} /\ deferred = {} /\ free = scenario.buffers
    /\ outbox = [p \in Peer |-> {}] /\ failed = {} /\ leaked = 0
    /\ events = 0

----------------------------------------------------------------------------
(* Helpers                                                                 *)

Put(table, key, value) == [k \in DOMAIN table \cup {key} |-> IF k = key THEN value ELSE table[k]]
Drop(table, key) == Restrict(table, DOMAIN table \ {key})

\* A peer that can receive what the server sends it.
Reachable(p) == p \in PacketPeer \/ (fd[p] # 0 /\ p \notin hup)

\* The send operation of an entry of the table, link->ops.server.send_client: a send on
\* the handle, which is a socket for stream clients only.
SendClient(entries, item) ==
    LET sockets == {c \in entries : c.stream} IN
    /\ outbox' = [p \in Peer |->
            IF \E c \in sockets : c.peer = p THEN outbox[p] \cup {item} ELSE outbox[p]]
    /\ failed' = failed \cup {<<c.peer, item>> : c \in entries \ sockets}

\* Mutated form: the response goes to every client there is.
respond_to_all(m) ==
    SendClient(Range(clients), [type |-> "response", id |-> m.id]) /\ UNCHANGED leaked

\* gracht_server_respond: to the client registered under the handle of the message, or
\* else back through the packet link the message came from.
gracht_server_respond(m) ==
    LET item == [type |-> "response", id |-> m.id] IN
    IF m.client \in DOMAIN clients
    THEN SendClient({clients[m.client]}, item) /\ UNCHANGED leaked
    ELSE IF m.peer \in PacketPeer
    THEN /\ outbox' = [outbox EXCEPT ![m.peer] = @ \cup {item}]
         /\ UNCHANGED <<failed, leaked>>
    ELSE leaked' = leaked + 1 /\ UNCHANGED <<outbox, failed>>

\* gracht_server_send_event to the sender of a message: only through the table.
gracht_server_send_event(m, item) ==
    IF m.client \in DOMAIN clients
    THEN SendClient({clients[m.client]}, item) /\ UNCHANGED leaked
    ELSE /\ leaked' = leaked + 1
         /\ failed' = IF Reachable(m.peer) THEN failed \cup {<<m.peer, item>>} ELSE failed
         /\ UNCHANGED outbox

gracht_control_event_error_single(m) ==
    gracht_server_send_event(m, [type |-> "error", id |-> m.id])

\* server_invoke_action: the handler answers, or keeps a copy of the message to answer
\* later; a protocol that is not registered gets an error event.
server_invoke_action(m) ==
    \/ m.kind = "call" /\ gracht_server_respond(m) /\ UNCHANGED deferred
    \/ /\ m.kind = "call" /\ scenario.defer
       /\ deferred' = deferred \cup {m}
       /\ UNCHANGED outVars
    \/ m.kind = "unknown" /\ gracht_control_event_error_single(m) /\ UNCHANGED deferred

\* gracht_control_subscribe_invocation: a packet client without a record gets one.
Subscribe(m) ==
    LET added == IF m.protocol = All THEN Protocol ELSE {m.protocol} IN
    IF m.client \in DOMAIN clients
    THEN /\ clients' = [clients EXCEPT ![m.client].subscriptions = @ \cup added]
         /\ UNCHANGED announced
    ELSE /\ clients' = Put(clients, m.client,
                           [peer |-> m.peer, stream |-> FALSE, subscriptions |-> added])
         /\ announced' = announced \cup {m.client}

\* gracht_control_unsubscribe_invocation: a packet client that gives up all
\* subscriptions loses its record (client_destroy).
Unsubscribe(m) ==
    LET removed == IF m.protocol = All THEN Protocol ELSE {m.protocol} IN
    IF m.client \notin DOMAIN clients THEN UNCHANGED tableVars
    ELSE IF m.protocol = All /\ ~clients[m.client].stream
    THEN /\ clients' = Drop(clients, m.client)
         /\ announced' = announced \ {m.client}
    ELSE /\ clients' = [clients EXCEPT ![m.client].subscriptions = @ \ removed]
         /\ UNCHANGED announced

Ready(e) ==
    \/ e = "listen" /\ backlog # {}
    \/ e = "packet" /\ packets # <<>>
    \/ e \in StreamPeer /\ fd[e] # 0 /\ (inbox[e] # <<>> \/ e \in hup)

\* gracht_server_shutdown: the workers are joined and drop what they had queued, the
\* clients, the links and the server are destroyed.
gracht_server_shutdown ==
    /\ state' = "SHUTDOWN"
    /\ main' = [at |-> "returned"]
    /\ clients' = <<>>
    /\ fd' = [p \in StreamPeer |-> 0]
    /\ inbox' = [p \in StreamPeer |-> <<>>]
    /\ work' = {} /\ free' = scenario.buffers
    /\ UNCHANGED <<announced, backlog, hup, packets, owner, deferred, outVars, appVars>>

----------------------------------------------------------------------------
(* Mutated forms of the operations below.                                  *)

\* The state is checked, but the server is not shut down.
epipe_without_shutdown ==
    /\ main.at = "event" /\ state # "RUNNING"
    /\ main' = [at |-> "returned"]
    /\ UNCHANGED <<state, tableVars, sockVars, workVars, outVars, appVars>>

\* client_destroy closes the socket and keeps the entry.
destroy_keeps_entry(p) ==
    /\ announced' = announced \ {fd[p]}
    /\ fd' = [fd EXCEPT ![p] = 0]
    /\ inbox' = [inbox EXCEPT ![p] = <<>>]
    /\ UNCHANGED clients

\* A disconnect is treated like incoming data.
ignore_disconnect ==
    /\ main.at = "event" /\ state = "RUNNING"
    /\ main.event \in StreamPeer /\ main.disconnect
    /\ main' = [at |-> "read", event |-> main.event]
    /\ UNCHANGED <<state, tableVars, sockVars, workVars, outVars, appVars>>

\* A worker does not release the message it handled.
worker_no_cleanup(m) ==
    /\ m \in work
    /\ work' = work \ {m}
    /\ server_invoke_action(m)
    /\ UNCHANGED <<free, loopVars, tableVars, sockVars, appVars>>

----------------------------------------------------------------------------
(* Dispatch                                                                *)

\* dispatch_st and dispatch_mt: the control protocol, and without workers every
\* request, is handled on the main thread; the receive buffer is released after it.
Dispatch(m) ==
    \/ /\ m.kind = "subscribe" /\ Subscribe(m)
       /\ UNCHANGED <<workVars, outVars>>
    \/ /\ m.kind = "unsubscribe" /\ Unsubscribe(m)
       /\ UNCHANGED <<workVars, outVars>>
    \/ /\ m.kind \in {"call", "unknown"} /\ ~scenario.workers
       /\ server_invoke_action(m)
       /\ UNCHANGED <<tableVars, work, free>>
    \/ /\ m.kind \in {"call", "unknown"} /\ scenario.workers
       /\ work' = work \cup {m} /\ free' = free - 1
       /\ UNCHANGED <<tableVars, deferred, outVars>>

\* A buffer for the next message: the one of the main thread, or one of recv_pool.
HasBuffer == ~scenario.workers \/ free > 0

\* A worker: server_invoke_action and server_cleanup_message.
WorkerHandles(m) ==
    /\ m \in work
    /\ work' = work \ {m} /\ free' = free + 1
    /\ server_invoke_action(m)
    /\ UNCHANGED <<loopVars, tableVars, sockVars, appVars>>

\* A handler answers a message it deferred.
RespondDeferred(m) ==
    /\ state # "SHUTDOWN" /\ m \in deferred
    /\ deferred' = deferred \ {m}
    /\ gracht_server_respond(m)
    /\ UNCHANGED <<loopVars, tableVars, sockVars, work, free, appVars>>

----------------------------------------------------------------------------
(* The main thread                                                         *)

\* while (server->state == RUNNING): wait for events, or shut down and return.
gracht_server_main_loop ==
    /\ main.at = "loop"
    /\ \/ /\ state = "RUNNING"
          /\ main' = [at |-> "wait"]
          /\ UNCHANGED <<state, tableVars, sockVars, workVars, outVars, appVars>>
       \/ /\ state # "RUNNING"
          /\ gracht_server_shutdown

\* gracht_io_wait returns an event; the flags of a socket are those of that moment.
IoWait(e) ==
    /\ main.at = "wait" /\ Ready(e)
    /\ main' = [at |-> "event", event |-> e, disconnect |-> e \in hup]
    /\ UNCHANGED <<state, tableVars, sockVars, workVars, outVars, appVars>>

\* gracht_server_handle_event in a server that is to shut down: main_loop returns.
HandleShutdown ==
    /\ main.at = "event" /\ state # "RUNNING"
    /\ gracht_server_shutdown

\* handle_connection: accept a peer on the lowest free socket and register it, subscribed
\* to everything.
handle_connection ==
    /\ main.at = "event" /\ state = "RUNNING" /\ main.event = "listen"
    /\ \E p \in backlog :
          LET h == Min(Fd \ Range(fd)) IN
          /\ backlog' = backlog \ {p}
          /\ fd' = [fd EXCEPT ![p] = h]
          /\ clients' = Put(clients, h, [peer |-> p, stream |-> TRUE, subscriptions |-> Protocol])
          /\ announced' = announced \cup {h}
    /\ main' = [at |-> "loop"]
    /\ UNCHANGED <<state, hup, inbox, packets, owner, workVars, outVars, appVars>>

\* client_destroy for a stream client: the callback, the entry, the socket.
client_destroy(p) ==
    /\ announced' = announced \ {fd[p]}
    /\ clients' = Drop(clients, fd[p])
    /\ fd' = [fd EXCEPT ![p] = 0]
    /\ inbox' = [inbox EXCEPT ![p] = <<>>]

\* handle_client_event with a disconnect: what was not read is gone.
HandleDisconnect ==
    /\ main.at = "event" /\ state = "RUNNING"
    /\ main.event \in StreamPeer /\ main.disconnect
    /\ client_destroy(main.event)
    /\ main' = [at |-> "loop"]
    /\ UNCHANGED <<state, backlog, hup, packets, owner, workVars, outVars, appVars>>

\* handle_client_event with incoming data: the loop that reads messages starts.
HandleInput ==
    /\ main.at = "event" /\ state = "RUNNING"
    /\ main.event \in StreamPeer /\ ~main.disconnect
    /\ main' = [at |-> "read", event |-> main.event]
    /\ UNCHANGED <<state, tableVars, sockVars, workVars, outVars, appVars>>

\* The first message can be received: it is complete, fits, and there is a buffer.
CanReceive(messages) ==
    messages # <<>> /\ Head(messages).kind \notin {"large", "short"} /\ HasBuffer

\* The loop of handle_client_event reads a message and dispatches it.
ReadMessage ==
    /\ main.at = "read"
    /\ LET p == main.event IN
       /\ CanReceive(inbox[p])
       /\ Dispatch([Head(inbox[p]) EXCEPT !.client = fd[p]])
       /\ inbox' = [inbox EXCEPT ![p] = Tail(@)]
    /\ UNCHANGED <<loopVars, fd, backlog, hup, packets, owner, appVars>>

\* The loop ends: nothing to read, a message that is too long, or no buffer.
ReadDone ==
    /\ main.at = "read"
    /\ ~CanReceive(inbox[main.event])
    /\ main' = [at |-> "loop"]
    /\ UNCHANGED <<state, tableVars, sockVars, workVars, outVars, appVars>>

\* handle_packet reads and dispatches one packet.
handle_packet ==
    /\ main.at = "event" /\ state = "RUNNING" /\ main.event = "packet"
    /\ CanReceive(packets)
    /\ Dispatch([Head(packets) EXCEPT !.client = Head(packets).peer])
    /\ packets' = Tail(packets)
    /\ main' = [at |-> "loop"]
    /\ UNCHANGED <<state, fd, backlog, hup, inbox, owner, appVars>>

\* handle_packet fails and leaves the packet; a failed peek of a short one sets EPIPE,
\* on which main_loop returns.
PacketFails ==
    /\ main.at = "event" /\ state = "RUNNING" /\ main.event = "packet"
    /\ ~CanReceive(packets)
    /\ main' = [at |-> IF Head(packets).kind = "short" THEN "returned" ELSE "loop"]
    /\ UNCHANGED <<state, tableVars, sockVars, workVars, outVars, appVars>>

----------------------------------------------------------------------------
(* Peers and application                                                   *)

Connect(p) ==
    /\ p \notin backlog \cup hup /\ fd[p] = 0 /\ state # "SHUTDOWN"
    /\ backlog' = backlog \cup {p}
    /\ UNCHANGED <<loopVars, tableVars, fd, hup, inbox, packets, owner, workVars, outVars, appVars>>

HangUp(p) ==
    /\ scenario.hangup /\ p \notin hup /\ fd[p] # 0
    /\ hup' = hup \cup {p}
    /\ UNCHANGED <<loopVars, tableVars, fd, backlog, inbox, packets, owner, workVars, outVars,
                   appVars>>

\* A peer sends a message.
PeerSends(p, kind) ==
    /\ Len(owner) < scenario.messages /\ state # "SHUTDOWN"
    /\ \E protocol \in IF kind \in {"subscribe", "unsubscribe"} THEN Protocol \cup {All} ELSE {All} :
          LET m == [id |-> Len(owner) + 1, peer |-> p, client |-> 0, kind |-> kind,
                    protocol |-> protocol] IN
          \/ /\ p \in StreamPeer /\ fd[p] # 0 /\ p \notin hup /\ kind # "short"
             /\ inbox' = [inbox EXCEPT ![p] = Append(@, m)]
             /\ UNCHANGED packets
          \/ /\ p \in PacketPeer
             /\ packets' = Append(packets, m)
             /\ UNCHANGED inbox
    /\ owner' = Append(owner, p)
    /\ UNCHANGED <<loopVars, tableVars, fd, backlog, hup, workVars, outVars, appVars>>

\* gracht_server_broadcast_event, by any thread of the application.
gracht_server_broadcast_event(protocol) ==
    /\ state # "SHUTDOWN" /\ events < scenario.events
    /\ events' = events + 1
    /\ SendClient({c \in Range(clients) : protocol \in c.subscriptions}, [type |-> "event", id |-> 0])
    /\ UNCHANGED <<loopVars, tableVars, sockVars, workVars, leaked, scenario>>

gracht_server_request_shutdown ==
    /\ scenario.stop /\ state = "RUNNING"
    /\ state' = "SHUTDOWN_REQUESTED"
    /\ UNCHANGED <<main, tableVars, sockVars, workVars, outVars, appVars>>

----------------------------------------------------------------------------
Event == {"listen", "packet"} \cup StreamPeer

HandleEvent ==
    \/ HandleShutdown \/ handle_connection \/ HandleDisconnect \/ HandleInput
    \/ handle_packet \/ PacketFails

MainStep ==
    \/ gracht_server_main_loop
    \/ \E e \in Event : IoWait(e)
    \/ HandleEvent
    \/ ReadMessage \/ ReadDone

Environment ==
    \/ \E p \in StreamPeer \cap scenario.peers : Connect(p) \/ HangUp(p)
    \/ \E p \in scenario.peers, kind \in scenario.kinds : PeerSends(p, kind)
    \/ \E protocol \in Protocol : gracht_server_broadcast_event(protocol)
    \/ gracht_server_request_shutdown

Next ==
    \/ MainStep
    \/ \E m \in work : WorkerHandles(m)
    \/ \E m \in deferred : RespondDeferred(m)
    \/ Environment

Spec == Init /\ [][Next]_vars

\* The main thread runs, epoll reports a socket that stays ready, and the workers
\* take what is queued.
FairSpec ==
    /\ Spec
    /\ WF_vars(MainStep)
    /\ \A e \in Event : SF_vars(IoWait(e))
    /\ WF_vars(\E m \in work : WorkerHandles(m))

----------------------------------------------------------------------------
(* Properties                                                              *)

\* The table of clients agrees with the sockets: every accepted stream client has an
\* entry under its socket and no entry outlives its socket; the callbacks have told the
\* application about exactly the handles in the table.
TableMatchesSockets ==
    state # "SHUTDOWN" =>
        /\ \A p \in StreamPeer : fd[p] # 0 =>
              fd[p] \in DOMAIN clients /\ clients[fd[p]].peer = p /\ clients[fd[p]].stream
        /\ \A h \in DOMAIN clients : clients[h].stream => fd[clients[h].peer] = h
        /\ announced = DOMAIN clients

\* A peer is only sent responses and errors for messages of its own, although handles
\* are reused and messages name their client by handle.
ResponseToOwner ==
    \A p \in Peer : \A item \in outbox[p] : item.type # "event" => owner[item.id] = p

\* Without workers a request is answered before the next event is handled, so the handle
\* of its client cannot have been reused.
SingleThreadedResponses == ~scenario.workers => ResponseToOwner

\* The receive buffers are either free or with a worker: no path of the event loop or of
\* a worker loses one or releases one twice.
BuffersAccounted == free + Cardinality(work) = scenario.buffers

\* gracht_server_main_loop returns only after the server was shut down.
ReturnedMeansShutdown == main.at = "returned" => state = "SHUTDOWN"

\* A targeted event for a request reaches the client that sent the request, subscribed
\* or not.
TargetedEventSent == \A f \in failed : f[2].type # "error"

\* A client with a record is sent the events it subscribed to.
SubscriberReached == \A f \in failed : f[2].type # "event"

\* Every send buffer is given back after the message is sent or the send failed.
SendBuffersReturned == leaked = 0

\* A message on a stream connection is read, unless the peer disconnects or the server
\* is to shut down: running out of receive buffers delays it, but does not lose it.
RequestsAreRead ==
    \A p \in StreamPeer : \A i \in 1 .. MaxMessages :
        (\E k \in DOMAIN inbox[p] : inbox[p][k].id = i)
            ~> (state # "RUNNING" \/ \A k \in DOMAIN inbox[p] : inbox[p][k].id # i)

\* The socket and the entry of a peer that disconnected are released.
HangUpIsCleanedUp ==
    \A p \in StreamPeer : p \in hup ~> (fd[p] = 0 \/ state # "RUNNING")

\* A requested shutdown happens at the next event.
ShutdownAtNextEvent ==
    (state = "SHUTDOWN_REQUESTED" /\ \E e \in Event : Ready(e)) ~> state = "SHUTDOWN"

=============================================================================
