---------------------------- MODULE ServerProofs ----------------------------
(***************************************************************************)
(* Proofs about the server (Server): the table of clients, the receive     *)
(* buffers, who is sent a response, and when the main loop returns, for    *)
(* any number of peers, messages and buffers.                              *)
(*                                                                         *)
(* ServerInv is inductive.  Loop says that what gracht_io_wait reported    *)
(* still holds when the main thread acts on it, since only that thread     *)
(* accepts, reads and destroys; Table is TableMatchesSockets with what     *)
(* packet clients have; Mail says that every message under way was sent    *)
(* by the peer it names and is in one place, so that a worker and a queue  *)
(* never count the same buffer; Handles that, while nobody hangs up, the   *)
(* handle of a message still is its sender's; Replies is ResponseToOwner.  *)
(***************************************************************************)
EXTENDS Server, FiniteSetTheorems, WellFoundedInduction, TLAPS

\* An entry of server->clients.
Entry == [peer : Peer, stream : BOOLEAN, subscriptions : SUBSET Protocol]

\* The types of the variables that matter here.
Typed ==
    /\ scenario \in Scenario
    /\ state \in {"RUNNING", "SHUTDOWN_REQUESTED", "SHUTDOWN"}
    /\ fd \in [StreamPeer -> {0} \cup Fd]
    /\ backlog \subseteq StreamPeer /\ hup \subseteq StreamPeer
    /\ inbox \in [StreamPeer -> Seq(Message)] /\ packets \in Seq(Message)
    /\ owner \in Seq(Peer)
    /\ work \subseteq Message /\ deferred \subseteq Message
    /\ outbox \in [Peer -> SUBSET Item]

\* Where the main thread is.  Only it accepts, reads and destroys, so what it was told by
\* gracht_io_wait still holds when it handles the event.
Loop ==
    /\ main.at \in {"loop", "wait", "event", "read", "returned"}
    /\ state = "SHUTDOWN" => main.at = "returned"
    /\ main.at = "event" =>
          /\ main.event = "listen" => backlog # {}
          /\ main.event = "packet" => packets # <<>>
          /\ main.event \in StreamPeer => fd[main.event] # 0 /\ (main.disconnect => main.event \in hup)
    /\ main.at = "read" => main.event \in StreamPeer /\ fd[main.event] # 0
    /\ \A p \in backlog : fd[p] = 0

\* The table: an entry for each accepted peer and for packet clients that subscribed.
Table ==
    state # "SHUTDOWN" =>
        /\ DOMAIN clients \subseteq PacketPeer \cup Fd
        /\ \A h \in DOMAIN clients : clients[h] \in Entry
        /\ \A p \in StreamPeer : fd[p] # 0 =>
              fd[p] \in DOMAIN clients /\ clients[fd[p]].peer = p /\ clients[fd[p]].stream
        /\ \A h \in DOMAIN clients : clients[h].stream =>
              clients[h].peer \in StreamPeer /\ fd[clients[h].peer] = h
        /\ \A h \in DOMAIN clients : h \in PacketPeer => clients[h].peer = h /\ ~clients[h].stream
        /\ announced = DOMAIN clients

\* The message is one that its peer sent.
Sent(m) == m.id \in DOMAIN owner /\ owner[m.id] = m.peer

\* The handle a message carries is still that of its sender.
Current(m) ==
    IF m.peer \in StreamPeer THEN fd[m.peer] # 0 /\ m.client = fd[m.peer] ELSE m.client = m.peer

\* Every message that is under way was sent by the peer it names and is in one place.
Mail ==
    /\ \A p \in StreamPeer : \A i \in DOMAIN inbox[p] : inbox[p][i].peer = p /\ Sent(inbox[p][i])
    /\ \A i \in DOMAIN packets : packets[i].peer \in PacketPeer /\ Sent(packets[i])
    /\ \A m \in work \cup deferred : Sent(m)
    /\ \A p \in StreamPeer : \A i, j \in DOMAIN inbox[p] : inbox[p][i].id = inbox[p][j].id => i = j
    /\ \A i, j \in DOMAIN packets : packets[i].id = packets[j].id => i = j
    /\ \A m \in work :
          /\ \A p \in StreamPeer : \A i \in DOMAIN inbox[p] : inbox[p][i].id # m.id
          /\ \A i \in DOMAIN packets : packets[i].id # m.id

\* Servers in which a request is answered before its handle can be reused: no stream client
\* hangs up, or the main thread answers every request at once.
Timely == ~scenario.hangup \/ (~scenario.workers /\ ~scenario.defer)

\* What the workers and the deferring handlers hold.
Handles ==
    /\ ~scenario.hangup => hup = {}
    /\ ~scenario.workers \/ state = "SHUTDOWN" => work = {}
    /\ ~scenario.defer => deferred = {}
    /\ ~scenario.hangup /\ state # "SHUTDOWN" =>
          \A m \in work \cup deferred : Current(m)

\* ResponseToOwner, with a domain: what a peer was sent answers a message of its own.
Replies ==
    Timely => \A p \in Peer : \A item \in outbox[p] :
                 item.type # "event" => item.id \in DOMAIN owner /\ owner[item.id] = p

\* Packets are of the kinds that are sent.
Kinds == \A i \in DOMAIN packets : packets[i].kind \in scenario.kinds

\* BuffersAccounted, with the facts that make it countable.
Buffers == IsFiniteSet(work) /\ free \in Int /\ BuffersAccounted

\* The inductive invariant.
ServerInv ==
    /\ Typed /\ Loop /\ Table /\ Mail /\ Handles /\ Replies /\ Kinds /\ Buffers

\* The invariant holds when the server is created.
LEMMA ServerInit == Init => ServerInv
<1> SUFFICES ASSUME Init PROVE ServerInv
  BY Zenon
<1>1. Typed /\ Loop /\ Table
  BY DEF Init, Typed, Loop, Table
<1>2. Mail /\ Kinds
  BY DEF Init, Mail, Kinds
<1>3. Handles /\ Replies
  BY DEF Init, Handles, Replies
<1>4. Buffers
  BY FS_EmptySet, ServerAssumption DEF Init, Buffers, BuffersAccounted
<1>5. QED
  BY <1>1, <1>2, <1>3, <1>4, Zenon DEF ServerInv

\* What is under way stays as it is when neither a mailbox nor the ledger of senders changes.
LEMMA MailSame ==
    ASSUME Mail, UNCHANGED <<inbox, packets, owner, work, deferred>>
    PROVE  Mail'
  BY DEF Mail, Sent

----------------------------------------------------------------------------
(* A message that is read                                                  *)

\* The message is from a peer that is connected, or from a packet peer, it names the
\* handle of that peer, and no worker has it.
Incoming(m) ==
    /\ m \in Message /\ Sent(m)
    /\ \A w \in work : w.id # m.id
    /\ Current(m)

\* handle_client_event reads the first message of a connected peer and dispatches it
\* under the socket of that peer.
LEMMA ReadsOne ==
    ASSUME ServerInv, ReadMessage
    PROVE  /\ main.event \in StreamPeer /\ inbox[main.event] # <<>>
           /\ inbox' = [inbox EXCEPT ![main.event] = Tail(@)]
           /\ HasBuffer
           /\ \E m \in Message :
                 /\ Incoming(m) /\ Dispatch(m)
                 /\ m.id = Head(inbox[main.event]).id
<1> DEFINE p == main.event
           x == Head(inbox[p])
           m == [x EXCEPT !.client = fd[p]]
<1>1. p \in StreamPeer /\ fd[p] # 0 /\ fd[p] \in Fd
  BY Zenon DEF ServerInv, Loop, ReadMessage, Typed
<1>2. inbox[p] \in Seq(Message) /\ inbox[p] # <<>>
  BY <1>1, Zenon DEF ServerInv, Typed, ReadMessage, CanReceive
<1>3. x \in Message /\ x = inbox[p][1] /\ 1 \in DOMAIN inbox[p]
  BY <1>2
<1>4. m \in Message /\ m.id = x.id /\ m.peer = x.peer /\ m.client = fd[p]
  BY <1>1, <1>3, Zenon DEF Message
<1>5. x.peer = p /\ Sent(x) /\ \A w \in work : w.id # x.id
  BY <1>1, <1>3 DEF ServerInv, Mail
<1>6. Incoming(m)
  BY <1>1, <1>4, <1>5, Zenon DEF Incoming, Sent, Current
<1>7. Dispatch(m) /\ inbox' = [inbox EXCEPT ![main.event] = Tail(@)] /\ HasBuffer
  BY Zenon DEF ReadMessage, CanReceive
<1>8. QED
  BY <1>1, <1>2, <1>4, <1>6, <1>7, Zenon

\* handle_packet dispatches the first packet under the address it came from.
LEMMA ReadsPacket ==
    ASSUME ServerInv, handle_packet
    PROVE  /\ packets # <<>> /\ packets' = Tail(packets)
           /\ HasBuffer
           /\ \E m \in Message :
                 /\ Incoming(m) /\ Dispatch(m)
                 /\ m.id = Head(packets).id
<1> DEFINE x == Head(packets)
           m == [x EXCEPT !.client = x.peer]
<1>2. packets \in Seq(Message) /\ packets # <<>>
  BY Zenon DEF ServerInv, Typed, handle_packet, CanReceive
<1>3. x \in Message /\ x = packets[1] /\ 1 \in DOMAIN packets
  BY <1>2
<1>4. m \in Message /\ m.id = x.id /\ m.peer = x.peer /\ m.client = x.peer
  BY <1>3, Zenon DEF Message
<1>5. x.peer \in PacketPeer /\ Sent(x) /\ \A w \in work : w.id # x.id
  BY <1>3 DEF ServerInv, Mail
<1>6. Incoming(m)
  BY <1>4, <1>5, ServerAssumption, Zenon DEF Incoming, Sent, Current
<1>7. Dispatch(m) /\ packets' = Tail(packets) /\ HasBuffer
  BY Zenon DEF handle_packet, CanReceive
<1>8. QED
  BY <1>2, <1>4, <1>6, <1>7, Zenon

\* What Dispatch does to the table: entries of packet clients come and go.
LEMMA DispatchKeepsTable ==
    ASSUME ServerInv, state # "SHUTDOWN", NEW m \in Message, Incoming(m), Dispatch(m),
           UNCHANGED <<state, fd>>
    PROVE  Table'
<1>1. /\ m.peer \in Peer /\ m.protocol \in Protocol \cup {All}
      /\ StreamPeer \cap PacketPeer = {} /\ PacketPeer \cap Fd = {} /\ Peer = StreamPeer \cup PacketPeer
  BY ServerAssumption DEF Message, Peer, Fd
<1>2. CASE m.kind = "subscribe" /\ Subscribe(m)
  <2>1. CASE m.client \in DOMAIN clients
    BY <1>1, <1>2, <2>1 DEF Subscribe, ServerInv, Table, Entry
  <2>2. CASE m.client \notin DOMAIN clients
    <3>1. m.peer \in PacketPeer /\ m.client = m.peer
      BY <1>1, <2>2, Zenon DEF Incoming, Current, ServerInv, Table
    <3>2. /\ DOMAIN clients' = DOMAIN clients \cup {m.peer}
          /\ clients'[m.peer] \in Entry /\ clients'[m.peer].peer = m.peer
          /\ clients'[m.peer].stream = FALSE
          /\ \A h \in DOMAIN clients : clients'[h] = clients[h]
      <4> DEFINE added == IF m.protocol = All THEN Protocol ELSE {m.protocol}
                 e == [peer |-> m.peer, stream |-> FALSE, subscriptions |-> added]
      <4>1. clients' = Put(clients, m.peer, e)
        BY <1>2, <2>2, <3>1, Zenon DEF Subscribe
      <4>2. added \in SUBSET Protocol
        BY <1>1, Zenon
      <4>3. e \in Entry /\ e.peer = m.peer /\ e.stream = FALSE
        BY <1>1, <4>2, Zenon DEF Entry
      <4> HIDE DEF e
      <4>4. /\ DOMAIN clients' = DOMAIN clients \cup {m.peer} /\ clients'[m.peer] = e
            /\ \A h \in DOMAIN clients : h # m.peer => clients'[h] = clients[h]
        BY <4>1, Zenon DEF Put
      <4>5. QED
        BY <2>2, <3>1, <4>3, <4>4, Zenon
    <3>3. announced' = announced \cup {m.peer}
      BY <1>2, <2>2, <3>1, Zenon DEF Subscribe
    <3>4. QED
      BY <1>1, <2>2, <3>1, <3>2, <3>3 DEF ServerInv, Table, Typed
  <2>3. QED
    BY <2>1, <2>2, Zenon
<1>3. CASE m.kind = "unsubscribe" /\ Unsubscribe(m)
  <2>1. CASE m.client \notin DOMAIN clients
    BY <1>3, <2>1 DEF Unsubscribe, tableVars, ServerInv, Table
  <2>2. CASE m.client \in DOMAIN clients /\ m.protocol = All /\ ~clients[m.client].stream
    <3>1. m.peer \in PacketPeer /\ m.client = m.peer
      BY <1>1, <2>2, Zenon DEF Incoming, Current, ServerInv, Table
    <3>2. /\ DOMAIN clients' = DOMAIN clients \ {m.peer}
          /\ \A h \in DOMAIN clients' : clients'[h] = clients[h]
          /\ announced' = announced \ {m.peer}
      BY <1>3, <2>2, <3>1, Zenon DEF Unsubscribe, Drop, Restrict
    <3>3. QED
      BY <1>1, <3>1, <3>2 DEF ServerInv, Table, Typed
  <2>3. CASE m.client \in DOMAIN clients /\ ~(m.protocol = All /\ ~clients[m.client].stream)
    BY <1>1, <1>3, <2>3 DEF Unsubscribe, ServerInv, Table, Entry
  <2>4. QED
    BY <2>1, <2>2, <2>3, Zenon
<1>4. CASE UNCHANGED tableVars
  BY <1>4, Zenon DEF tableVars, ServerInv, Table
<1>5. QED
  BY <1>2, <1>3, <1>4, Zenon DEF Dispatch, tableVars

----------------------------------------------------------------------------
(* What is sent                                                            *)

\* A send to entries of the table reaches their peers only.
LEMMA SendClientReaches ==
    ASSUME outbox \in [Peer -> SUBSET Item], NEW entries, NEW item \in Item, SendClient(entries, item)
    PROVE  /\ outbox' \in [Peer -> SUBSET Item]
           /\ \A p \in Peer : \A x \in outbox'[p] :
                 x \in outbox[p] \/ (x = item /\ \E c \in entries : c.stream /\ c.peer = p)
BY Zenon DEF SendClient

\* What was sent is what had been sent, or concerns message m; and if the handle of m is
\* current it went to the sender of m.
Concerns(m) ==
    /\ outbox' \in [Peer -> SUBSET Item]
    /\ \A p \in Peer : \A x \in outbox'[p] :
          \/ x \in outbox[p]
          \/ x.id = m.id /\ (Current(m) => p = m.peer)

\* gracht_server_respond sends the response to the client under the handle of the message,
\* or back where a packet came from.
LEMMA RespondConcerns ==
    ASSUME ServerInv, state # "SHUTDOWN", NEW m \in Message, gracht_server_respond(m)
    PROVE  Concerns(m)
<1> DEFINE item == [type |-> "response", id |-> m.id]
<1>1. item \in Item /\ item.id = m.id /\ m.peer \in Peer
  BY ServerAssumption DEF Item, Message
<1> HIDE DEF item
<1>2. outbox \in [Peer -> SUBSET Item]
  BY Zenon DEF ServerInv, Typed
<1>3. CASE m.client \in DOMAIN clients
  <2>1. SendClient({clients[m.client]}, item)
    BY <1>3, Zenon DEF gracht_server_respond, item
  <2>2. Current(m) /\ clients[m.client].stream => clients[m.client].peer = m.peer
    BY <1>1, <1>3, ServerAssumption DEF Current, ServerInv, Table, Peer
  <2>3. QED
    BY <1>1, <1>2, <2>1, <2>2, SendClientReaches DEF Concerns
<1>4. CASE m.client \notin DOMAIN clients /\ m.peer \in PacketPeer
  <2>1. outbox' = [outbox EXCEPT ![m.peer] = @ \cup {item}]
    BY <1>4, Zenon DEF gracht_server_respond, item
  <2>2. QED
    BY <1>1, <1>2, <2>1, Zenon DEF Concerns
<1>5. CASE m.client \notin DOMAIN clients /\ m.peer \notin PacketPeer
  <2>1. outbox' = outbox
    BY <1>5, Zenon DEF gracht_server_respond
  <2>2. QED
    BY <1>2, <2>1, Zenon DEF Concerns
<1>6. QED
  BY <1>3, <1>4, <1>5, Zenon

\* The error event of gracht_control_event_error_single goes through the table only.
LEMMA ErrorConcerns ==
    ASSUME ServerInv, state # "SHUTDOWN", NEW m \in Message, gracht_control_event_error_single(m)
    PROVE  Concerns(m)
<1> DEFINE item == [type |-> "error", id |-> m.id]
<1>1. item \in Item /\ item.id = m.id /\ m.peer \in Peer
  BY ServerAssumption DEF Item, Message
<1> HIDE DEF item
<1>2. outbox \in [Peer -> SUBSET Item]
  BY Zenon DEF ServerInv, Typed
<1>3. CASE m.client \in DOMAIN clients
  <2>1. SendClient({clients[m.client]}, item)
    BY <1>3, Zenon DEF gracht_control_event_error_single, gracht_server_send_event, item
  <2>2. Current(m) /\ clients[m.client].stream => clients[m.client].peer = m.peer
    BY <1>1, <1>3, ServerAssumption DEF Current, ServerInv, Table, Peer
  <2>3. QED
    BY <1>1, <1>2, <2>1, <2>2, SendClientReaches DEF Concerns
<1>4. CASE m.client \notin DOMAIN clients
  <2>1. outbox' = outbox
    BY <1>4, Zenon DEF gracht_control_event_error_single, gracht_server_send_event
  <2>2. QED
    BY <1>2, <2>1, Zenon DEF Concerns
<1>5. QED
  BY <1>3, <1>4, Zenon

\* A handler answers the message, keeps it or rejects it.
LEMMA InvokeConcerns ==
    ASSUME ServerInv, state # "SHUTDOWN", NEW m \in Message, server_invoke_action(m)
    PROVE  /\ Concerns(m)
           /\ deferred' \subseteq deferred \cup {m}
           /\ ~scenario.defer => deferred' = deferred
<1>1. CASE m.kind = "call" /\ gracht_server_respond(m) /\ UNCHANGED deferred
  BY <1>1, RespondConcerns, Zenon
<1>2. CASE m.kind = "call" /\ scenario.defer /\ deferred' = deferred \cup {m} /\ UNCHANGED outVars
  BY <1>2, Zenon DEF outVars, Concerns, ServerInv, Typed
<1>3. CASE m.kind = "unknown" /\ gracht_control_event_error_single(m) /\ UNCHANGED deferred
  BY <1>3, ErrorConcerns, Zenon
<1>4. QED
  BY <1>1, <1>2, <1>3, Zenon DEF server_invoke_action

----------------------------------------------------------------------------
(* What Dispatch does                                                      *)

\* Without a worker pool the message is handled at once, with one it takes a receive
\* buffer along.
LEMMA DispatchConcerns ==
    ASSUME ServerInv, state # "SHUTDOWN", NEW m \in Message, Incoming(m), HasBuffer, Dispatch(m),
           scenario' = scenario
    PROVE  /\ Concerns(m) /\ Current(m)
           /\ deferred' \subseteq deferred \cup {m}
           /\ ~scenario.defer => deferred' = deferred
           /\ work' \subseteq work \cup {m}
           /\ ~scenario.workers => work' = work
           /\ Buffers'
<1>1. Current(m) /\ m \notin work
  BY Zenon DEF Incoming
<1>2. CASE UNCHANGED <<workVars, outVars>>
  BY <1>1, <1>2, Zenon DEF workVars, outVars, Concerns, ServerInv, Typed, Buffers, BuffersAccounted
<1>3. CASE server_invoke_action(m) /\ UNCHANGED <<tableVars, work, free>>
  BY <1>1, <1>3, InvokeConcerns, Zenon DEF ServerInv, Buffers, BuffersAccounted
<1>4. CASE /\ scenario.workers /\ work' = work \cup {m} /\ free' = free - 1
           /\ UNCHANGED <<tableVars, deferred, outVars>>
  <2>1. IsFiniteSet(work') /\ Cardinality(work') = Cardinality(work) + 1
    BY <1>1, <1>4, FS_AddElement, Zenon DEF ServerInv, Buffers
  <2>2. Cardinality(work) \in Nat
    BY FS_CardinalityType, Zenon DEF ServerInv, Buffers
  <2>3. Buffers'
    BY <1>4, <2>1, <2>2 DEF ServerInv, Buffers, BuffersAccounted
  <2>4. Concerns(m)
    BY <1>4, Zenon DEF outVars, Concerns, ServerInv, Typed
  <2>5. QED
    BY <1>1, <1>4, <2>3, <2>4, Zenon
<1>5. QED
  BY <1>2, <1>3, <1>4, Zenon DEF Dispatch

----------------------------------------------------------------------------
(* The steps                                                               *)

\* What is left of a queue after its head is taken.
LEMMA Shorter ==
    ASSUME NEW s \in Seq(Message), s # <<>>
    PROVE  /\ Tail(s) \in Seq(Message) /\ 1 \in DOMAIN s /\ Head(s) = s[1]
           /\ \A i \in DOMAIN Tail(s) : i + 1 \in DOMAIN s /\ i + 1 # 1 /\ Tail(s)[i] = s[i + 1]
           /\ \A i \in DOMAIN Tail(s) : i \in Nat
OBVIOUS

\* A queue to which a message is added.
LEMMA Longer ==
    ASSUME NEW s \in Seq(Message), NEW m \in Message
    PROVE  /\ Append(s, m) \in Seq(Message) /\ Append(s, m) # <<>>
           /\ \A i \in DOMAIN Append(s, m) :
                 \/ i \in DOMAIN s /\ Append(s, m)[i] = s[i]
                 \/ i = Len(s) + 1 /\ Append(s, m)[i] = m
OBVIOUS

\* Reading a message of a stream client and dispatching it.
LEMMA ReadKeeps ==
    ASSUME ServerInv, ReadMessage
    PROVE  ServerInv'
<1> DEFINE p == main.event
<1>1. p \in StreamPeer /\ inbox[p] # <<>> /\ inbox' = [inbox EXCEPT ![p] = Tail(@)] /\ HasBuffer
  BY ReadsOne, Zenon
<1>2. PICK m \in Message : Incoming(m) /\ Dispatch(m) /\ m.id = Head(inbox[p]).id
  BY ReadsOne, Zenon
<1>3. /\ UNCHANGED <<state, main, fd, backlog, hup, packets, owner, scenario>>
      /\ state # "SHUTDOWN"
  BY Zenon DEF ReadMessage, loopVars, appVars, ServerInv, Loop
<1>4. /\ Concerns(m) /\ Current(m)
      /\ deferred' \subseteq deferred \cup {m} /\ (~scenario.defer => deferred' = deferred)
      /\ work' \subseteq work \cup {m} /\ (~scenario.workers => work' = work)
      /\ Buffers'
  BY <1>1, <1>2, <1>3, DispatchConcerns, Zenon
<1> HIDE DEF p
<1>5. inbox[p] \in Seq(Message)
  BY <1>1, Zenon DEF ServerInv, Typed
<1>6. Typed'
  BY <1>1, <1>3, <1>4, <1>5, Shorter, Zenon DEF ServerInv, Typed, Concerns
<1>7. Loop' /\ Kinds'
  BY <1>3, Zenon DEF ServerInv, Loop, Kinds
<1>8. Table'
  BY <1>2, <1>3, DispatchKeepsTable, Zenon
<1>9. Mail'
  <2>1. inbox'[p] = Tail(inbox[p]) /\ \A q \in StreamPeer : q # p => inbox'[q] = inbox[q]
    BY <1>1, Zenon DEF ServerInv, Typed
  <2>2. /\ 1 \in DOMAIN inbox[p] /\ m.id = inbox[p][1].id
        /\ \A i \in DOMAIN inbox'[p] : /\ i + 1 \in DOMAIN inbox[p] /\ i \in Nat /\ i + 1 # 1
                                       /\ inbox'[p][i] = inbox[p][i + 1]
    <3> DEFINE s == inbox[p]
    <3>1. s \in Seq(Message) /\ s # <<>> /\ m.id = Head(s).id /\ inbox'[p] = Tail(s)
      BY <1>1, <1>2, <1>5, <2>1, Zenon
    <3> HIDE DEF s
    <3>2. /\ 1 \in DOMAIN s /\ Head(s) = s[1]
          /\ \A i \in DOMAIN Tail(s) : i + 1 \in DOMAIN s /\ i \in Nat /\ i + 1 # 1 /\ Tail(s)[i] = s[i + 1]
      BY <3>1, Shorter, Zenon
    <3>3. QED
      BY <3>1, <3>2, Zenon DEF s
  <2>3. Sent(m) /\ m.peer = p
    BY <1>1, <1>2, <2>2 DEF Incoming, ServerInv, Mail, Sent
  <2>4. ASSUME NEW q \in StreamPeer, NEW i \in DOMAIN inbox'[q]
        PROVE  inbox'[q][i].peer = q /\ Sent(inbox'[q][i]) /\ inbox'[q][i].id # m.id
    <3>1. CASE q = p
      BY <1>1, <2>2, <3>1 DEF ServerInv, Mail
    <3>2. CASE q # p
      BY <2>1, <2>3, <3>2 DEF ServerInv, Mail, Sent
    <3>3. QED
      BY <3>1, <3>2, Zenon
  <2>5. ASSUME NEW q \in StreamPeer, NEW i \in DOMAIN inbox'[q], NEW k \in DOMAIN inbox'[q],
               inbox'[q][i].id = inbox'[q][k].id
        PROVE  i = k
    <3>1. CASE q = p
      BY <1>1, <2>2, <2>5, <3>1 DEF ServerInv, Mail
    <3>2. CASE q # p
      BY <2>1, <2>5, <3>2, Zenon DEF ServerInv, Mail
    <3>3. QED
      BY <3>1, <3>2, Zenon
  <2>6. \A w \in work, q \in StreamPeer : \A i \in DOMAIN inbox'[q] : inbox'[q][i].id # w.id
    BY <1>1, <2>1, <2>2 DEF ServerInv, Mail
  <2>7. \A i \in DOMAIN packets : packets[i].id # m.id
    BY <1>1, <2>3, ServerAssumption DEF ServerInv, Mail, Sent
  <2>8. \A x \in work' \cup deferred' : Sent(x)
    BY <1>4, <2>3, Zenon DEF ServerInv, Mail
  <2>9. \A x \in work' :
          /\ \A q \in StreamPeer : \A i \in DOMAIN inbox'[q] : inbox'[q][i].id # x.id
          /\ \A i \in DOMAIN packets : packets[i].id # x.id
    BY <1>4, <2>4, <2>6, <2>7 DEF ServerInv, Mail
  <2>10. QED
    BY <1>3, <2>4, <2>5, <2>8, <2>9 DEF ServerInv, Mail, Sent
<1>10. Handles'
  BY <1>3, <1>4, Zenon DEF ServerInv, Handles, Current
<1>11. Replies'
  BY <1>2, <1>3, <1>4, Zenon DEF ServerInv, Replies, Timely, Concerns, Incoming, Sent
<1>12. QED
  BY <1>4, <1>6, <1>7, <1>8, <1>9, <1>10, <1>11, Zenon DEF ServerInv

\* Reading a packet and dispatching it.
LEMMA PacketKeeps ==
    ASSUME ServerInv, handle_packet
    PROVE  ServerInv'
<1>1. packets # <<>> /\ packets' = Tail(packets) /\ HasBuffer
  BY ReadsPacket, Zenon
<1>2. PICK m \in Message : Incoming(m) /\ Dispatch(m) /\ m.id = Head(packets).id
  BY ReadsPacket, Zenon
<1>3. /\ UNCHANGED <<state, fd, backlog, hup, inbox, owner, scenario>>
      /\ main' = [at |-> "loop"] /\ state # "SHUTDOWN"
  BY Zenon DEF handle_packet, appVars
<1>4. /\ Concerns(m) /\ Current(m)
      /\ deferred' \subseteq deferred \cup {m} /\ (~scenario.defer => deferred' = deferred)
      /\ work' \subseteq work \cup {m} /\ (~scenario.workers => work' = work)
      /\ Buffers'
  BY <1>1, <1>2, <1>3, DispatchConcerns, Zenon
<1>5. packets \in Seq(Message)
  BY Zenon DEF ServerInv, Typed
<1>6. Typed'
  BY <1>1, <1>3, <1>4, <1>5, Shorter, Zenon DEF ServerInv, Typed, Concerns
<1>7. Loop'
  BY <1>3, Zenon DEF ServerInv, Loop
<1>8. Table'
  BY <1>2, <1>3, DispatchKeepsTable, Zenon
<1>9. /\ 1 \in DOMAIN packets /\ m.id = packets[1].id
      /\ \A i \in DOMAIN packets' : /\ i + 1 \in DOMAIN packets /\ i \in Nat /\ i + 1 # 1
                                    /\ packets'[i] = packets[i + 1]
  BY <1>1, <1>2, <1>5, Shorter, Zenon
<1>10. Kinds'
  BY <1>3, <1>9, Zenon DEF ServerInv, Kinds
<1>11. Mail'
  <2>3. Sent(m) /\ m.peer \in PacketPeer
    BY <1>2, <1>9 DEF Incoming, ServerInv, Mail, Sent
  <2>4. \A i \in DOMAIN packets' :
          packets'[i].peer \in PacketPeer /\ Sent(packets'[i]) /\ packets'[i].id # m.id
    BY <1>9 DEF ServerInv, Mail
  <2>5. \A i, k \in DOMAIN packets' : packets'[i].id = packets'[k].id => i = k
    BY <1>9 DEF ServerInv, Mail
  <2>6. \A w \in work : \A i \in DOMAIN packets' : packets'[i].id # w.id
    BY <1>9 DEF ServerInv, Mail
  <2>7. \A q \in StreamPeer : \A i \in DOMAIN inbox[q] : inbox[q][i].id # m.id
    BY <2>3, ServerAssumption DEF ServerInv, Mail, Sent
  <2>8. \A x \in work' \cup deferred' : Sent(x)
    BY <1>4, <2>3, Zenon DEF ServerInv, Mail
  <2>9. \A x \in work' :
          /\ \A q \in StreamPeer : \A i \in DOMAIN inbox[q] : inbox[q][i].id # x.id
          /\ \A i \in DOMAIN packets' : packets'[i].id # x.id
    BY <1>4, <2>4, <2>6, <2>7 DEF ServerInv, Mail
  <2>10. QED
    BY <1>3, <2>4, <2>5, <2>8, <2>9 DEF ServerInv, Mail, Sent
<1>12. Handles'
  BY <1>3, <1>4, Zenon DEF ServerInv, Handles, Current
<1>13. Replies'
  BY <1>2, <1>3, <1>4, Zenon DEF ServerInv, Replies, Timely, Concerns, Incoming, Sent
<1>14. QED
  BY <1>4, <1>6, <1>7, <1>8, <1>10, <1>11, <1>12, <1>13, Zenon DEF ServerInv

\* A worker, or a thread that answers later, on the client the message names.
LEMMA WorkerKeeps ==
    ASSUME ServerInv, NEW m \in work, WorkerHandles(m)
    PROVE  ServerInv'
<1>1. /\ UNCHANGED <<state, main, clients, announced, fd, backlog, hup, inbox, packets, owner, scenario>>
      /\ work' = work \ {m} /\ free' = free + 1 /\ server_invoke_action(m)
  BY Zenon DEF WorkerHandles, loopVars, tableVars, sockVars, appVars
<1>2. m \in Message /\ Sent(m)
  BY Zenon DEF ServerInv, Typed, Mail
<1>3. state # "SHUTDOWN" /\ scenario.workers
  BY Zenon DEF ServerInv, Handles
<1>4. /\ Concerns(m)
      /\ deferred' \subseteq deferred \cup {m} /\ (~scenario.defer => deferred' = deferred)
  BY <1>1, <1>2, <1>3, InvokeConcerns, Zenon
<1>5. Typed' /\ Loop' /\ Table' /\ Kinds'
  BY <1>1, <1>2, <1>4 DEF ServerInv, Typed, Loop, Table, Kinds, Concerns
<1>6. Mail'
  BY <1>1, <1>2, <1>4 DEF ServerInv, Mail, Sent
<1>7. Handles'
  BY <1>1, <1>4, Zenon DEF ServerInv, Handles, Current
<1>8. Replies'
  <2>1. Timely => Current(m)
    BY <1>3, Zenon DEF ServerInv, Handles, Timely
  <2>2. QED
    BY <1>1, <1>2, <1>4, <2>1, Zenon DEF ServerInv, Replies, Timely, Concerns, Sent
<1>9. Buffers'
  <2>1. IsFiniteSet(work') /\ Cardinality(work') = Cardinality(work) - 1
    BY <1>1, FS_RemoveElement, Zenon DEF ServerInv, Buffers
  <2>2. Cardinality(work) \in Nat
    BY FS_CardinalityType, Zenon DEF ServerInv, Buffers
  <2>3. QED
    BY <1>1, <2>1, <2>2 DEF ServerInv, Buffers, BuffersAccounted
<1>10. QED
  BY <1>5, <1>6, <1>7, <1>8, <1>9, Zenon DEF ServerInv

\* An answer to a message the handler had put aside.
LEMMA DeferredKeeps ==
    ASSUME ServerInv, NEW m \in deferred, RespondDeferred(m)
    PROVE  ServerInv'
<1>1. /\ UNCHANGED <<state, main, clients, announced, fd, backlog, hup, inbox, packets, owner,
                     scenario, work, free>>
      /\ state # "SHUTDOWN" /\ deferred' = deferred \ {m} /\ gracht_server_respond(m)
  BY Zenon DEF RespondDeferred, loopVars, tableVars, sockVars, appVars
<1>2. m \in Message /\ Sent(m) /\ scenario.defer
  BY Zenon DEF ServerInv, Typed, Mail, Handles
<1>3. Concerns(m)
  BY <1>1, <1>2, RespondConcerns, Zenon
<1>4. Timely => Current(m)
  BY <1>1, <1>2, Zenon DEF ServerInv, Handles, Timely
<1>5. Typed' /\ Loop' /\ Table' /\ Kinds' /\ Buffers'
  BY <1>1, <1>3, Zenon DEF ServerInv, Typed, Loop, Table, Kinds, Buffers, BuffersAccounted, Concerns
<1>6. Mail' /\ Handles'
  BY <1>1 DEF ServerInv, Mail, Sent, Handles, Current
<1>7. Replies'
  BY <1>1, <1>2, <1>3, <1>4, Zenon DEF ServerInv, Replies, Timely, Concerns, Sent
<1>8. QED
  BY <1>5, <1>6, <1>7, Zenon DEF ServerInv

\* Shutting down empties the table, closes the sockets and takes the work back.
LEMMA ShutdownKeeps ==
    ASSUME ServerInv, gracht_server_shutdown
    PROVE  ServerInv'
<1>1. /\ state' = "SHUTDOWN" /\ main' = [at |-> "returned"] /\ clients' = <<>>
      /\ fd' = [p \in StreamPeer |-> 0] /\ inbox' = [p \in StreamPeer |-> <<>>]
      /\ work' = {} /\ free' = scenario.buffers
      /\ UNCHANGED <<backlog, hup, packets, owner, deferred, outbox, scenario>>
  BY Zenon DEF gracht_server_shutdown, outVars, appVars
<1>2. Typed'
  BY <1>1 DEF ServerInv, Typed
<1>3. Loop' /\ Table' /\ Kinds'
  BY <1>1, Zenon DEF ServerInv, Typed, Loop, Table, Kinds
<1>4. Mail'
  BY <1>1 DEF ServerInv, Mail, Sent
<1>5. Handles' /\ Replies'
  BY <1>1, Zenon DEF ServerInv, Handles, Replies, Timely
<1>6. Buffers'
  BY <1>1, FS_EmptySet, ServerAssumption DEF ServerInv, Typed, Buffers, BuffersAccounted
<1>7. QED
  BY <1>2, <1>3, <1>4, <1>5, <1>6, Zenon DEF ServerInv

\* A step that only moves the main thread.
LEMMA LoopKeeps ==
    ASSUME ServerInv, Loop', UNCHANGED <<state, tableVars, sockVars, workVars, outVars, appVars>>
    PROVE  ServerInv'
BY DEF ServerInv, Typed, Loop, Table, Mail, Sent, Handles, Current, Timely, Replies, Kinds,
       Buffers, BuffersAccounted, tableVars, sockVars, workVars, outVars, appVars

\* The steps of gracht_server_main_loop that only choose what comes next: wait, take an event,
\* start to read, stop reading, give up on a packet.
LEMMA MainMovesKeep ==
    ASSUME ServerInv,
           \/ main.at = "loop" /\ state = "RUNNING" /\ main' = [at |-> "wait"]
           \/ \E e \in Event : main.at = "wait" /\ Ready(e)
                               /\ main' = [at |-> "event", event |-> e, disconnect |-> e \in hup]
           \/ HandleInput \/ ReadDone \/ PacketFails,
           UNCHANGED <<state, tableVars, sockVars, workVars, outVars, appVars>>
    PROVE  ServerInv'
<1>1. /\ UNCHANGED <<state, fd, backlog, hup, packets>>
      /\ state # "RUNNING" \/ state # "SHUTDOWN"
  BY Zenon DEF tableVars, sockVars, workVars, outVars, appVars
<1>2. CASE main.at = "loop" /\ state = "RUNNING" /\ main' = [at |-> "wait"]
  BY <1>1, <1>2, LoopKeeps, Zenon DEF ServerInv, Loop
<1>3. CASE \E e \in Event : main.at = "wait" /\ Ready(e)
                            /\ main' = [at |-> "event", event |-> e, disconnect |-> e \in hup]
  <2>1. PICK e \in Event : main.at = "wait" /\ Ready(e)
                            /\ main' = [at |-> "event", event |-> e, disconnect |-> e \in hup]
    BY <1>3, Zenon
  <2>2. {"listen", "packet"} \cap StreamPeer = {}
    BY ServerAssumption, Zenon DEF Peer
  <2>3. Loop'
    BY <1>1, <2>1, <2>2, Zenon DEF ServerInv, Loop, Ready, Event
  <2>4. QED
    BY <2>3, LoopKeeps, Zenon
<1>4. CASE HandleInput
  BY <1>1, <1>4, LoopKeeps, Zenon DEF HandleInput, ServerInv, Loop
<1>5. CASE ReadDone
  BY <1>1, <1>5, LoopKeeps, Zenon DEF ReadDone, ServerInv, Loop
<1>6. CASE PacketFails
  <2>1. main' = [at |-> "returned"] \/ main' = [at |-> "loop"]
    BY <1>6, Zenon DEF PacketFails
  <2>2. state # "SHUTDOWN"
    BY <1>6, Zenon DEF PacketFails
  <2>3. QED
    BY <1>1, <2>1, <2>2, LoopKeeps DEF ServerInv, Loop
<1>7. QED
  BY <1>2, <1>3, <1>4, <1>5, <1>6, Zenon

----------------------------------------------------------------------------
(* Connections                                                             *)

\* A set of natural numbers has a smallest member, which Min picks.
LEMMA MinOfSet ==
    ASSUME NEW S \in SUBSET Nat, S # {}
    PROVE  Min(S) \in S
<1>1. PICK x \in S : \A y \in S : ~(<<y, x>> \in OpToRel(<, Nat))
  BY NatLessThanWellFounded, WFMin, Zenon
<1>2. ASSUME NEW y \in S
      PROVE  x =< y
  <2>1. <<y, x>> \in Nat \X Nat /\ <<y, x>>[1] = y /\ <<y, x>>[2] = x /\ x \in Nat /\ y \in Nat
    BY Zenon
  <2>2. ~(y < x)
    BY <1>1, <2>1, Zenon DEF OpToRel
  <2>3. QED
    BY <2>1, <2>2
<1>3. QED
  BY <1>2, Zenon DEF Min

\* As long as a peer waits to be accepted there are more numbers for sockets than are in
\* use: there is one for each stream peer, and that peer has none yet.
LEMMA SocketLeft ==
    ASSUME ServerInv, backlog # {}
    PROVE  Min(Fd \ Range(fd)) \in Fd \ Range(fd)
<1>1. PICK p \in StreamPeer : fd[p] = 0
  BY Zenon DEF ServerInv, Typed, Loop
<1>2. fd \in [StreamPeer -> {0} \cup Fd]
  BY Zenon DEF ServerInv, Typed
<1>3. IsFiniteSet(StreamPeer) /\ Cardinality(StreamPeer) \in Nat
  BY ServerAssumption, FS_Subset, FS_CardinalityType, Zenon DEF Peer
<1>4. Fd \subseteq Nat \ {0} /\ IsFiniteSet(Fd) /\ Cardinality(Fd) = Cardinality(StreamPeer)
  <2> DEFINE n == Cardinality(StreamPeer)
  <2>1. n \in Nat
    BY <1>3, Zenon
  <2> HIDE DEF n
  <2>2. IsFiniteSet(1 .. n) /\ Cardinality(1 .. n) = IF 1 > n THEN 0 ELSE n - 1 + 1
    BY <2>1, FS_Interval
  <2>3. Cardinality(1 .. n) = n /\ 1 .. n \subseteq Nat \ {0}
    BY <2>1, <2>2
  <2>4. QED
    BY <2>2, <2>3, Zenon DEF Fd, n
<1>5. ASSUME Fd \ Range(fd) = {}
      PROVE  FALSE
  <2> DEFINE S == StreamPeer \ {p}
             T == {fd[q] : q \in S}
             f == [q \in S |-> fd[q]]
  <2>1. IsFiniteSet(S) /\ Cardinality(S) = Cardinality(StreamPeer) - 1
    BY <1>3, FS_RemoveElement, Zenon
  <2>2. f \in Surjection(S, T)
    BY Zenon DEF Surjection
  <2>3. IsFiniteSet(T) /\ Cardinality(T) <= Cardinality(S)
    BY <2>1, <2>2, FS_Surjection, Zenon
  <2>4. Fd \subseteq T
    BY <1>1, <1>2, <1>4, <1>5, Zenon DEF Range
  <2>5. Cardinality(Fd) <= Cardinality(T) /\ Cardinality(T) \in Nat
    BY <2>3, <2>4, FS_Subset, FS_CardinalityType, Zenon
  <2>6. QED
    BY <1>3, <1>4, <2>1, <2>3, <2>5
<1>6. QED
  BY <1>4, <1>5, MinOfSet, Zenon

\* The new socket is nobody else's, so no entry is replaced.
LEMMA ConnectionKeeps ==
    ASSUME ServerInv, handle_connection
    PROVE  ServerInv'
<1> DEFINE h == Min(Fd \ Range(fd))
<1>1. PICK p \in backlog :
         /\ backlog' = backlog \ {p} /\ fd' = [fd EXCEPT ![p] = h]
         /\ clients' = Put(clients, h, [peer |-> p, stream |-> TRUE, subscriptions |-> Protocol])
         /\ announced' = announced \cup {h}
  BY Zenon DEF handle_connection
<1>2. /\ main' = [at |-> "loop"] /\ state = "RUNNING"
      /\ UNCHANGED <<state, hup, inbox, packets, owner, work, deferred, free, outbox, scenario>>
  BY Zenon DEF handle_connection, workVars, outVars, appVars
<1>3. h \in Fd /\ h \notin Range(fd)
  BY <1>1, SocketLeft, Zenon
<1> HIDE DEF h
<1>4. p \in StreamPeer /\ fd[p] = 0 /\ fd \in [StreamPeer -> {0} \cup Fd] /\ h \in Nat \ {0}
  BY <1>3 DEF ServerInv, Typed, Loop, Fd
<1>5. fd'[p] = h /\ \A q \in StreamPeer : q # p => fd'[q] = fd[q]
  BY <1>1, <1>4, Zenon
<1>6. \A q \in StreamPeer : fd[q] # h
  BY <1>3, <1>4, Zenon DEF Range
<1>7. Typed'
  BY <1>1, <1>2, <1>3, <1>4, Zenon DEF ServerInv, Typed
<1>8. Loop'
  BY <1>1, <1>2, <1>4, <1>5, Zenon DEF ServerInv, Loop, Typed
<1>9. Table'
  <2> DEFINE e == [peer |-> p, stream |-> TRUE, subscriptions |-> Protocol]
  <2>1. e \in Entry /\ e.peer = p /\ e.stream = TRUE
    BY <1>4, Zenon DEF Entry, Peer
  <2>2. clients' = Put(clients, h, e)
    BY <1>1, Zenon
  <2> HIDE DEF e
  <2>3. /\ DOMAIN clients' = DOMAIN clients \cup {h} /\ clients'[h] = e
        /\ \A k \in DOMAIN clients : k # h => clients'[k] = clients[k]
    BY <2>2, Zenon DEF Put
  <2>4. PacketPeer \cap Fd = {}
    BY ServerAssumption DEF Peer, Fd
  <2>5. \A k \in DOMAIN clients : clients[k].stream /\ k # h => clients[k].peer # p
    BY <1>2, <1>4, <1>6, ServerAssumption DEF ServerInv, Table, Fd, Peer
  <2>6. ASSUME NEW q \in StreamPeer, fd'[q] # 0
        PROVE  fd'[q] \in DOMAIN clients' /\ clients'[fd'[q]].peer = q /\ clients'[fd'[q]].stream
    <3>1. CASE q = p
      BY <1>5, <2>1, <2>3, <3>1, Zenon
    <3>2. CASE q # p
      BY <1>2, <1>5, <1>6, <2>3, <2>6, <3>2 DEF ServerInv, Table
    <3>3. QED
      BY <3>1, <3>2, Zenon
  <2>7. ASSUME NEW k \in DOMAIN clients'
        PROVE  /\ k \in PacketPeer \cup Fd /\ clients'[k] \in Entry
               /\ clients'[k].stream => clients'[k].peer \in StreamPeer /\ fd'[clients'[k].peer] = k
               /\ k \in PacketPeer => clients'[k].peer = k /\ ~clients'[k].stream
    <3>1. CASE k = h
      BY <1>3, <1>4, <1>5, <2>1, <2>3, <2>4, <3>1, Zenon
    <3>2. CASE k # h
      BY <1>2, <1>5, <2>3, <2>5, <3>2 DEF ServerInv, Table
    <3>3. QED
      BY <3>1, <3>2, Zenon
  <2>8. announced' = DOMAIN clients'
    BY <1>1, <1>2, <2>3, Zenon DEF ServerInv, Table
  <2>9. QED
    BY <2>6, <2>7, <2>8, Zenon DEF Table
<1>10. Mail' /\ Kinds' /\ Buffers'
  BY <1>2 DEF ServerInv, Mail, Sent, Kinds, Buffers, BuffersAccounted
<1>11. Handles' /\ Replies'
  BY <1>2, <1>4, <1>5, Zenon DEF ServerInv, Handles, Current, Replies, Timely
<1>12. QED
  BY <1>7, <1>8, <1>9, <1>10, <1>11, Zenon DEF ServerInv

\* The entry that goes is the one of the socket that is closed.
LEMMA DisconnectKeeps ==
    ASSUME ServerInv, HandleDisconnect
    PROVE  ServerInv'
<1> DEFINE p == main.event
<1>1. /\ p \in StreamPeer /\ p \in hup /\ fd[p] # 0 /\ state = "RUNNING"
      /\ main' = [at |-> "loop"]
      /\ UNCHANGED <<state, backlog, hup, packets, owner, work, deferred, free, outbox, scenario>>
  BY Zenon DEF HandleDisconnect, ServerInv, Loop, workVars, outVars, appVars
<1>2. /\ announced' = announced \ {fd[p]} /\ fd' = [fd EXCEPT ![p] = 0]
      /\ inbox' = [inbox EXCEPT ![p] = <<>>]
      /\ DOMAIN clients' = DOMAIN clients \ {fd[p]}
      /\ \A k \in DOMAIN clients' : clients'[k] = clients[k]
  BY Zenon DEF HandleDisconnect, client_destroy, Drop, Restrict
<1> HIDE DEF p
<1>3. fd'[p] = 0 /\ \A q \in StreamPeer : q # p => fd'[q] = fd[q]
  BY <1>1, <1>2, Zenon DEF ServerInv, Typed
<1>4. inbox'[p] = <<>> /\ \A q \in StreamPeer : q # p => inbox'[q] = inbox[q]
  BY <1>1, <1>2, Zenon DEF ServerInv, Typed
<1>5. Typed'
  <2>1. Typed
    BY Zenon DEF ServerInv
  <2>2. fd' \in [StreamPeer -> {0} \cup Fd]
    BY <1>2, <2>1, Zenon DEF Typed
  <2>3. inbox' \in [StreamPeer -> Seq(Message)]
    <3>1. <<>> \in Seq(Message) /\ inbox \in [StreamPeer -> Seq(Message)]
      BY <2>1 DEF Typed
    <3>2. QED
      BY <1>2, <3>1, Zenon
  <2>4. QED
    BY <1>1, <2>1, <2>2, <2>3, Zenon DEF Typed
<1>6. Loop' /\ Kinds' /\ Buffers'
  BY <1>1, <1>3, Zenon DEF ServerInv, Loop, Typed, Kinds, Buffers, BuffersAccounted
<1>7. Table'
  BY <1>1, <1>2, <1>3 DEF ServerInv, Table
<1>8. Mail'
  BY <1>1, <1>4 DEF ServerInv, Mail, Sent
<1>9. Handles' /\ Replies'
  BY <1>1, Zenon DEF ServerInv, Handles, Current, Replies, Timely
<1>10. QED
  BY <1>5, <1>6, <1>7, <1>8, <1>9, Zenon DEF ServerInv

----------------------------------------------------------------------------
(* Peers and application                                                   *)

\* A stream peer connects or hangs up; it waits for an accept only without a socket.
LEMMA ConnectKeeps ==
    ASSUME ServerInv, NEW p \in StreamPeer, Connect(p) \/ HangUp(p)
    PROVE  ServerInv'
<1>1. /\ UNCHANGED <<state, main, clients, announced, fd, inbox, packets, owner, work, deferred,
                     free, outbox, scenario>>
      /\ \/ fd[p] = 0 /\ backlog' = backlog \cup {p} /\ hup' = hup
         \/ scenario.hangup /\ hup' = hup \cup {p} /\ backlog' = backlog
  BY Zenon DEF Connect, HangUp, loopVars, tableVars, workVars, outVars, appVars
<1>2. Typed' /\ Loop' /\ Table'
  BY <1>1 DEF ServerInv, Typed, Loop, Table
<1>3. Mail' /\ Kinds' /\ Buffers'
  <2>1. Mail /\ Kinds /\ Buffers
    BY Zenon DEF ServerInv
  <2>2. UNCHANGED <<inbox, packets, owner, work, deferred, free, scenario>>
    BY <1>1, Zenon
  <2>3. Mail'
    BY <2>1, <2>2, MailSame, Zenon
  <2>4. Kinds' /\ Buffers'
    BY <2>1, <2>2, Zenon DEF Kinds, Buffers, BuffersAccounted
  <2>5. QED
    BY <2>3, <2>4, Zenon
<1>4. Handles' /\ Replies'
  BY <1>1, Zenon DEF ServerInv, Handles, Current, Replies, Timely
<1>5. QED
  BY <1>2, <1>3, <1>4, Zenon DEF ServerInv

\* A message that is sent has a number of its own.
LEMMA PeerSendsKeeps ==
    ASSUME ServerInv, NEW p \in Peer, NEW kind \in scenario.kinds, PeerSends(p, kind)
    PROVE  ServerInv'
<1>1. /\ UNCHANGED <<state, main, clients, announced, fd, backlog, hup, work, deferred, free,
                     outbox, scenario>>
      /\ Len(owner) < scenario.messages /\ owner' = Append(owner, p) /\ owner \in Seq(Peer)
  BY Zenon DEF PeerSends, loopVars, tableVars, workVars, outVars, appVars, ServerInv, Typed
<1>2. PICK n \in 1 .. MaxMessages : n = Len(owner) + 1
  <2>1. scenario.messages \in 0 .. MaxMessages /\ MaxMessages \in Nat
    BY ServerAssumption, Zenon DEF ServerInv, Typed
  <2>2. QED
    BY <1>1, <2>1
<1>3. kind \in AllKinds
  BY ServerAssumption, Zenon DEF ServerInv, Typed
<1>4. PICK m \in Message :
         /\ m.id = n /\ m.peer = p /\ m.kind = kind
         /\ \/ p \in StreamPeer /\ inbox' = [inbox EXCEPT ![p] = Append(@, m)] /\ packets' = packets
            \/ p \in PacketPeer /\ packets' = Append(packets, m) /\ inbox' = inbox
  <2>1. PICK protocol \in Protocol \cup {All} :
           LET m == [id |-> Len(owner) + 1, peer |-> p, client |-> 0, kind |-> kind,
                     protocol |-> protocol] IN
           \/ p \in StreamPeer /\ inbox' = [inbox EXCEPT ![p] = Append(@, m)] /\ packets' = packets
           \/ p \in PacketPeer /\ packets' = Append(packets, m) /\ inbox' = inbox
    BY Zenon DEF PeerSends
  <2> DEFINE m == [id |-> n, peer |-> p, client |-> 0, kind |-> kind, protocol |-> protocol]
  <2>2. m \in Message /\ m.id = n /\ m.peer = p /\ m.kind = kind
    BY <1>2, <1>3, Zenon DEF Message
  <2>3. \/ p \in StreamPeer /\ inbox' = [inbox EXCEPT ![p] = Append(@, m)] /\ packets' = packets
        \/ p \in PacketPeer /\ packets' = Append(packets, m) /\ inbox' = inbox
    BY <1>2, <2>1, Zenon
  <2> HIDE DEF m
  <2>4. QED
    BY <2>2, <2>3, Zenon
<1> DEFINE Now(x) == x.id \in DOMAIN owner' /\ owner'[x.id] = x.peer
<1>6. /\ owner' \in Seq(Peer) /\ n \in DOMAIN owner' /\ owner'[n] = p /\ n \notin DOMAIN owner
      /\ \A i \in DOMAIN owner : i \in DOMAIN owner' /\ owner'[i] = owner[i]
  BY <1>1, <1>2
<1>7. Now(m) /\ \A x : Sent(x) => Now(x) /\ x.id # n
  BY <1>4, <1>6, Zenon DEF Sent
<1> HIDE DEF Now
<1>8. /\ inbox' \in [StreamPeer -> Seq(Message)] /\ packets' \in Seq(Message)
      /\ packets = <<>> \/ packets' # <<>>
  <2>1. packets \in Seq(Message) /\ inbox \in [StreamPeer -> Seq(Message)]
    BY Zenon DEF ServerInv, Typed
  <2>2. CASE p \in StreamPeer /\ inbox' = [inbox EXCEPT ![p] = Append(@, m)] /\ packets' = packets
    <3>1. Append(inbox[p], m) \in Seq(Message)
      BY <2>1, <2>2, Longer, Zenon
    <3>2. QED
      BY <2>1, <2>2, <3>1, Zenon
  <2>3. CASE p \in PacketPeer /\ packets' = Append(packets, m) /\ inbox' = inbox
    BY <2>1, <2>3, Longer, Zenon
  <2>4. QED
    BY <1>4, <2>2, <2>3, Zenon
<1>9. Typed' /\ Loop' /\ Table'
  BY <1>1, <1>6, <1>8, Zenon DEF ServerInv, Typed, Loop, Table
<1>10. Handles' /\ Buffers'
  BY <1>1, Zenon DEF ServerInv, Handles, Current, Buffers, BuffersAccounted
<1>11. Replies'
  <2>1. /\ outbox' = outbox /\ scenario' = scenario /\ Replies
        /\ \A i \in DOMAIN owner : i \in DOMAIN owner' /\ owner'[i] = owner[i]
    BY <1>1, <1>6, Zenon DEF ServerInv
  <2>2. Timely' => \A q \in Peer : \A item \in outbox[q] :
           item.type # "event" => item.id \in DOMAIN owner' /\ owner'[item.id] = q
    BY <2>1, Zenon DEF Replies, Timely
  <2>3. QED
    BY <2>1, <2>2, Zenon DEF Replies
<1>12. Kinds'
  <2>1. packets \in Seq(Message)
    BY Zenon DEF ServerInv, Typed
  <2>2. \A i \in DOMAIN packets' : packets'[i] = m \/ (i \in DOMAIN packets /\ packets'[i] = packets[i])
    BY <1>4, <2>1, Longer, Zenon
  <2>3. QED
    BY <1>1, <1>4, <2>2, Zenon DEF ServerInv, Kinds
<1>13. Mail'
  <2>1. CASE p \in StreamPeer /\ inbox' = [inbox EXCEPT ![p] = Append(@, m)] /\ packets' = packets
    <3> DEFINE s == inbox[p]
    <3>1. /\ inbox'[p] = Append(s, m) /\ s \in Seq(Message)
          /\ \A q \in StreamPeer : q # p => inbox'[q] = inbox[q]
      BY <2>1, Zenon DEF ServerInv, Typed
    <3>2. \A i \in DOMAIN s : s[i].peer = p /\ Sent(s[i]) /\ s[i].id # n
      BY <1>7, <2>1, Zenon DEF ServerInv, Mail
    <3>3. \A i, j \in DOMAIN s : s[i].id = s[j].id => i = j
      BY <2>1, Zenon DEF ServerInv, Mail
    <3> HIDE DEF s
    <3>4. \A i \in DOMAIN Append(s, m) :
             \/ i \in DOMAIN s /\ Append(s, m)[i] = s[i]
             \/ i = Len(s) + 1 /\ Append(s, m)[i] = m
      BY <3>1, Longer, Zenon
    <3>5. ASSUME NEW q \in StreamPeer, NEW i \in DOMAIN inbox'[q]
          PROVE  /\ inbox'[q][i].peer = q /\ Now(inbox'[q][i])
                 /\ \A w \in work : inbox'[q][i].id # w.id
      <4>1. CASE q = p
        <5>1. \A w \in work : w.id # n
          BY <1>7, Zenon DEF ServerInv, Mail
        <5>2. \A w \in work : \A k \in DOMAIN s : s[k].id # w.id
          BY <2>1, Zenon DEF ServerInv, Mail, s
        <5>3. QED
          BY <1>4, <1>7, <3>1, <3>2, <3>4, <4>1, <5>1, <5>2
      <4>2. CASE q # p
        BY <1>7, <3>1, <4>2 DEF ServerInv, Mail
      <4>3. QED
        BY <4>1, <4>2, Zenon
    <3>6. ASSUME NEW q \in StreamPeer, NEW i \in DOMAIN inbox'[q], NEW j \in DOMAIN inbox'[q],
                 inbox'[q][i].id = inbox'[q][j].id
          PROVE  i = j
      <4>1. CASE q = p
        <5>1. inbox'[p][i].id = n => i = Len(s) + 1
          BY <3>1, <3>2, <3>4, <4>1, Zenon
        <5>2. inbox'[p][j].id = n => j = Len(s) + 1
          BY <3>1, <3>2, <3>4, <4>1, Zenon
        <5>3. i \in DOMAIN Append(s, m) /\ j \in DOMAIN Append(s, m) /\ Append(s, m)[i].id = Append(s, m)[j].id
          BY <3>1, <3>6, <4>1, Zenon
        <5>4. Append(s, m)[i].id = n => i = Len(s) + 1
          BY <3>1, <5>1, Zenon
        <5>5. Append(s, m)[j].id = n => j = Len(s) + 1
          BY <3>1, <5>2, Zenon
        <5>6. CASE Append(s, m)[i].id = n
          BY <5>3, <5>4, <5>5, <5>6, Zenon
        <5>7. CASE Append(s, m)[i].id # n
          <6>1. i \in DOMAIN s /\ j \in DOMAIN s /\ s[i].id = s[j].id
            BY <1>4, <3>4, <5>3, <5>7, Zenon
          <6>2. QED
            BY <3>3, <6>1, Zenon
        <5>8. QED
          BY <5>6, <5>7, Zenon
      <4>2. CASE q # p
        BY <3>1, <3>6, <4>2, Zenon DEF ServerInv, Mail
      <4>3. QED
        BY <4>1, <4>2, Zenon
    <3>7. /\ \A i \in DOMAIN packets : packets[i].peer \in PacketPeer /\ Now(packets[i])
          /\ \A x \in work \cup deferred : Now(x)
      BY <1>7, Zenon DEF ServerInv, Mail
    <3>8. (\A q \in StreamPeer : \A i \in DOMAIN inbox[q] : inbox[q][i].peer = q /\ Sent(inbox[q][i]))'
      BY <3>5, Zenon DEF Sent, Now
    <3>9. (\A i \in DOMAIN packets : packets[i].peer \in PacketPeer /\ Sent(packets[i]))'
      BY <2>1, <3>7, Zenon DEF Sent, Now
    <3>10. (\A x \in work \cup deferred : Sent(x))'
      BY <1>1, <3>7, Zenon DEF Sent, Now
    <3>11. (\A q \in StreamPeer : \A i, j \in DOMAIN inbox[q] : inbox[q][i].id = inbox[q][j].id => i = j)'
      BY <3>6, Zenon
    <3>12. (\A i, j \in DOMAIN packets : packets[i].id = packets[j].id => i = j)'
      BY <2>1, Zenon DEF ServerInv, Mail
    <3>13. (\A w \in work : \A q \in StreamPeer : \A i \in DOMAIN inbox[q] : inbox[q][i].id # w.id)'
      <4>1. work' = work
        BY <1>1, Zenon
      <4>2. QED
        BY <3>5, <4>1
    <3>14. (\A w \in work : \A i \in DOMAIN packets : packets[i].id # w.id)'
      BY <1>1, <2>1, Zenon DEF ServerInv, Mail
    <3>15. QED
      BY <3>8, <3>9, <3>10, <3>11, <3>12, <3>13, <3>14, Zenon DEF Mail
  <2>2. CASE p \in PacketPeer /\ packets' = Append(packets, m) /\ inbox' = inbox
    <3>1. \A i \in DOMAIN packets' :
             \/ i \in DOMAIN packets /\ packets'[i] = packets[i]
             \/ i = Len(packets) + 1 /\ packets'[i] = m
      BY <2>2 DEF ServerInv, Typed
    <3>2. \A i \in DOMAIN packets : packets[i].id # n
      BY <1>7, Zenon DEF ServerInv, Mail
    <3>3. \A w \in work : w.id # n
      BY <1>7, Zenon DEF ServerInv, Mail
    <3>4. \A i \in DOMAIN packets' : /\ packets'[i].peer \in PacketPeer /\ Now(packets'[i])
                                     /\ \A w \in work : packets'[i].id # w.id
      <4>1. \A i \in DOMAIN packets : /\ packets[i].peer \in PacketPeer /\ Now(packets[i])
                                       /\ \A w \in work : packets[i].id # w.id
        BY <1>7, Zenon DEF ServerInv, Mail
      <4>2. m.peer \in PacketPeer /\ Now(m) /\ \A w \in work : m.id # w.id
        BY <1>4, <1>7, <2>2, <3>3, Zenon
      <4>3. QED
        BY <3>1, <4>1, <4>2, Zenon
    <3>5. \A i, j \in DOMAIN packets' : packets'[i].id = packets'[j].id => i = j
      <4>1. \A i, j \in DOMAIN packets : packets[i].id = packets[j].id => i = j
        BY Zenon DEF ServerInv, Mail
      <4>2. QED
        BY <1>4, <3>1, <3>2, <4>1
    <3>6. /\ \A q \in StreamPeer : \A i \in DOMAIN inbox[q] : inbox[q][i].peer = q /\ Now(inbox[q][i])
          /\ \A x \in work \cup deferred : Now(x)
      BY <1>7, Zenon DEF ServerInv, Mail
    <3>7. (\A q \in StreamPeer : \A i \in DOMAIN inbox[q] : inbox[q][i].peer = q /\ Sent(inbox[q][i]))'
      <4>1. inbox' = inbox
        BY <2>2, Zenon
      <4>2. QED
        BY <3>6, <4>1 DEF Sent, Now
    <3>8. (\A i \in DOMAIN packets : packets[i].peer \in PacketPeer /\ Sent(packets[i]))'
      BY <3>4, Zenon DEF Sent, Now
    <3>9. (\A x \in work \cup deferred : Sent(x))'
      BY <1>1, <3>6, Zenon DEF Sent, Now
    <3>10. (\A q \in StreamPeer : \A i, j \in DOMAIN inbox[q] : inbox[q][i].id = inbox[q][j].id => i = j)'
      <4>1. inbox' = inbox
        BY <2>2, Zenon
      <4>2. \A q \in StreamPeer : \A i, j \in DOMAIN inbox[q] : inbox[q][i].id = inbox[q][j].id => i = j
        BY Zenon DEF ServerInv, Mail
      <4>3. QED
        BY <4>1, <4>2, Zenon
    <3>11. (\A i, j \in DOMAIN packets : packets[i].id = packets[j].id => i = j)'
      BY <3>5, Zenon
    <3>12. (\A w \in work : \A q \in StreamPeer : \A i \in DOMAIN inbox[q] : inbox[q][i].id # w.id)'
      <4>1. work' = work /\ inbox' = inbox
        BY <1>1, <2>2, Zenon
      <4>2. \A w \in work : \A q \in StreamPeer : \A i \in DOMAIN inbox[q] : inbox[q][i].id # w.id
        BY Zenon DEF ServerInv, Mail
      <4>3. QED
        BY <4>1, <4>2
    <3>13. (\A w \in work : \A i \in DOMAIN packets : packets[i].id # w.id)'
      BY <1>1, <3>4, Zenon
    <3>14. QED
      BY <3>7, <3>8, <3>9, <3>10, <3>11, <3>12, <3>13, Zenon DEF Mail
  <2>3. QED
    BY <1>4, <2>1, <2>2, Zenon
<1>14. QED
  BY <1>9, <1>10, <1>11, <1>12, <1>13, Zenon DEF ServerInv

\* A broadcast sends events, which are nobody's response.
LEMMA BroadcastKeeps ==
    ASSUME ServerInv, NEW protocol, gracht_server_broadcast_event(protocol)
    PROVE  ServerInv'
<1> DEFINE item == [type |-> "event", id |-> 0]
           entries == {c \in Range(clients) : protocol \in c.subscriptions}
<1>1. item \in Item /\ item.type = "event"
  BY ServerAssumption DEF Item
<1>2. SendClient(entries, item)
  BY Zenon DEF gracht_server_broadcast_event
<1>3. UNCHANGED <<state, main, clients, announced, fd, backlog, hup, inbox, packets, owner, work,
                  deferred, free, scenario>>
  BY Zenon DEF gracht_server_broadcast_event, loopVars, tableVars, sockVars, workVars
<1> HIDE DEF item, entries
<1>4. /\ outbox' \in [Peer -> SUBSET Item]
      /\ \A p \in Peer : \A x \in outbox'[p] : x \in outbox[p] \/ x.type = "event"
  BY <1>1, <1>2, SendClientReaches DEF ServerInv, Typed
<1>5. Typed' /\ Loop' /\ Table' /\ Kinds' /\ Buffers'
  BY <1>3, <1>4, Zenon DEF ServerInv, Typed, Loop, Table, Kinds, Buffers, BuffersAccounted
<1>6. Mail' /\ Handles'
  BY <1>3 DEF ServerInv, Mail, Sent, Handles, Current
<1>7. Replies'
  BY <1>3, <1>4, Zenon DEF ServerInv, Replies, Timely
<1>8. QED
  BY <1>5, <1>6, <1>7, Zenon DEF ServerInv

\* gracht_server_request_shutdown changes nothing but the state.
LEMMA RequestKeeps ==
    ASSUME ServerInv, gracht_server_request_shutdown
    PROVE  ServerInv'
<1>1. /\ state = "RUNNING" /\ state' = "SHUTDOWN_REQUESTED"
      /\ UNCHANGED <<main, clients, announced, fd, backlog, hup, inbox, packets, owner, work,
                     deferred, free, outbox, scenario>>
  BY Zenon DEF gracht_server_request_shutdown, tableVars, sockVars, workVars, outVars, appVars
<1>2. Typed' /\ Loop' /\ Table' /\ Kinds' /\ Buffers'
  BY <1>1, Zenon DEF ServerInv, Typed, Loop, Table, Kinds, Buffers, BuffersAccounted
<1>3. Mail' /\ Handles' /\ Replies'
  <2>1. Mail'
    BY <1>1, MailSame, Zenon DEF ServerInv
  <2>2. Handles' /\ Replies'
    BY <1>1, Zenon DEF ServerInv, Handles, Current, Replies, Timely
  <2>3. QED
    BY <2>1, <2>2, Zenon
<1>4. QED
  BY <1>2, <1>3, Zenon DEF ServerInv

----------------------------------------------------------------------------
(* The invariant                                                           *)

\* Every step of the main thread, a worker, a peer or the application keeps the invariant.
LEMMA ServerStep == ServerInv /\ [Next]_vars => ServerInv'
<1> SUFFICES ASSUME ServerInv, [Next]_vars PROVE ServerInv'
  BY Zenon
<1>1. CASE gracht_server_main_loop
  BY <1>1, MainMovesKeep, ShutdownKeeps, Zenon DEF gracht_server_main_loop
<1>2. CASE \E e \in Event : IoWait(e)
  BY <1>2, MainMovesKeep, Zenon DEF IoWait
<1>3. CASE HandleEvent
  BY <1>3, ShutdownKeeps, ConnectionKeeps, DisconnectKeeps, MainMovesKeep, PacketKeeps, Zenon
     DEF HandleEvent, HandleShutdown, HandleInput, PacketFails
<1>4. CASE ReadMessage \/ ReadDone
  BY <1>4, ReadKeeps, MainMovesKeep, Zenon DEF ReadDone
<1>5. CASE \E m \in work : WorkerHandles(m)
  BY <1>5, WorkerKeeps, Zenon
<1>6. CASE \E m \in deferred : RespondDeferred(m)
  BY <1>6, DeferredKeeps, Zenon
<1>7. CASE Environment
  <2>1. scenario.peers \subseteq Peer
    BY ServerAssumption, Zenon DEF ServerInv, Typed
  <2>2. QED
    BY <1>7, <2>1, ConnectKeeps, PeerSendsKeeps, BroadcastKeeps, RequestKeeps, Zenon DEF Environment
<1>8. CASE UNCHANGED vars
  BY <1>8, LoopKeeps, Zenon DEF vars, loopVars, sockVars, ServerInv, Loop
<1>9. QED
  BY <1>1, <1>2, <1>3, <1>4, <1>5, <1>6, <1>7, <1>8, Zenon DEF Next, MainStep

\* The inductive invariant of the server: what the main thread was told is still true when
\* it acts on it, the table matches the sockets, every message is in one place and was sent
\* by the peer it names.
THEOREM ServerInvariant == Spec => []ServerInv
BY ServerInit, ServerStep, PTL DEF Spec

----------------------------------------------------------------------------
(* What follows                                                            *)

\* The table of clients agrees with the sockets and with what the callbacks have told the
\* application, whatever peers connect, hang up and send while workers answer: an accepted
\* stream client has the entry of its socket, and no entry outlives its socket although the
\* kernel hands out its number again.
THEOREM TableCorrect == Spec => []TableMatchesSockets
<1>1. ServerInv => TableMatchesSockets
  BY Zenon DEF ServerInv, Table, TableMatchesSockets
<1>2. QED
  BY <1>1, ServerInvariant, PTL

\* Every receive buffer is free or with a worker, for any number of buffers and clients.
THEOREM BuffersCorrect == Spec => []BuffersAccounted
<1>1. ServerInv => BuffersAccounted
  BY Zenon DEF ServerInv, Buffers
<1>2. QED
  BY <1>1, ServerInvariant, PTL

\* Responses and error events go to the peer that sent the request, with or without workers
\* and deferred answers, as long as no stream client hangs up; and with clients that hang up
\* if the main thread answers every request before it handles the next event.  In between
\* lies the known failure: a handle that is reused while a worker still holds the request.
THEOREM ResponsesCorrect == Spec => [](Timely => ResponseToOwner)
<1>1. ServerInv => (Timely => ResponseToOwner)
  BY Zenon DEF ServerInv, Replies, ResponseToOwner
<1>2. QED
  BY <1>1, ServerInvariant, PTL

\* Without workers every response reaches the sender of its request, for servers whose
\* handlers do not answer later the requests of clients that may hang up.
THEOREM SingleThreadedCorrect ==
    ASSUME \A s \in Scenario : ~s.workers /\ s.hangup => ~s.defer
    PROVE  Spec => []SingleThreadedResponses
<1>1. ServerInv => SingleThreadedResponses
  <2> SUFFICES ASSUME ServerInv, ~scenario.workers PROVE ResponseToOwner
    BY Zenon DEF SingleThreadedResponses
  <2>1. Timely
    BY Zenon DEF ServerInv, Typed, Timely
  <2>2. QED
    BY <2>1, Zenon DEF ServerInv, Replies, ResponseToOwner
<1>2. QED
  BY <1>1, ServerInvariant, PTL

\* gracht_server_main_loop returns only once the server has shut down, where every packet
\* has a complete header; a shorter one makes it return with the server still up.
THEOREM ReturnedCorrect ==
    ASSUME \A s \in Scenario : "short" \notin s.kinds
    PROVE  Spec => []ReturnedMeansShutdown
<1>1. Init => ReturnedMeansShutdown
  BY DEF Init, ReturnedMeansShutdown
<1>2. ASSUME ServerInv, ReturnedMeansShutdown, [Next]_vars
      PROVE  ReturnedMeansShutdown'
  <2>1. CASE gracht_server_shutdown
    BY <2>1, Zenon DEF gracht_server_shutdown, ReturnedMeansShutdown
  <2>2. CASE PacketFails
    <3>1. packets # <<>> /\ packets \in Seq(Message)
      BY <1>2, <2>2, Zenon DEF PacketFails, ServerInv, Loop, Typed
    <3>2. 1 \in DOMAIN packets /\ Head(packets) = packets[1]
      BY <3>1, Shorter, Zenon
    <3>3. Head(packets).kind # "short"
      BY <1>2, <3>2, Zenon DEF ServerInv, Kinds, Typed
    <3>4. QED
      BY <2>2, <3>3, Zenon DEF PacketFails, ReturnedMeansShutdown
  <2>3. CASE main'.at \in {"loop", "wait", "event", "read"}
    BY <2>3, Zenon DEF ReturnedMeansShutdown
  <2>4. CASE main' = main /\ (state' = state \/ state = "RUNNING")
    BY <1>2, <2>4, Zenon DEF ReturnedMeansShutdown
  <2>5. CASE MainStep
    BY <2>1, <2>2, <2>3, <2>4, <2>5
       DEF MainStep, gracht_server_main_loop, IoWait, HandleEvent, HandleShutdown, handle_connection,
           HandleDisconnect, HandleInput, handle_packet, ReadMessage, ReadDone, loopVars
  <2>6. CASE \/ \E m \in work : WorkerHandles(m)
             \/ \E m \in deferred : RespondDeferred(m)
             \/ UNCHANGED vars
    BY <2>4, <2>6, Zenon DEF WorkerHandles, RespondDeferred, loopVars, vars
  <2>7. CASE Environment
    BY <2>4, <2>7, Zenon DEF Environment, Connect, HangUp, PeerSends, gracht_server_broadcast_event,
                      gracht_server_request_shutdown, loopVars
  <2>8. QED
    BY <1>2, <2>5, <2>6, <2>7, Zenon DEF Next
<1>3. QED
  BY <1>1, <1>2, ServerInvariant, PTL DEF Spec
=============================================================================
