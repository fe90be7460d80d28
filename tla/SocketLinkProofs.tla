-------------------------- MODULE SocketLinkProofs --------------------------
(***************************************************************************)
(* The stream link keeps its promise: Framed and IsChannel hold of every   *)
(* behaviour in which each direction of a connection has one sender at a   *)
(* time (Serial): the callers of a client take turns, and the server has   *)
(* one thread that responds, or clients with one caller that waits for     *)
(* each answer.                                                            *)
(*                                                                         *)
(* The invariant is LinkInv.  A channel is the stream of the cells of its  *)
(* messages: the wire holds the piece of that stream that follows the      *)
(* place of the reader, and a thread in a send holds the rest of the last  *)
(* message.  The lemmas show that a read takes the next cells of the       *)
(* stream, that a send which has its channel to itself adds the next ones, *)
(* and that a client which goes away takes nothing from the streams of the *)
(* others.  That a response or a call has its channel to itself follows    *)
(* from how requests go through the server: one is received once, one      *)
(* thread has it, and there is no response to it before that thread is     *)
(* done.                                                                   *)
(***************************************************************************)
EXTENDS SocketLink, SequenceTheorems, TLAPS

----------------------------------------------------------------------------
(* Streams of messages of equal size                                       *)

\* Cell n of the stream of the messages s, which have S cells each.
Stream(s, S, n) == <<s[((n - 1) \div S) + 1], ((n - 1) % S) + 1>>

\* The cells of n messages.
Span(n, S) == n * S

\* w is the piece of that stream that follows its first P cells.
Holds(w, s, S, P) ==
    /\ P + Len(w) =< Span(Len(s), S)
    /\ \A k \in 1 .. Len(w) : w[k] = Stream(s, S, P + k)

\* v are the cells of message m that follow its first g.
Piece(v, m, g) == \A j \in 1 .. Len(v) : v[j] = <<m, g + j>>

\* The cells of one message.
CellsOf(m, S) == [k \in 1 .. S |-> <<m, k>>]

\* n of them, after the first g.
Cut(m, S, g, n) == SubSeq(CellsOf(m, S), g + 1, g + n)

\* Division with remainder has one result.
LEMMA Division ==
    ASSUME NEW S \in Nat \ {0}, NEW i \in Nat, NEW o \in 0 .. S - 1
    PROVE  (i * S + o) \div S = i /\ (i * S + o) % S = o
<1> DEFINE n == i * S + o
           q == n \div S
           r == n % S
<1>1. n \in Nat
  OBVIOUS
<1>2. q \in Int /\ r \in 0 .. S - 1 /\ n = S * q + r
  OBVIOUS
<1>3. S * (q - i) = o - r
  BY <1>2
<1>4. q - i = 0
  <2>1. CASE q - i >= 1
    <3>1. S * (q - i) >= S
      BY <1>2, <2>1
    <3>2. QED
      BY <1>2, <1>3, <3>1
  <2>2. CASE q - i =< -1
    <3>1. S * (q - i) =< -S
      BY <1>2, <2>2
    <3>2. QED
      BY <1>2, <1>3, <3>1
  <2>3. QED
    BY <1>2, <2>1, <2>2
<1>5. QED
  BY <1>2, <1>3, <1>4

\* Cell o of message i + 1 of a stream.
LEMMA StreamCell ==
    ASSUME NEW s, NEW S \in Nat \ {0}, NEW i \in Nat, NEW o \in 1 .. S
    PROVE  Stream(s, S, Span(i, S) + o) = <<s[i + 1], o>>
<1>1. o - 1 \in 0 .. S - 1 /\ (i * S + o) - 1 = i * S + (o - 1)
  OBVIOUS
<1>2. (i * S + (o - 1)) \div S = i /\ (i * S + (o - 1)) % S = o - 1
  BY <1>1, Division, Zenon
<1>3. QED
  BY <1>1, <1>2 DEF Stream, Span

\* One message more has S cells more.
LEMMA SpanStep ==
    ASSUME NEW n \in Nat, NEW S \in Nat
    PROVE  Span(n, S) \in Nat /\ Span(n + 1, S) = Span(n, S) + S
BY DEF Span

\* What is left after n cells are taken.
LEMMA HoldsRest ==
    ASSUME NEW T, NEW w \in Seq(T), NEW s, NEW S, NEW P \in Nat, NEW n \in 0 .. Len(w),
           Span(Len(s), S) \in Nat, Holds(w, s, S, P)
    PROVE  Rest(w, n) \in Seq(T) /\ Len(Rest(w, n)) = Len(w) - n /\ Holds(Rest(w, n), s, S, P + n)
<1>1. Rest(w, n) \in Seq(T) /\ Len(Rest(w, n)) = Len(w) - n
  BY DEF Rest
<1>2. \A k \in 1 .. Len(w) - n : Rest(w, n)[k] = w[n + k] /\ n + k \in 1 .. Len(w) /\ P + (n + k) = (P + n) + k
  BY DEF Rest
<1>3. QED
  BY <1>1, <1>2 DEF Holds

\* The first n cells belong to one message if its end is not passed.
LEMMA HoldsFirst ==
    ASSUME NEW T, NEW w \in Seq(T), NEW s, NEW S \in Nat \ {0}, NEW r \in Nat, NEW g \in 0 .. S,
           NEW n \in 0 .. Len(w), g + n =< S, NEW P, P = Span(r, S) + g, Holds(w, s, S, P),
           NEW m, m = s[r + 1]
    PROVE  /\ First(w, n) = Cut(m, S, g, n)
           /\ n > 0 => w[1] = <<m, g + 1>>
<1>1. Span(r, S) \in Nat
  BY SpanStep, Zenon
<1>2. ASSUME NEW k \in 1 .. n
      PROVE  w[k] = <<m, g + k>>
  <2> DEFINE o == g + k
  <2>1. o \in 1 .. S /\ (Span(r, S) + g) + k = Span(r, S) + o
    BY <1>1
  <2> HIDE DEF o
  <2>2. Stream(s, S, Span(r, S) + o) = <<m, o>>
    BY <2>1, StreamCell, Zenon
  <2>3. k \in 1 .. Len(w) /\ w[k] = Stream(s, S, (Span(r, S) + g) + k)
    BY DEF Holds
  <2>4. QED
    BY <2>1, <2>2, <2>3, Zenon DEF o
<1>3. Len(First(w, n)) = n /\ \A k \in 1 .. n : First(w, n)[k] = w[k]
  BY DEF First
<1> DEFINE v == CellsOf(m, S)
           u == SubSeq(v, g + 1, g + n)
<1>4. v \in Seq({m} \X Nat) /\ Len(v) = S /\ \A k \in 1 .. S : v[k] = <<m, k>>
  BY DEF CellsOf
<1> HIDE DEF v
<1>5. Len(u) = n /\ \A k \in 1 .. n : u[k] = v[g + k]
  BY <1>4
<1> DEFINE X == T \cup ({m} \X Nat)
<1>6. First(w, n) \in Seq(X) /\ u \in Seq(X)
  <2>1. First(w, n) \in Seq(T)
    BY DEF First
  <2> DEFINE Y == {m} \X Nat
  <2>4. v \in Seq(Y)
    BY <1>4, Zenon
  <2> HIDE DEF Y
  <2>5. u \in Seq(Y)
    BY <1>4, <2>4
  <2>2. Seq(T) \subseteq Seq(X) /\ Seq(Y) \subseteq Seq(X)
    BY DEF Y
  <2>3. QED
    BY <2>1, <2>2, <2>5, Zenon
<1> HIDE DEF u, X
<1>7. \A k \in 1 .. n : First(w, n)[k] = u[k]
  <2> TAKE k \in 1 .. n
  <2>1. First(w, n)[k] = <<m, g + k>> /\ u[k] = v[g + k]
    BY <1>2, <1>3, <1>5, Zenon
  <2>2. g + k \in 1 .. S
    OBVIOUS
  <2>3. QED
    BY <1>4, <2>1, <2>2, Zenon
<1>8. First(w, n) = u
  BY <1>3, <1>5, <1>6, <1>7, SeqEqual, Zenon
<1>9. n > 0 => 1 \in 1 .. n
  OBVIOUS
<1>10. QED
  BY <1>2, <1>8, <1>9, Zenon DEF u, v, Cut

\* A message that is sent later changes nothing of what is there.
LEMMA HoldsMore ==
    ASSUME NEW T, NEW w \in Seq(T), NEW M, NEW s \in Seq(M), NEW m \in M, NEW S \in Nat \ {0},
           NEW P \in Nat, Holds(w, s, S, P)
    PROVE  Holds(w, Append(s, m), S, P)
<1>1. Len(s) \in Nat /\ Span(Len(Append(s, m)), S) = Span(Len(s), S) + S /\ Span(Len(s), S) \in Nat
  BY SpanStep
<1>2. P + Len(w) =< Span(Len(Append(s, m)), S)
  BY <1>1 DEF Holds
<1>3. ASSUME NEW k \in 1 .. Len(w)
      PROVE  w[k] = Stream(Append(s, m), S, P + k)
  <2> DEFINE n == (P + k) - 1
             q == n \div S
  <2>1. n \in Nat /\ n < Len(s) * S
    BY DEF Holds, Span
  <2>2. q \in Int /\ n % S \in 0 .. S - 1 /\ n = S * q + (n % S)
    BY <2>1
  <2>3. q \in 0 .. Len(s) - 1
    <3>1. q >= 0
      BY <2>1, <2>2
    <3>2. q < Len(s)
      <4>1. ASSUME q >= Len(s) PROVE FALSE
        <5>1. S * q >= S * Len(s)
          <6> DEFINE d == q - Len(s)
          <6>1. d \in Nat /\ q = Len(s) + d
            BY <2>2, <4>1
          <6> HIDE DEF d
          <6>2. S * d >= 0 /\ S * (Len(s) + d) = S * Len(s) + S * d
            BY <6>1
          <6>3. S * q = S * (Len(s) + d)
            BY <6>1, Zenon
          <6>4. QED
            BY <6>1, <6>2, <6>3
        <5>2. QED
          BY <2>1, <2>2, <5>1
      <4>2. QED
        BY <2>2, <4>1
    <3>3. QED
      BY <2>2, <3>1, <3>2
  <2>4. Append(s, m)[q + 1] = s[q + 1]
    BY <2>3
  <2>5. QED
    BY <2>4, Zenon DEF Holds, Stream
<1>4. QED
  BY <1>2, <1>3, Zenon DEF Holds

\* More cells of the last message, of which g are there, are put behind what is there.
LEMMA HoldsAppend ==
    ASSUME NEW T, NEW w \in Seq(T), NEW v \in Seq(T), NEW M, NEW s \in Seq(M),
           NEW S \in Nat \ {0}, NEW P \in Nat, NEW i \in Nat, Len(s) = i + 1, NEW g \in 0 .. S, P + Len(w) = Span(i, S) + g,
           g + Len(v) =< S, Piece(v, s[i + 1], g), Holds(w, s, S, P)
    PROVE  Holds(w \o v, s, S, P)
<1>1. Len(w \o v) = Len(w) + Len(v) /\ Len(v) \in Nat /\ Len(w) \in Nat
  OBVIOUS
<1>2. Span(i, S) \in Nat
  BY SpanStep, Zenon
<1>3. Span(i + 1, S) = Span(i, S) + S
  BY SpanStep, Zenon
<1>4. P + Len(w \o v) =< Span(Len(s), S)
  BY <1>1, <1>2, <1>3
<1>5. ASSUME NEW j \in 1 .. Len(v)
      PROVE  v[j] = Stream(s, S, P + (Len(w) + j))
  <2> DEFINE o == g + j
  <2>1. o \in 1 .. S
    BY <1>1
  <2>2. v[j] = <<s[i + 1], o>>
    BY Zenon DEF Piece
  <2>3. P + (Len(w) + j) = Span(i, S) + o
    <3>1. P + (Len(w) + j) = (P + Len(w)) + j
      BY <1>1
    <3>2. Span(i, S) + o = (Span(i, S) + g) + j
      BY <1>2
    <3>3. QED
      BY <3>1, <3>2, Zenon
  <2> HIDE DEF o
  <2>4. Stream(s, S, Span(i, S) + o) = <<s[i + 1], o>>
    BY <2>1, StreamCell, Zenon
  <2>5. QED
    BY <2>2, <2>3, <2>4, Zenon
<1>6. ASSUME NEW k \in 1 .. Len(w \o v)
      PROVE  (w \o v)[k] = Stream(s, S, P + k)
  <2>1. CASE k =< Len(w)
    <3>1. (w \o v)[k] = w[k] /\ k \in 1 .. Len(w)
      BY <1>1, <2>1
    <3>2. QED
      BY <3>1, Zenon DEF Holds
  <2>2. CASE k > Len(w)
    <3> DEFINE j == k - Len(w)
    <3>1. j \in 1 .. Len(v) /\ k = Len(w) + j /\ (w \o v)[k] = v[j]
      BY <1>1, <2>2
    <3> HIDE DEF j
    <3>2. QED
      BY <1>5, <3>1, Zenon
  <2>3. QED
    BY <1>1, <2>1, <2>2
<1>7. QED
  BY <1>4, <1>6, Zenon DEF Holds

----------------------------------------------------------------------------
(* The invariant                                                           *)

\* Ways to run the system in which the code keeps two threads from sending on a channel at
\* once: a client with one thread, or whose threads call under send_buffer_lock; one thread
\* that responds, or clients of one thread each that wait for every answer.  Events sent
\* without blocking may be cut short and are left out.
OneCallerEach(s) == \A c, d \in Caller : s.conn[c] = s.conn[d] => c = d
Serial(s) ==
    /\ ~s.stream \/ OneCallerEach(s)
    /\ (\A v, w \in s.workers : v = w) \/ (~s.ahead /\ OneCallerEach(s))
    /\ s.events = 0

\* The cells of a message on channel c, and those the reader of c has taken.
Size(c) == Header + (IF c[2] = "request" THEN scenario.request ELSE scenario.response)
Place(c) == Span(Len(received[c]), Size(c)) + reading[c].got

Open(c) == c[1] \notin closed
Cell == Message \X Nat
Notice == [peer : Peer \cup {"listen"}, gone : BOOLEAN]

Typed ==
    /\ scenario \in Scenario
    /\ wire \in [Channel -> Seq(Cell)] /\ sending \in [Thread -> Seq(Cell)]
    /\ sent \in [Channel -> Seq(Message)] /\ received \in [Channel -> Seq(Message)]
    /\ \A c \in Channel : \A k \in DOMAIN sent[c] : ChannelOf(sent[c][k]) = c
    /\ calls \in Seq(Caller) /\ Len(calls) =< scenario.calls /\ closed \subseteq Peer /\ events \in Nat
    /\ jobs \subseteq Message /\ job \in [Server -> Message \cup {None}]
    /\ reading \in [Channel -> [at : {"header", "payload"}, message : Message \cup {None}, got : Nat]]

\* The main thread: only a client that is gone is reported as gone.
Loop ==
    /\ \/ main \in [at : {"events"}, batch : SUBSET Notice]
       \/ main \in [at : {"read"}, peer : Peer, batch : SUBSET Notice]
    /\ \A e \in main.batch : e.gone => e.peer \in closed
    /\ registered \subseteq Peer /\ backlog \subseteq Peer

\* What was received is the first part of what was sent, the message being received is the
\* next one, and the wire holds the cells that follow.
Framing(c) ==
    /\ Len(received[c]) =< Len(sent[c])
    /\ \A k \in 1 .. Len(received[c]) : received[c][k] = sent[c][k]
    /\ reading[c].at = "header" => reading[c].got = 0
    /\ reading[c].at = "payload" =>
          /\ Len(received[c]) < Len(sent[c])
          /\ reading[c].message = sent[c][Len(received[c]) + 1]
          /\ reading[c].got \in Header .. Size(c)
    /\ Holds(wire[c], sent[c], Size(c), Place(c))
    /\ Len(wire[c]) =< scenario.room

\* A thread that sends has what is left of the last message of its channel.
SendsOn(t, c) == sending[t] # <<>> /\ ChannelOf(sending[t][1][1]) = c
Left(t, c) ==
    /\ sent[c] # <<>> /\ Len(sending[t]) =< Size(c)
    /\ Piece(sending[t], sent[c][Len(sent[c])], Size(c) - Len(sending[t]))
    /\ Place(c) + Len(wire[c]) + Len(sending[t]) = Span(Len(sent[c]), Size(c))
Sends ==
    /\ \A t \in Caller, c \in Channel : SendsOn(t, c) => c = Up(scenario.conn[t]) /\ Open(c)
    /\ \A t \in Server, c \in Channel : SendsOn(t, c) => c[2] = "response"
    /\ \A t \in Thread, c \in Channel : Open(c) /\ SendsOn(t, c) => Left(t, c)
    /\ \A t, u \in Thread, c \in Channel : Open(c) /\ SendsOn(t, c) /\ SendsOn(u, c) => t = u

\* Otherwise every cell that was sent is on the wire or was taken.
Complete ==
    \A c \in Channel : Open(c) /\ (\A t \in Thread : ~SendsOn(t, c)) =>
        Place(c) + Len(wire[c]) = Span(Len(sent[c]), Size(c))

\* The threads that respond: one handler each, done with its last response.
Active == IF scenario.workers = {} THEN {Main} ELSE scenario.workers
Handlers ==
    \A t \in Server :
        /\ job[t] # None => sending[t] = <<>>
        /\ job[t] # None \/ sending[t] # <<>> => t \in Active

\* A request on its way through the server: it was received, nobody else has it, and there
\* is no response to it yet.
Held(m) ==
    /\ m.dir = "request"
    /\ \E k \in DOMAIN received[Up(m.peer)] : received[Up(m.peer)][k] = m
    /\ \A k \in DOMAIN sent[Down(m.peer)] : sent[Down(m.peer)][k].id # m.id
Requests ==
    /\ \A p \in Peer : \A k \in DOMAIN sent[Up(p)] :
          sent[Up(p)][k].id \in DOMAIN calls /\ scenario.conn[calls[sent[Up(p)][k].id]] = p
    /\ \A p \in Peer : \A j, k \in DOMAIN sent[Up(p)] : sent[Up(p)][j].id = sent[Up(p)][k].id => j = k
    /\ \A m \in jobs : Held(m) /\ \A t \in Server : job[t] # m
    /\ \A t \in Server : job[t] # None => Held(job[t])
    /\ \A t, u \in Server : job[t] # None /\ job[t] = job[u] => t = u
    /\ \A p \in Peer : \A k \in DOMAIN sent[Down(p)] :
          \E j \in DOMAIN received[Up(p)] : received[Up(p)][j].id = sent[Down(p)][k].id
    /\ \A p \in Peer : \A j, k \in DOMAIN sent[Down(p)] :
          sent[Down(p)][j].id = sent[Down(p)][k].id => j = k

\* A thread that waits for each answer has one call under way.
Waiting ==
    ~scenario.ahead => \A i, j \in DOMAIN calls :
        calls[i] = calls[j] /\ ~Answered(i) /\ ~Answered(j) => i = j

LinkInv ==
    /\ Typed /\ Loop /\ (\A c \in Channel : Framing(c)) /\ Sends /\ Complete
    /\ Handlers /\ Requests /\ Waiting

----------------------------------------------------------------------------
(* Reading                                                                 *)

\* The smaller of two integers, as the copies of send and recv compute it.
LEMMA MinOfTwo ==
    ASSUME NEW a \in Nat, NEW b \in Nat
    PROVE  Min({a, b}) \in Nat /\ Min({a, b}) =< a /\ Min({a, b}) =< b
BY DEF Min

\* Longer spans.
LEMMA SpanMono ==
    ASSUME NEW i \in Nat, NEW j \in Nat, i =< j, NEW S \in Nat
    PROVE  Span(i, S) =< Span(j, S)
<1> DEFINE d == j - i
<1>1. d \in Nat /\ j = i + d
  OBVIOUS
<1> HIDE DEF d
<1>2. d * S >= 0 /\ (i + d) * S = i * S + d * S
  BY <1>1
<1>3. QED
  BY <1>1, <1>2 DEF Span

\* Sizes and places are numbers.
LEMMA Basics ==
    ASSUME Typed, NEW c \in Channel
    PROVE  /\ Header \in Nat \ {0} /\ Size(c) \in Nat \ {0} /\ Header =< Size(c)
           /\ wire[c] \in Seq(Cell) /\ sent[c] \in Seq(Message) /\ received[c] \in Seq(Message)
           /\ Len(wire[c]) \in Nat /\ Len(sent[c]) \in Nat /\ Len(received[c]) \in Nat
           /\ Span(Len(received[c]), Size(c)) \in Nat /\ Span(Len(sent[c]), Size(c)) \in Nat
           /\ reading[c].got \in Nat /\ Place(c) \in Nat /\ scenario.room \in Nat
<1>1. Header \in Nat \ {0} /\ scenario.request \in Nat /\ scenario.response \in Nat /\ scenario.room \in Nat
  BY SocketLinkAssumption, Zenon DEF Typed
<1>2. Size(c) \in Nat \ {0} /\ Header =< Size(c)
  BY <1>1 DEF Size
<1>3. wire[c] \in Seq(Cell) /\ sent[c] \in Seq(Message) /\ received[c] \in Seq(Message) /\ reading[c].got \in Nat
  BY Zenon DEF Typed
<1>4. Len(wire[c]) \in Nat /\ Len(sent[c]) \in Nat /\ Len(received[c]) \in Nat
  BY <1>3
<1>5. Span(Len(received[c]), Size(c)) \in Nat /\ Span(Len(sent[c]), Size(c)) \in Nat
  BY <1>2, <1>4, SpanStep, Zenon
<1>6. Place(c) \in Nat
  BY <1>3, <1>5 DEF Place
<1>7. QED
  BY <1>1, <1>2, <1>3, <1>4, <1>5, <1>6, Zenon

\* The cells of a message of channel c.
LEMMA CellsAre ==
    ASSUME Typed, NEW m \in Message
    PROVE  /\ ChannelOf(m) \in Channel /\ SizeOf(m) = Size(ChannelOf(m))
           /\ Cells(m) = CellsOf(m, Size(ChannelOf(m)))
           /\ Cells(m) \in Seq(Cell) /\ Len(Cells(m)) = Size(ChannelOf(m))
           /\ Piece(Cells(m), m, 0) /\ Cells(m) # <<>>
<1> DEFINE S == Size(ChannelOf(m))
<1>1. ChannelOf(m) \in Channel
  BY Zenon DEF Message, Channel, ChannelOf
<1>2. S \in Nat \ {0}
  BY <1>1, Basics, Zenon
<1>3. SizeOf(m) = S /\ Cells(m) = CellsOf(m, S)
  BY Zenon DEF SizeOf, Size, Cells, CellsOf, ChannelOf
<1> HIDE DEF S
<1>4. CellsOf(m, S) \in Seq(Cell) /\ Len(CellsOf(m, S)) = S
  BY <1>2 DEF CellsOf, Cell
<1>5. \A k \in 1 .. S : CellsOf(m, S)[k] = <<m, 0 + k>>
  BY <1>2 DEF CellsOf
<1>6. QED
  BY <1>1, <1>2, <1>3, <1>4, <1>5 DEF S, Piece

\* A step of the reader of channel c: it takes n cells, or returns the message.
Takes(c) ==
    /\ UNCHANGED <<scenario, sending, sent, closed>>
    /\ wire' \in [Channel -> Seq(Cell)] /\ received' \in [Channel -> Seq(Message)]
    /\ reading' \in [Channel -> [at : {"header", "payload"}, message : Message \cup {None}, got : Nat]]
    /\ \A d \in Channel \ {c} :
          wire'[d] = wire[d] /\ received'[d] = received[d] /\ reading'[d] = reading[d]
    /\ Framing(c)'
    /\ Open(c) => Place(c)' + Len(wire'[c]) = Place(c) + Len(wire[c])

\* The reader finds a header where it looks for one.
LEMMA TakesHeader ==
    ASSUME LinkInv, NEW c \in Channel, recv_header(c), UNCHANGED <<scenario, closed>>
    PROVE  Takes(c) /\ UNCHANGED received
<1> DEFINE w == wire[c]
           s == sent[c]
           S == Size(c)
           r == Len(received[c])
           n == Header
<1>1. /\ n \in Nat \ {0} /\ S \in Nat \ {0} /\ n =< S /\ w \in Seq(Cell) /\ s \in Seq(Message)
      /\ r \in Nat /\ Span(r, S) \in Nat /\ Span(Len(s), S) \in Nat
  BY Basics, Zenon DEF LinkInv
<1>2. reading[c].at = "header" /\ n =< Len(w) /\ reading[c].got = 0
  BY Zenon DEF recv_header, LinkInv, Framing
<1>3. Holds(w, s, S, Span(r, S)) /\ Len(w) =< scenario.room
  BY <1>1, <1>2 DEF LinkInv, Framing, Place
<1>4. r < Len(s)
  <2>1. Span(r, S) + Len(w) =< Span(Len(s), S) /\ Len(w) > 0
    BY <1>1, <1>2, <1>3 DEF Holds
  <2>2. ASSUME Len(s) =< r PROVE FALSE
    <3>1. Span(Len(s), S) =< Span(r, S)
      BY <1>1, <2>2, SpanMono
    <3>2. QED
      BY <1>1, <2>1, <3>1
  <2>3. QED
    BY <1>1, <2>2
<1> DEFINE m == s[r + 1]
<1>5. m \in Message /\ ChannelOf(m) = c
  BY <1>1, <1>4 DEF LinkInv, Typed
<1> HIDE DEF w, s, S, r, n, m
<1>6. First(w, n) = Cut(m, S, 0, n) /\ w[1] = <<m, 0 + 1>>
  <2>1. /\ Span(r, S) = Span(r, S) + 0 /\ 0 \in 0 .. S /\ n \in 0 .. Len(w) /\ 0 + n =< S
        /\ n > 0 /\ m = s[r + 1]
    BY <1>1, <1>2 DEF m
  <2>2. QED
    BY <1>1, <1>3, <2>1, HoldsFirst
<1>7. w[1][1] = m /\ First(w, n) = First(Cells(m), n)
  BY <1>1, <1>5, <1>6, CellsAre DEF LinkInv, First, Cut, S
<1>8. /\ reading' = [reading EXCEPT ![c] = [at |-> "payload", message |-> m, got |-> n]]
      /\ wire' = [wire EXCEPT ![c] = Rest(@, n)] /\ UNCHANGED <<sending, sent, received>>
  BY <1>7, Zenon DEF recv_header, w, n
<1>9. Rest(w, n) \in Seq(Cell) /\ Len(Rest(w, n)) = Len(w) - n /\ Holds(Rest(w, n), s, S, Span(r, S) + n)
  <2>1. n \in 0 .. Len(w)
    BY <1>1, <1>2
  <2>2. QED
    BY <1>1, <1>3, <2>1, HoldsRest, Zenon
<1>10. wire'[c] = Rest(w, n) /\ wire' \in [Channel -> Seq(Cell)]
  BY <1>8, <1>9, Zenon DEF LinkInv, Typed, w
<1>11. /\ reading'[c].at = "payload" /\ reading'[c].message = m /\ reading'[c].got = n
       /\ reading' \in [Channel -> [at : {"header", "payload"}, message : Message \cup {None}, got : Nat]]
  BY <1>1, <1>5, <1>8, Zenon DEF LinkInv, Typed
<1>12. \A d \in Channel \ {c} : wire'[d] = wire[d] /\ reading'[d] = reading[d]
  BY <1>8, Zenon DEF LinkInv, Typed
<1>13. Size(c)' = S /\ Place(c)' = Span(r, S) + n /\ Place(c) = Span(r, S) + 0
  BY <1>2, <1>8, <1>11, Zenon DEF Place, Size, S, r
<1>14. Framing(c)'
  <2>1. Holds(wire'[c], sent'[c], Size(c)', Place(c)')
    BY <1>8, <1>9, <1>10, <1>13, Zenon DEF s
  <2>2. Len(wire'[c]) =< scenario'.room
    <3>1. scenario.room \in Nat /\ Len(w) \in Nat
      BY <1>1, Basics DEF LinkInv
    <3>2. QED
      BY <1>1, <1>2, <1>3, <1>9, <1>10, <3>1
  <2>3. reading'[c].got \in Header .. Size(c)'
    BY <1>1, <1>11, <1>13 DEF n
  <2>4. /\ Len(received'[c]) < Len(sent'[c]) /\ reading'[c].message = sent'[c][Len(received'[c]) + 1]
        /\ \A k \in 1 .. Len(received'[c]) : received'[c][k] = sent'[c][k]
        /\ Len(received'[c]) =< Len(sent'[c])
    BY <1>4, <1>8, <1>11, Zenon DEF LinkInv, Framing, s, r, m
  <2>5. QED
    BY <1>11, <2>1, <2>2, <2>3, <2>4, Zenon DEF Framing
<1>15. Place(c)' + Len(wire'[c]) = Place(c) + Len(wire[c])
  BY <1>1, <1>9, <1>10, <1>13 DEF w
<1>16. QED
  BY <1>8, <1>10, <1>11, <1>12, <1>14, <1>15, Zenon DEF Takes, LinkInv, Typed

\* The payload that follows is that of the same message.
LEMMA TakesPayload ==
    ASSUME LinkInv, NEW c \in Channel, recv_payload(c), UNCHANGED <<scenario, closed>>
    PROVE  Takes(c) /\ UNCHANGED received
<1> DEFINE w == wire[c]
           s == sent[c]
           S == Size(c)
           r == Len(received[c])
           m == reading[c].message
           g == reading[c].got
           n == Min({S - g, Len(w)})
<1>1. /\ S \in Nat \ {0} /\ w \in Seq(Cell) /\ Len(w) \in Nat /\ s \in Seq(Message) /\ r \in Nat
      /\ Span(r, S) \in Nat /\ Span(Len(s), S) \in Nat
  BY Basics, Zenon DEF LinkInv
<1>2. /\ reading[c].at = "payload" /\ r < Len(s) /\ m = s[r + 1] /\ g \in Header .. S /\ w # <<>>
      /\ Header \in Nat
  BY SocketLinkAssumption, Zenon DEF recv_payload, LinkInv, Framing
<1>3. Holds(w, s, S, Span(r, S) + g) /\ Len(w) =< scenario.room
  BY <1>1, Zenon DEF LinkInv, Framing, Place
<1>4. m \in Message /\ ChannelOf(m) = c
  BY <1>1, <1>2 DEF LinkInv, Typed
<1>5. Missing(c) = S - g /\ SizeOf(m) = S /\ Cells(m) = CellsOf(m, S)
  BY <1>4, CellsAre, Zenon DEF LinkInv, Missing
<1>6. n \in Nat /\ n =< S - g /\ n =< Len(w) /\ g \in Nat
  <2> HIDE DEF S, g, w
  <2>1. S - g \in Nat /\ g \in Nat
    BY <1>1, <1>2
  <2> DEFINE a == S - g
             b == Len(w)
  <2>2. a \in Nat /\ b \in Nat
    BY <1>1, <2>1, Zenon
  <2> HIDE DEF a, b
  <2>3. Min({a, b}) \in Nat /\ Min({a, b}) =< a /\ Min({a, b}) =< b
    BY <2>2, MinOfTwo, Zenon
  <2>4. QED
    BY <2>1, <2>3, Zenon DEF a, b
<1>7. \/ /\ First(w, n) = SubSeq(Cells(m), g + 1, g + n)
         /\ reading' = [reading EXCEPT ![c].got = @ + n]
         /\ wire' = [wire EXCEPT ![c] = Rest(@, n)] /\ UNCHANGED <<sending, sent, received>>
      \/ First(w, n) # SubSeq(Cells(m), g + 1, g + n)
  BY <1>5, Zenon DEF recv_payload
<1> HIDE DEF w, s, S, r, n, m, g
<1>8. First(w, n) = Cut(m, S, g, n)
  <2>1. g \in 0 .. S /\ n \in 0 .. Len(w) /\ g + n =< S
    BY <1>1, <1>2, <1>6
  <2>2. QED
    BY <1>1, <1>2, <1>3, <2>1, HoldsFirst
<1>9. /\ reading' = [reading EXCEPT ![c].got = @ + n]
      /\ wire' = [wire EXCEPT ![c] = Rest(@, n)] /\ UNCHANGED <<sending, sent, received>>
  BY <1>5, <1>7, <1>8, Zenon DEF Cut
<1>10. /\ Rest(w, n) \in Seq(Cell) /\ Len(Rest(w, n)) = Len(w) - n
       /\ Holds(Rest(w, n), s, S, (Span(r, S) + g) + n)
  <2>1. n \in 0 .. Len(w) /\ Span(r, S) + g \in Nat
    BY <1>1, <1>6
  <2>2. QED
    BY <1>1, <1>3, <2>1, HoldsRest, Zenon
<1>11. wire'[c] = Rest(w, n) /\ wire' \in [Channel -> Seq(Cell)]
  BY <1>9, <1>10, Zenon DEF LinkInv, Typed, w
<1>12. /\ reading'[c].at = "payload" /\ reading'[c].message = m /\ reading'[c].got = g + n
       /\ reading' \in [Channel -> [at : {"header", "payload"}, message : Message \cup {None}, got : Nat]]
  <2> DEFINE R == [at : {"header", "payload"}, message : Message \cup {None}, got : Nat]
  <2>1. reading \in [Channel -> R] /\ reading[c].got = g
    BY Zenon DEF LinkInv, Typed, g
  <2>2. reading' = [reading EXCEPT ![c] = [reading[c] EXCEPT !.got = g + n]]
    BY <1>9, <2>1, Zenon
  <2> DEFINE x == [reading[c] EXCEPT !.got = g + n]
  <2>3. x \in R /\ x.at = "payload" /\ x.message = m /\ x.got = g + n
    BY <1>2, <1>6, <2>1 DEF m
  <2> HIDE DEF x, R
  <2>4. reading' = [reading EXCEPT ![c] = x]
    BY <2>2, Zenon DEF x
  <2>5. reading'[c] = x /\ reading' \in [Channel -> R]
    BY <2>1, <2>3, <2>4, Zenon
  <2>6. QED
    BY <2>3, <2>5, Zenon DEF R
<1>13. \A d \in Channel \ {c} : wire'[d] = wire[d] /\ reading'[d] = reading[d]
  BY <1>9, Zenon DEF LinkInv, Typed
<1>14. Size(c)' = S /\ Place(c)' = Span(r, S) + (g + n) /\ Place(c) = Span(r, S) + g
  BY <1>9, <1>12, Zenon DEF Place, Size, S, r, g
<1>15. Place(c)' = (Span(r, S) + g) + n
  BY <1>1, <1>6, <1>14
<1>16. Framing(c)'
  <2>1. Holds(wire'[c], sent'[c], Size(c)', Place(c)')
    BY <1>9, <1>10, <1>11, <1>14, <1>15, Zenon DEF s
  <2>2. Len(wire'[c]) =< scenario'.room
    <3>1. scenario.room \in Nat
      BY Basics, Zenon DEF LinkInv
    <3>2. QED
      BY <1>1, <1>3, <1>6, <1>10, <1>11, <3>1
  <2>3. reading'[c].got \in Header .. Size(c)'
    BY <1>1, <1>2, <1>6, <1>12, <1>14
  <2>4. /\ Len(received'[c]) < Len(sent'[c]) /\ reading'[c].message = sent'[c][Len(received'[c]) + 1]
        /\ \A k \in 1 .. Len(received'[c]) : received'[c][k] = sent'[c][k]
        /\ Len(received'[c]) =< Len(sent'[c])
    BY <1>2, <1>9, <1>12, Zenon DEF LinkInv, Framing, s, r
  <2>5. QED
    BY <1>12, <2>1, <2>2, <2>3, <2>4, Zenon DEF Framing
<1>17. Place(c)' + Len(wire'[c]) = Place(c) + Len(wire[c])
  BY <1>1, <1>6, <1>10, <1>11, <1>14 DEF w
<1>18. QED
  BY <1>9, <1>11, <1>12, <1>13, <1>16, <1>17, Zenon DEF Takes, LinkInv, Typed

\* The message that is returned is the next one that was sent.
LEMMA TakesMessage ==
    ASSUME LinkInv, NEW c \in Channel, recv_returns(c), UNCHANGED <<scenario, closed>>
    PROVE  /\ Takes(c) /\ wire' = wire
           /\ Len(received[c]) < Len(sent[c])
           /\ received' = [received EXCEPT ![c] = Append(@, sent[c][Len(received[c]) + 1])]
           /\ reading[c].message = sent[c][Len(received[c]) + 1]
<1> DEFINE s == sent[c]
           S == Size(c)
           r == Len(received[c])
           m == reading[c].message
<1>1. /\ S \in Nat \ {0} /\ wire[c] \in Seq(Cell) /\ Len(wire[c]) \in Nat /\ s \in Seq(Message) /\ r \in Nat
      /\ Span(r, S) \in Nat /\ Span(Len(s), S) \in Nat /\ received[c] \in Seq(Message)
  BY Basics, Zenon DEF LinkInv
<1>2. /\ reading[c].at = "payload" /\ r < Len(s) /\ m = s[r + 1] /\ reading[c].got \in Nat
  BY Basics, Zenon DEF recv_returns, LinkInv, Framing
<1>3. m \in Message /\ ChannelOf(m) = c
  BY <1>1, <1>2 DEF LinkInv, Typed
<1>4. reading[c].got = S
  <2>1. SizeOf(m) = S
    BY <1>3, CellsAre, Zenon DEF LinkInv
  <2>2. S - reading[c].got = 0
    BY <2>1, Zenon DEF recv_returns, Missing
  <2>3. QED
    BY <1>1, <1>2, <2>2
<1>5. /\ received' = [received EXCEPT ![c] = Append(@, m)]
      /\ reading' = [reading EXCEPT ![c] = AtHeader] /\ UNCHANGED <<wire, sending, sent>>
  BY Zenon DEF recv_returns
<1> HIDE DEF s, S, r, m
<1>6. /\ received'[c] = Append(received[c], m) /\ received' \in [Channel -> Seq(Message)]
      /\ Len(received'[c]) = r + 1
  BY <1>1, <1>3, <1>5 DEF LinkInv, Typed, r
<1>7. /\ reading'[c].at = "header" /\ reading'[c].got = 0
      /\ reading' \in [Channel -> [at : {"header", "payload"}, message : Message \cup {None}, got : Nat]]
  BY <1>5, Zenon DEF LinkInv, Typed, AtHeader
<1>8. \A d \in Channel \ {c} : received'[d] = received[d] /\ reading'[d] = reading[d]
  BY <1>5, Zenon DEF LinkInv, Typed
<1>9. Size(c)' = S /\ Place(c)' = Span(r + 1, S) + 0 /\ Place(c) = Span(r, S) + S
  BY <1>4, <1>6, <1>7, Zenon DEF Place, Size, S, r
<1>10. Place(c)' = Place(c)
  BY <1>1, <1>9, SpanStep
<1>11. Framing(c)'
  <2>1. Holds(wire'[c], sent'[c], Size(c)', Place(c)') /\ Len(wire'[c]) =< scenario'.room
    BY <1>5, <1>9, <1>10, Zenon DEF LinkInv, Framing, S
  <2>2. Len(received'[c]) =< Len(sent'[c])
    BY <1>1, <1>2, <1>5, <1>6 DEF s
  <2>3. ASSUME NEW k \in 1 .. Len(received'[c])
        PROVE  received'[c][k] = sent'[c][k]
    <3>1. CASE k = r + 1
      BY <1>1, <1>2, <1>5, <1>6, <3>1 DEF r, s
    <3>2. CASE k # r + 1
      BY <1>1, <1>5, <1>6, <3>2 DEF LinkInv, Framing, r, s
    <3>3. QED
      BY <3>1, <3>2, Zenon
  <2>4. QED
    BY <1>7, <2>1, <2>2, <2>3, Zenon DEF Framing
<1>12. QED
  BY <1>2, <1>5, <1>6, <1>7, <1>8, <1>10, <1>11, Zenon DEF Takes, LinkInv, Typed, s, r, m

\* What one reader does leaves the other channels and the threads that send alone.
LEMMA TakesKeeps ==
    ASSUME LinkInv, NEW c \in Channel, Takes(c)
    PROVE  (\A d \in Channel : Framing(d)') /\ Sends' /\ Complete'
<1>1. /\ UNCHANGED <<scenario, sending, sent, closed>> /\ Framing(c)'
      /\ \A d \in Channel \ {c} :
            wire'[d] = wire[d] /\ received'[d] = received[d] /\ reading'[d] = reading[d]
      /\ Open(c) => Place(c)' + Len(wire'[c]) = Place(c) + Len(wire[c])
  BY Zenon DEF Takes
<1>2. \A d \in Channel : Size(d)' = Size(d) /\ Open(d)' = Open(d) /\ \A t \in Thread : SendsOn(t, d)' = SendsOn(t, d)
  BY <1>1, Zenon DEF Size, Open, SendsOn
<1>3. \A d \in Channel \ {c} : Place(d)' = Place(d)
  BY <1>1, <1>2, Zenon DEF Place
<1>4. ASSUME NEW d \in Channel
      PROVE  Framing(d)'
  <2>1. CASE d = c
    BY <1>1, <2>1, Zenon
  <2>2. CASE d # c
    <3>1. Framing(d)
      BY Zenon DEF LinkInv
    <3>2. /\ wire'[d] = wire[d] /\ received'[d] = received[d] /\ reading'[d] = reading[d]
          /\ sent'[d] = sent[d] /\ Size(d)' = Size(d) /\ Place(d)' = Place(d) /\ scenario' = scenario
      BY <1>1, <1>2, <1>3, <2>2, Zenon
    <3>3. QED
      BY <3>1, <3>2, Zenon DEF Framing
  <2>3. QED
    BY <2>1, <2>2, Zenon
<1>5. \A d \in Channel : Open(d) => Place(d)' + Len(wire'[d]) = Place(d) + Len(wire[d])
  BY <1>1, <1>3, Zenon
<1>6. Sends'
  <2>1. ASSUME NEW t \in Thread, NEW d \in Channel, Open(d), SendsOn(t, d)
        PROVE  Left(t, d)'
    <3>1. Left(t, d)
      BY <2>1, Zenon DEF LinkInv, Sends
    <3>2. Place(d)' + Len(wire'[d]) + Len(sending[t]) = Span(Len(sent[d]), Size(d))
      BY <1>5, <2>1, <3>1, Zenon DEF Left
    <3>3. QED
      BY <1>1, <1>2, <3>1, <3>2, Zenon DEF Left
  <2>2. Caller \subseteq Thread /\ Server \subseteq Thread
    BY Zenon DEF Thread
  <2>3. /\ \A t \in Caller, d \in Channel : SendsOn(t, d)' => d = Up(scenario.conn[t])' /\ Open(d)'
        /\ \A t \in Server, d \in Channel : SendsOn(t, d)' => d[2] = "response"
    BY <1>1, <1>2, <2>2, Zenon DEF LinkInv, Sends, Up
  <2>4. \A t \in Thread, d \in Channel : Open(d)' /\ SendsOn(t, d)' => Left(t, d)'
    BY <1>2, <2>1, Zenon
  <2>5. \A t, u \in Thread, d \in Channel : Open(d)' /\ SendsOn(t, d)' /\ SendsOn(u, d)' => t = u
    BY <1>2, Zenon DEF LinkInv, Sends
  <2>6. QED
    BY <2>3, <2>4, <2>5, Zenon DEF Sends
<1>7. Complete'
  BY <1>1, <1>2, <1>5, Zenon DEF LinkInv, Complete
<1>8. QED
  BY <1>4, <1>6, <1>7, Zenon

----------------------------------------------------------------------------
(* Sending                                                                 *)

\* The parts of a piece of a message.
LEMMA Parts ==
    ASSUME NEW T, NEW v \in Seq(T), NEW m, NEW g \in Nat, Piece(v, m, g), NEW n \in 0 .. Len(v)
    PROVE  /\ First(v, n) \in Seq(T) /\ Len(First(v, n)) = n /\ Piece(First(v, n), m, g)
           /\ Rest(v, n) \in Seq(T) /\ Len(Rest(v, n)) = Len(v) - n /\ Piece(Rest(v, n), m, g + n)
<1>1. First(v, n) \in Seq(T) /\ Len(First(v, n)) = n /\ \A k \in 1 .. n : First(v, n)[k] = v[k]
  BY DEF First
<1>2. Piece(First(v, n), m, g)
  <2>1. \A k \in 1 .. n : k \in 1 .. Len(v)
    OBVIOUS
  <2>2. \A k \in 1 .. n : v[k] = <<m, g + k>>
    BY <2>1, Zenon DEF Piece
  <2>3. QED
    BY <1>1, <2>2, Zenon DEF Piece
<1>3. Rest(v, n) \in Seq(T) /\ Len(Rest(v, n)) = Len(v) - n
  BY DEF Rest
<1>4. \A k \in 1 .. Len(v) - n : Rest(v, n)[k] = v[n + k] /\ n + k \in 1 .. Len(v) /\ g + (n + k) = (g + n) + k
  BY DEF Rest
<1>5. Piece(Rest(v, n), m, g + n)
  BY <1>3, <1>4, Zenon DEF Piece
<1>6. QED
  BY <1>1, <1>2, <1>3, <1>5, Zenon

\* v is what was not yet copied of m, message i + 1 and the last of s; g of its cells are
\* on the wire w or taken.
Pending(w, v, s, S, P, m, i, g) ==
    /\ w \in Seq(Cell) /\ v \in Seq(Cell) /\ s \in Seq(Message) /\ S \in Nat \ {0} /\ P \in Nat
    /\ i \in Nat /\ Len(s) = i + 1 /\ m = s[i + 1]
    /\ g \in Nat /\ P + Len(w) = Span(i, S) + g /\ g + Len(v) = S
    /\ Piece(v, m, g) /\ Holds(w, s, S, P)

\* n cells of it go to the wire.
Copied(w, v, s, S, P, m, i, n) ==
    /\ w \o First(v, n) \in Seq(Cell) /\ Len(w \o First(v, n)) = Len(w) + n
    /\ Holds(w \o First(v, n), s, S, P)
    /\ Rest(v, n) \in Seq(Cell) /\ Len(Rest(v, n)) =< S /\ Len(Rest(v, n)) = Len(v) - n
    /\ Piece(Rest(v, n), m, S - Len(Rest(v, n)))
    /\ P + Len(w \o First(v, n)) + Len(Rest(v, n)) = Span(i + 1, S)

\* The kernel copies n cells.
LEMMA Copies ==
    ASSUME NEW w, NEW v, NEW s, NEW S, NEW P, NEW m, NEW i, NEW g, Pending(w, v, s, S, P, m, i, g),
           NEW n \in 0 .. Len(v)
    PROVE  Copied(w, v, s, S, P, m, i, n)
<1>0. /\ w \in Seq(Cell) /\ v \in Seq(Cell) /\ s \in Seq(Message) /\ S \in Nat \ {0} /\ P \in Nat
      /\ i \in Nat /\ Len(s) = i + 1 /\ m = s[i + 1]
      /\ g \in Nat /\ P + Len(w) = Span(i, S) + g /\ g + Len(v) = S
      /\ Piece(v, m, g) /\ Holds(w, s, S, P)
  BY Zenon DEF Pending
<1> DEFINE f == First(v, n)
           t == Rest(v, n)
<1>1. /\ f \in Seq(Cell) /\ Len(f) = n /\ Piece(f, m, g)
      /\ t \in Seq(Cell) /\ Len(t) = Len(v) - n /\ Piece(t, m, g + n)
  BY <1>0, Parts
<1> HIDE DEF f, t
<1>2. w \o f \in Seq(Cell) /\ Len(w \o f) = Len(w) + Len(f)
  BY <1>0, <1>1, ConcatProperties, Zenon
<1> DEFINE a == Len(w)
           b == Len(v)
           x == Span(i, S)
           y == Len(w \o f)
           z == Len(t)
<1>3. /\ a \in Nat /\ b \in Nat /\ y = a + n /\ z = b - n /\ n \in 0 .. b
      /\ P + a = x + g /\ g + b = S
  BY <1>0, <1>1, <1>2
<1>4. x \in Nat /\ Span(i + 1, S) = x + S
  BY <1>0, SpanStep, Zenon
<1>5. Holds(w \o f, s, S, P)
  <2>1. g \in 0 .. S /\ g + Len(f) =< S
    <3> HIDE DEF b
    <3>1. QED
      BY <1>0, <1>1, <1>3
  <2>2. QED
    BY <1>0, <1>1, <2>1, HoldsAppend, Zenon
<1> HIDE DEF a, b, x, y, z
<1>6. S - z = g + n /\ z =< S
  BY <1>0, <1>3
<1>7. P + y + z = x + S
  BY <1>0, <1>3, <1>4
<1>8. QED
  BY <1>1, <1>2, <1>3, <1>4, <1>5, <1>6, <1>7, Zenon DEF f, t, a, b, x, y, z, Copied

\* How much fits is between nothing and all.
LEMMA FitsRange ==
    ASSUME LinkInv, NEW c \in Channel, NEW v \in Seq(Cell)
    PROVE  /\ Fits(c, v) \in 0 .. Len(v)
           /\ Len(wire[c]) + Fits(c, v) =< scenario.room
<1> DEFINE a == Len(v)
           b == scenario.room - Len(wire[c])
<1>1. a \in Nat /\ b \in Nat /\ scenario.room \in Nat /\ Len(wire[c]) \in Nat
  <2>1. scenario.room \in Nat /\ Len(wire[c]) \in Nat /\ Len(wire[c]) =< scenario.room
    BY Basics, Zenon DEF LinkInv, Framing
  <2>2. QED
    BY <2>1
<1>2. b = scenario.room - Len(wire[c]) /\ Fits(c, v) = Min({a, b})
  BY Zenon DEF Fits
<1> HIDE DEF a, b
<1>3. Min({a, b}) \in Nat /\ Min({a, b}) =< a /\ Min({a, b}) =< b
  BY <1>1, MinOfTwo, Zenon
<1>4. QED
  BY <1>1, <1>2, <1>3 DEF a

\* Thread t puts cells of the last message on channel c.
Puts(t, c) ==
    /\ UNCHANGED <<scenario, closed, reading, received>>
    /\ wire' \in [Channel -> Seq(Cell)] /\ sending' \in [Thread -> Seq(Cell)]
    /\ sent' \in [Channel -> Seq(Message)]
    /\ \A d \in Channel \ {c} : wire'[d] = wire[d] /\ sent'[d] = sent[d]
    /\ \A u \in Thread \ {t} : sending'[u] = sending[u]
    /\ \A k \in DOMAIN sent'[c] : ChannelOf(sent'[c][k]) = c
    /\ Framing(c)'
    /\ \A d \in Channel : SendsOn(t, d)' => d = c
    /\ sending'[t] # <<>> => SendsOn(t, c)'
    /\ Left(t, c)'

\* It does so alone, and leaves the other channels as they are.
LEMMA PutsKeeps ==
    ASSUME LinkInv, NEW t \in Thread, NEW c \in Channel, Puts(t, c), Open(c),
           \A u \in Thread : SendsOn(u, c) => u = t,
           t \in Caller => c = Up(scenario.conn[t]), t \in Server => c[2] = "response",
           \A d \in Channel : SendsOn(t, d) => d = c
    PROVE  (\A d \in Channel : Framing(d)') /\ Sends' /\ Complete'
<1>1. /\ UNCHANGED <<scenario, closed, reading, received>> /\ Framing(c)' /\ Left(t, c)'
      /\ \A d \in Channel \ {c} : wire'[d] = wire[d] /\ sent'[d] = sent[d]
      /\ \A u \in Thread \ {t} : sending'[u] = sending[u]
      /\ \A d \in Channel : SendsOn(t, d)' => d = c
  BY Zenon DEF Puts
<1>2. \A d \in Channel : Size(d)' = Size(d) /\ Open(d)' = Open(d) /\ Place(d)' = Place(d)
  BY <1>1, Zenon DEF Size, Open, Place
<1>3. \A d \in Channel, u \in Thread \ {t} : SendsOn(u, d)' = SendsOn(u, d)
  BY <1>1, Zenon DEF SendsOn
<1>4. ASSUME NEW d \in Channel
      PROVE  Framing(d)'
  <2>1. CASE d = c
    BY <1>1, <2>1, Zenon
  <2>2. CASE d # c
    <3>1. Framing(d)
      BY Zenon DEF LinkInv
    <3>2. /\ wire'[d] = wire[d] /\ received'[d] = received[d] /\ reading'[d] = reading[d]
          /\ sent'[d] = sent[d] /\ Size(d)' = Size(d) /\ Place(d)' = Place(d) /\ scenario' = scenario
      BY <1>1, <1>2, <2>2, Zenon
    <3>3. QED
      BY <3>1, <3>2, Zenon DEF Framing
  <2>3. QED
    BY <2>1, <2>2, Zenon
<1>5. Sends'
  <2>1. Caller \subseteq Thread /\ Server \subseteq Thread
    BY Zenon DEF Thread
  <2>2. ASSUME NEW u \in Caller, NEW d \in Channel, SendsOn(u, d)'
        PROVE  d = Up(scenario'.conn[u]) /\ Open(d)'
    <3>1. CASE u = t
      BY <1>1, <1>2, <2>1, <2>2, <3>1, Zenon
    <3>2. CASE u # t
      BY <1>1, <1>2, <1>3, <2>1, <2>2, <3>2, Zenon DEF LinkInv, Sends
    <3>3. QED
      BY <3>1, <3>2, Zenon
  <2>3. ASSUME NEW u \in Server, NEW d \in Channel, SendsOn(u, d)'
        PROVE  d[2] = "response"
    <3>1. CASE u = t
      BY <1>1, <2>1, <2>3, <3>1, Zenon
    <3>2. CASE u # t
      BY <1>3, <2>1, <2>3, <3>2, Zenon DEF LinkInv, Sends
    <3>3. QED
      BY <3>1, <3>2, Zenon
  <2>4. ASSUME NEW u \in Thread, NEW d \in Channel, Open(d)', SendsOn(u, d)'
        PROVE  Left(u, d)'
    <3>1. CASE u = t
      BY <1>1, <2>4, <3>1, Zenon
    <3>2. CASE u # t
      <4>1. d # c /\ Left(u, d)
        BY <1>2, <1>3, <2>4, <3>2, Zenon DEF LinkInv, Sends
      <4>2. QED
        BY <1>1, <1>2, <3>2, <4>1, Zenon DEF Left
    <3>3. QED
      BY <3>1, <3>2, Zenon
  <2>5. ASSUME NEW u \in Thread, NEW v \in Thread, NEW d \in Channel, Open(d)', SendsOn(u, d)', SendsOn(v, d)'
        PROVE  u = v
    <3>1. CASE u = t \/ v = t
      BY <1>1, <1>3, <2>5, <3>1, Zenon
    <3>2. CASE u # t /\ v # t
      BY <1>2, <1>3, <2>5, <3>2, Zenon DEF LinkInv, Sends
    <3>3. QED
      BY <3>1, <3>2, Zenon
  <2>6. QED
    BY <2>2, <2>3, <2>4, <2>5, Zenon DEF Sends, Up
<1>6. ASSUME NEW d \in Channel, Open(d)', \A u \in Thread : ~SendsOn(u, d)'
      PROVE  Place(d)' + Len(wire'[d]) = Span(Len(sent'[d]), Size(d)')
  <2>1. CASE d = c
    <3>1. sending'[t] = <<>>
      BY <1>6, <2>1, Zenon DEF Puts
    <3>2. Place(c)' \in Nat /\ Len(wire'[c]) \in Nat /\ Len(sending'[t]) = 0
      <4>1. wire'[c] \in Seq(Cell) /\ Place(c)' = Place(c)
        BY <1>2, Zenon DEF Puts
      <4>2. Place(c) \in Nat
        BY Basics, Zenon DEF LinkInv
      <4>3. QED
        BY <3>1, <4>1, <4>2
    <3>3. Place(c)' + Len(wire'[c]) + Len(sending'[t]) = Span(Len(sent'[c]), Size(c)')
      BY <1>1, Zenon DEF Left
    <3>4. QED
      BY <2>1, <3>2, <3>3
  <2>2. CASE d # c
    <3>1. \A u \in Thread : ~SendsOn(u, d)
      BY <1>3, <1>6, <2>2, Zenon
    <3>2. QED
      BY <1>1, <1>2, <1>6, <2>2, <3>1, Zenon DEF LinkInv, Complete
  <2>3. QED
    BY <2>1, <2>2, Zenon
<1>7. QED
  BY <1>4, <1>5, <1>6, Zenon DEF Complete

\* send: the thread begins the next message of a channel on which nobody sends.
LEMMA StartPuts ==
    ASSUME LinkInv, NEW t \in Thread, NEW m \in Message, NEW c \in Channel, c = ChannelOf(m),
           StartSend(t, m), Open(c), \A u \in Thread : ~SendsOn(u, c),
           UNCHANGED <<scenario, closed>>
    PROVE  Puts(t, c) /\ sent' = [sent EXCEPT ![c] = Append(@, m)]
<1> DEFINE w == wire[c]
           s == Append(sent[c], m)
           S == Size(c)
           P == Place(c)
           v == Cells(m)
           n == Fits(c, v)
           i == Len(sent[c])
<1>1. /\ S \in Nat \ {0} /\ w \in Seq(Cell) /\ sent[c] \in Seq(Message) /\ i \in Nat /\ P \in Nat
      /\ Len(w) \in Nat /\ scenario.room \in Nat
  BY Basics, Zenon DEF LinkInv
<1>2. v \in Seq(Cell) /\ Len(v) = S /\ Piece(v, m, 0) /\ v # <<>>
  BY CellsAre, Zenon DEF LinkInv
<1>3. n \in 0 .. Len(v) /\ Len(w) + n =< scenario.room
  BY <1>2, FitsRange, Zenon
<1>4. /\ wire' = [wire EXCEPT ![c] = w \o First(v, n)]
      /\ sending' = [sending EXCEPT ![t] = Rest(v, n)]
      /\ sent' = [sent EXCEPT ![c] = s] /\ UNCHANGED <<reading, received>>
  BY Zenon DEF StartSend
<1>5. s \in Seq(Message) /\ Len(s) = i + 1 /\ s[i + 1] = m /\ \A k \in 1 .. i : s[k] = sent[c][k]
  BY <1>1
<1>6. P + Len(w) = Span(i, S) /\ Holds(w, sent[c], S, P)
  BY Zenon DEF LinkInv, Complete, Framing
<1>7. Holds(w, s, S, P)
  <2> HIDE DEF w, S, P
  <2>1. QED
    BY <1>1, <1>6, HoldsMore, Zenon
<1> HIDE DEF w, s, S, P, v, n, i
<1>8. Copied(w, v, s, S, P, m, i, n)
  <2>1. Pending(w, v, s, S, P, m, i, 0)
    <3>1. Span(i, S) \in Nat
      BY <1>1, SpanStep, Zenon
    <3>2. P + Len(w) = Span(i, S) + 0 /\ 0 + Len(v) = S
      BY <1>1, <1>2, <1>6, <3>1
    <3>3. QED
      BY <1>1, <1>2, <1>5, <1>7, <3>2, Zenon DEF Pending
  <2>2. QED
    BY <1>3, <2>1, Copies, Zenon
<1>9. /\ wire'[c] = w \o First(v, n) /\ wire' \in [Channel -> Seq(Cell)]
      /\ sending'[t] = Rest(v, n) /\ sending' \in [Thread -> Seq(Cell)]
      /\ sent'[c] = s /\ sent' \in [Channel -> Seq(Message)]
      /\ \A d \in Channel \ {c} : wire'[d] = wire[d] /\ sent'[d] = sent[d]
      /\ \A u \in Thread \ {t} : sending'[u] = sending[u]
  BY <1>4, <1>5, <1>8, Zenon DEF LinkInv, Typed, Copied
<1>10. Size(c)' = S /\ Place(c)' = P
  BY <1>4, Zenon DEF Size, Place, S, P
<1>11. \A k \in DOMAIN s : ChannelOf(s[k]) = c
  BY <1>1, <1>5 DEF LinkInv, Typed, i
<1>12. Framing(c)'
  <2>1. Holds(wire'[c], sent'[c], Size(c)', Place(c)') /\ Len(wire'[c]) =< scenario'.room
    BY <1>3, <1>8, <1>9, <1>10, Zenon DEF Copied
  <2>2. Framing(c) /\ Len(received[c]) \in Nat
    BY Basics, Zenon DEF LinkInv
  <2> DEFINE r == Len(received[c])
  <2>3. r =< i /\ r \in Nat /\ \A k \in 1 .. r : received[c][k] = sent[c][k]
    BY <2>2, Zenon DEF Framing, i
  <2> HIDE DEF r
  <2>4. r =< Len(s) /\ (r < i => r < Len(s)) /\ \A k \in 1 .. r : k \in 1 .. i
    BY <1>1, <1>5, <2>3
  <2>5. r < i => s[r + 1] = sent[c][r + 1]
    BY <1>1, <1>5, <2>3
  <2>6. \A k \in 1 .. r : received[c][k] = s[k]
    BY <1>5, <2>3, <2>4, Zenon
  <2>7. /\ reading[c].at = "header" => reading[c].got = 0
        /\ reading[c].at = "payload" =>
              r < i /\ reading[c].message = sent[c][r + 1] /\ reading[c].got \in Header .. S
    BY <2>2, Zenon DEF Framing, r, i, S
  <2>8. QED
    BY <1>4, <1>9, <1>10, <2>1, <2>4, <2>5, <2>6, <2>7, Zenon DEF Framing, r
<1>13. Left(t, c)'
  <2>1. s # <<>>
    BY <1>1, <1>5
  <2>2. /\ sent'[c] = s /\ Len(s) = i + 1 /\ s[Len(s)] = m /\ wire'[c] = w \o First(v, n)
        /\ sending'[t] = Rest(v, n)
    BY <1>5, <1>9, Zenon
  <2>3. /\ Len(Rest(v, n)) =< S /\ Piece(Rest(v, n), m, S - Len(Rest(v, n)))
        /\ P + Len(w \o First(v, n)) + Len(Rest(v, n)) = Span(i + 1, S)
    BY <1>8, Zenon DEF Copied
  <2>4. QED
    BY <1>10, <2>1, <2>2, <2>3, Zenon DEF Left
<1>14. Rest(v, n) # <<>> => ChannelOf(Rest(v, n)[1][1]) = c
  <2>1. Rest(v, n) # <<>> => 1 \in 1 .. Len(Rest(v, n))
    BY <1>8 DEF Copied
  <2>2. Rest(v, n) # <<>> => Rest(v, n)[1] = <<m, (S - Len(Rest(v, n))) + 1>>
    BY <1>8, <2>1, Zenon DEF Piece, Copied
  <2>3. QED
    BY <2>2
<1>15. QED
  BY <1>4, <1>9, <1>11, <1>12, <1>13, <1>14, Zenon DEF Puts, SendsOn, s

\* send: the thread goes on with its message.
LEMMA ContinuePuts ==
    ASSUME LinkInv, NEW t \in Thread, ContinueSend(t)
    PROVE  \E c \in Channel : Puts(t, c) /\ Open(c) /\ SendsOn(t, c) /\ UNCHANGED sent
<1>0. PICK c : c = ChannelOf(sending[t][1][1])
  BY Zenon
<1> DEFINE v == sending[t]
           w == wire[c]
           s == sent[c]
           S == Size(c)
           P == Place(c)
           n == Fits(c, v)
           m == s[Len(s)]
           g == S - Len(v)
           i == Len(s) - 1
<1>1. v \in Seq(Cell) /\ v # <<>> /\ v[1] \in Cell /\ v[1][1] \in Message
  BY DEF LinkInv, Typed, ContinueSend, Cell
<1>2. c \in Channel /\ Open(c) /\ SendsOn(t, c)
  BY <1>0, <1>1, CellsAre, Zenon DEF LinkInv, ContinueSend, Open, SendsOn
<1>3. Left(t, c)
  BY <1>2, Zenon DEF LinkInv, Sends
<1>4. /\ wire' = [wire EXCEPT ![c] = w \o First(v, n)]
      /\ sending' = [sending EXCEPT ![t] = Rest(v, n)]
      /\ UNCHANGED <<scenario, reading, sent, received, closed>>
  BY <1>0, Zenon DEF ContinueSend, clientVars
<1>5. /\ S \in Nat \ {0} /\ w \in Seq(Cell) /\ s \in Seq(Message) /\ P \in Nat
      /\ Len(w) \in Nat /\ scenario.room \in Nat
  BY <1>2, Basics, Zenon DEF LinkInv
<1>6. n \in 0 .. Len(v) /\ Len(w) + n =< scenario.room
  BY <1>1, <1>2, FitsRange, Zenon
<1>7. s # <<>> /\ Len(v) =< S /\ Piece(v, m, g) /\ P + Len(w) + Len(v) = Span(Len(s), S)
  BY <1>3, Zenon DEF Left
<1>8. Holds(w, s, S, P)
  BY <1>2, Zenon DEF LinkInv, Framing
<1> HIDE DEF v, w, s, S, P, n, m
<1>9. i \in Nat /\ Len(s) = i + 1 /\ m = s[i + 1] /\ g \in Nat /\ g + Len(v) = S /\ Len(v) \in Nat
  BY <1>1, <1>5, <1>7 DEF m
<1>10. P + Len(w) = Span(i, S) + g
  <2>1. Span(i, S) \in Nat /\ Span(Len(s), S) = Span(i, S) + S
    <3> HIDE DEF i
    <3>1. QED
      BY <1>5, <1>9, SpanStep, Zenon
  <2> DEFINE x == Span(i, S)
             y == Span(Len(s), S)
             a == Len(w)
             b == Len(v)
  <2>2. x \in Nat /\ y = x + S /\ a \in Nat /\ b \in Nat /\ P + a + b = y /\ g + b = S
    BY <1>5, <1>7, <1>9, <2>1, Zenon
  <2> HIDE DEF x, y, a, b, g
  <2>3. P + a = x + g
    BY <1>5, <1>9, <2>2
  <2>4. QED
    BY <2>3, Zenon DEF x, a
<1> HIDE DEF i, g
<1>11. Copied(w, v, s, S, P, m, i, n)
  <2>1. Pending(w, v, s, S, P, m, i, g)
    BY <1>1, <1>5, <1>7, <1>8, <1>9, <1>10, Zenon DEF Pending
  <2>2. QED
    BY <1>6, <2>1, Copies, Zenon
<1>12. /\ wire'[c] = w \o First(v, n) /\ wire' \in [Channel -> Seq(Cell)]
       /\ sending'[t] = Rest(v, n) /\ sending' \in [Thread -> Seq(Cell)]
       /\ sent'[c] = s /\ sent' \in [Channel -> Seq(Message)]
       /\ \A d \in Channel \ {c} : wire'[d] = wire[d] /\ sent'[d] = sent[d]
       /\ \A u \in Thread \ {t} : sending'[u] = sending[u]
  BY <1>2, <1>4, <1>11, Zenon DEF LinkInv, Typed, s, Copied
<1>13. Size(c)' = S /\ Place(c)' = P
  BY <1>4, Zenon DEF Size, Place, S, P
<1>14. \A k \in DOMAIN s : ChannelOf(s[k]) = c
  BY <1>2, Zenon DEF LinkInv, Typed, s
<1>15. Framing(c)'
  <2>1. Holds(wire'[c], sent'[c], Size(c)', Place(c)') /\ Len(wire'[c]) =< scenario'.room
    BY <1>4, <1>6, <1>11, <1>12, <1>13, Zenon DEF Copied
  <2>2. Framing(c)
    BY <1>2, Zenon DEF LinkInv
  <2>3. QED
    BY <1>4, <1>12, <1>13, <2>1, <2>2, Zenon DEF Framing, S, s
<1>16. Left(t, c)'
  BY <1>7, <1>9, <1>11, <1>12, <1>13, Zenon DEF Left, m, Copied
<1>17. Rest(v, n) # <<>> => ChannelOf(Rest(v, n)[1][1]) = c
  <2>1. Rest(v, n) # <<>> => 1 \in 1 .. Len(Rest(v, n))
    BY <1>11 DEF Copied
  <2>2. Rest(v, n) # <<>> => Rest(v, n)[1] = <<m, (S - Len(Rest(v, n))) + 1>>
    BY <1>11, <2>1, Zenon DEF Piece, Copied
  <2>3. ChannelOf(m) = c
    BY <1>5, <1>9, <1>14 DEF m
  <2>4. QED
    BY <2>2, <2>3
<1>18. Puts(t, c)
  BY <1>2, <1>4, <1>12, <1>14, <1>15, <1>16, <1>17, Zenon DEF Puts, SendsOn, s
<1>19. QED
  BY <1>2, <1>4, <1>18, Zenon

----------------------------------------------------------------------------
(* One sender for each channel                                             *)

\* The channels of a client are different, and so are those of different clients.
LEMMA Channels ==
    ASSUME NEW p \in Peer, NEW q \in Peer
    PROVE  /\ Up(p) \in Channel /\ Down(p) \in Channel /\ Up(p) # Down(q)
           /\ Up(p)[1] = p /\ Down(p)[1] = p /\ Up(p)[2] = "request" /\ Down(p)[2] = "response"
           /\ Up(p) = Up(q) => p = q
           /\ Down(p) = Down(q) => p = q
BY Zenon DEF Up, Down, Channel

\* Messages are known by their fields.
LEMMA SameMessage ==
    ASSUME NEW m \in Message, NEW n \in Message, m.peer = n.peer, m.dir = n.dir, m.id = n.id
    PROVE  m = n
BY DEF Message

\* None is not a message.
LEMMA NoneIsNone == None \notin Message
BY DEF None, Message

\* A message whose send has not ended is not received.
LEMMA NotReceived ==
    ASSUME LinkInv, NEW t \in Thread, NEW c \in Channel, Open(c), SendsOn(t, c)
    PROVE  sent[c] # <<>> /\ Len(received[c]) < Len(sent[c])
<1> DEFINE r == Len(received[c])
           l == Len(sent[c])
           S == Size(c)
           a == Len(wire[c])
           b == Len(sending[t])
           g == reading[c].got
<1>1. Left(t, c)
  BY Zenon DEF LinkInv, Sends
<1>2. /\ r \in Nat /\ l \in Nat /\ S \in Nat /\ a \in Nat /\ g \in Nat
      /\ Span(r, S) \in Nat /\ Span(l, S) \in Nat
  BY Basics, Zenon DEF LinkInv
<1>3. b \in Nat \ {0}
  <2>1. sending[t] \in Seq(Cell) /\ sending[t] # <<>>
    BY Zenon DEF LinkInv, Typed, SendsOn
  <2>2. QED
    BY <2>1
<1>4. (Span(r, S) + g) + a + b = Span(l, S)
  BY <1>1, Zenon DEF Left, Place
<1> HIDE DEF r, l, S, a, b, g
<1>5. ASSUME l =< r PROVE FALSE
  <2>1. Span(l, S) =< Span(r, S)
    BY <1>2, <1>5, SpanMono, Zenon
  <2>2. QED
    BY <1>2, <1>3, <1>4, <2>1
<1>6. r < l
  BY <1>2, <1>5, SMTT(30)
<1>7. QED
  BY <1>1, <1>6, Zenon DEF Left, r, l

\* A request the server received was made by a caller of that client.
LEMMA ReceivedCall ==
    ASSUME LinkInv, NEW p \in Peer, NEW k \in DOMAIN received[Up(p)]
    PROVE  /\ received[Up(p)][k].id \in DOMAIN calls
           /\ scenario.conn[calls[received[Up(p)][k].id]] = p
<1>1. received[Up(p)] \in Seq(Message) /\ sent[Up(p)] \in Seq(Message) /\ Framing(Up(p))
  BY Channels, Zenon DEF LinkInv, Typed
<1>2. k \in DOMAIN sent[Up(p)] /\ received[Up(p)][k] = sent[Up(p)][k]
  BY <1>1 DEF Framing
<1>3. QED
  BY <1>2 DEF LinkInv, Requests

\* A handler that responds is the only one to send to its client: there is no other, or the
\* client has made no other call.
LEMMA RespondsAlone ==
    ASSUME LinkInv, Serial(scenario), NEW t \in Server, job[t] # None, job[t].peer \in Peer,
           Open(Down(job[t].peer)), NEW u \in Thread
    PROVE  ~SendsOn(u, Down(job[t].peer))
<1> SUFFICES ASSUME SendsOn(u, Down(job[t].peer)) PROVE FALSE
  BY Zenon
<1> DEFINE m == job[t]
           p == m.peer
           c == Down(p)
<1>1. c \in Channel /\ \A q \in Peer : c # Up(q)
  BY Channels, Zenon
<1>2. u \in Server
  <2>1. scenario.conn \in [Caller -> Peer]
    BY SocketLinkAssumption, Zenon DEF LinkInv, Typed
  <2>2. QED
    BY <1>1, <2>1, Zenon DEF LinkInv, Sends, Thread
<1>3. t \in Active /\ u \in Active /\ u # t
  BY <1>2, Zenon DEF LinkInv, Handlers, SendsOn
<1>4. ~scenario.ahead /\ OneCallerEach(scenario)
  BY <1>3, Zenon DEF Serial, Active
<1>5. Held(m)
  BY Zenon DEF LinkInv, Requests
<1>6. PICK k \in DOMAIN received[Up(p)] : received[Up(p)][k] = m
  BY <1>5, Zenon DEF Held
<1>7. m.id \in DOMAIN calls /\ scenario.conn[calls[m.id]] = p
  BY <1>6, ReceivedCall
<1>8. /\ sent[c] # <<>> /\ Len(received[c]) < Len(sent[c]) /\ Len(received[c]) \in Nat
      /\ sent[c] \in Seq(Message) /\ received[c] \in Seq(Message)
  BY <1>1, NotReceived, Basics, Zenon DEF LinkInv
<1> DEFINE l == Len(sent[c])
           x == sent[c][l].id
<1>9. l \in DOMAIN sent[c] /\ \A j \in DOMAIN received[c] : j \in DOMAIN sent[c] /\ j # l /\ received[c][j] = sent[c][j]
  BY <1>1, <1>8, SMTT(30) DEF LinkInv, Framing
<1>10. x \in DOMAIN calls /\ scenario.conn[calls[x]] = p
  <2>1. PICK j \in DOMAIN received[Up(p)] : received[Up(p)][j].id = x
    BY <1>9 DEF LinkInv, Requests
  <2>2. p \in Peer
    BY Zenon
  <2> HIDE DEF p, x
  <2>3. /\ received[Up(p)][j].id \in DOMAIN calls
        /\ scenario.conn[calls[received[Up(p)][j].id]] = p
    BY <2>2, ReceivedCall, Zenon
  <2>4. QED
    BY <2>1, <2>3, Zenon
<1>11. x # m.id
  BY <1>5, <1>9, Zenon DEF Held
<1>12. ~Answered(x)
  <2>1. \A i, j \in DOMAIN sent[c] : i # j => sent[c][i].id # sent[c][j].id
    BY Zenon DEF LinkInv, Requests
  <2>2. \A j \in DOMAIN received[c] : received[c][j].id # x
    BY <1>9, <2>1, Zenon
  <2>3. QED
    BY <1>10, <2>2, Zenon DEF Answered
<1>13. ~Answered(m.id)
  BY <1>5, <1>7, <1>9, Zenon DEF Held, Answered
<1>14. calls[x] = calls[m.id]
  <2>1. calls[x] \in Caller /\ calls[m.id] \in Caller
    <3>1. calls \in Seq(Caller)
      BY Zenon DEF LinkInv, Typed
    <3> HIDE DEF x, m
    <3>2. QED
      BY <1>7, <1>10, <3>1
  <2>2. QED
    BY <1>4, <1>7, <1>10, <2>1, Zenon DEF OneCallerEach
<1>15. QED
  BY <1>4, <1>7, <1>10, <1>11, <1>12, <1>13, <1>14, Zenon DEF LinkInv, Waiting

\* A caller that is let in sends alone: it has send_buffer_lock, or the client to itself.
LEMMA InvokesAlone ==
    ASSUME LinkInv, Serial(scenario), NEW c \in Caller, gracht_client_invoke(c), NEW u \in Thread
    PROVE  ~SendsOn(u, Up(scenario.conn[c]))
<1> SUFFICES ASSUME SendsOn(u, Up(scenario.conn[c])) PROVE FALSE
  BY Zenon
<1>1. scenario.conn \in [Caller -> Peer]
  BY SocketLinkAssumption, Zenon DEF LinkInv, Typed
<1>2. Up(scenario.conn[c]) \in Channel /\ Up(scenario.conn[c])[2] = "request"
  BY <1>1, Channels, Zenon
<1>3. u \in Caller /\ Up(scenario.conn[c]) = Up(scenario.conn[u])
  BY <1>2, Zenon DEF LinkInv, Sends, Thread
<1>4. scenario.conn[u] = scenario.conn[c]
  BY <1>1, <1>3, Channels, Zenon
<1>5. sending[u] # <<>> /\ sending[c] = <<>>
  BY Zenon DEF SendsOn, gracht_client_invoke
<1>6. QED
  BY <1>3, <1>4, <1>5, Zenon DEF gracht_client_invoke, Serial, OneCallerEach, CallersOf

----------------------------------------------------------------------------
(* Clients that go away                                                    *)

\* A step that drops what belongs to clients that are gone, and nothing else.
Drops ==
    /\ UNCHANGED <<scenario, sent, received, reading>> /\ closed \subseteq closed'
    /\ wire' \in [Channel -> Seq(Cell)] /\ sending' \in [Thread -> Seq(Cell)]
    /\ \A d \in Channel : wire'[d] = wire[d] \/ (wire'[d] = <<>> /\ ~Open(d)')
    /\ \A t \in Thread : \/ sending'[t] = sending[t]
                         \/ sending'[t] = <<>> /\ \A d \in Channel : SendsOn(t, d) => ~Open(d)'
    /\ \A t \in Caller : sending'[t] # <<>> => scenario.conn[t] \notin closed'

\* Nobody's place in a stream depends on it.
LEMMA DropsKeeps ==
    ASSUME LinkInv, Drops
    PROVE  (\A d \in Channel : Framing(d)') /\ Sends' /\ Complete'
<1>1. /\ UNCHANGED <<scenario, sent, received, reading>>
      /\ \A d \in Channel : wire'[d] = wire[d] \/ (wire'[d] = <<>> /\ ~Open(d)')
      /\ \A d \in Channel : Open(d)' => Open(d)
      /\ \A t \in Thread : \/ sending'[t] = sending[t]
                           \/ sending'[t] = <<>> /\ \A d \in Channel : SendsOn(t, d) => ~Open(d)'
      /\ \A t \in Caller : sending'[t] # <<>> => scenario.conn[t] \notin closed'
  BY Zenon DEF Drops, Open
<1>2. \A d \in Channel : Size(d)' = Size(d) /\ Place(d)' = Place(d)
  BY <1>1, Zenon DEF Size, Place
<1>3. \A t \in Thread, d \in Channel : SendsOn(t, d)' => SendsOn(t, d) /\ sending'[t] = sending[t]
  BY <1>1, Zenon DEF SendsOn
<1>4. \A t \in Thread, d \in Channel : Open(d)' /\ SendsOn(t, d) => SendsOn(t, d)'
  BY <1>1, Zenon DEF SendsOn
<1>5. ASSUME NEW d \in Channel
      PROVE  Framing(d)'
  <2>1. Framing(d) /\ Len(wire[d]) \in Nat /\ Place(d) \in Nat /\ scenario.room \in Nat
        /\ Span(Len(sent[d]), Size(d)) \in Nat
    BY Basics, Zenon DEF LinkInv
  <2>2. Holds(wire[d], sent[d], Size(d), Place(d))
    BY <2>1, Zenon DEF Framing
  <2>3. CASE wire'[d] = wire[d]
    BY <1>1, <1>2, <2>1, <2>2, <2>3, Zenon DEF Framing
  <2>4. CASE wire'[d] = <<>>
    <3>1. Place(d) + Len(wire[d]) =< Span(Len(sent[d]), Size(d))
      BY <2>2, Zenon DEF Holds
    <3>2. Place(d) + 0 =< Span(Len(sent[d]), Size(d))
      BY <2>1, <3>1
    <3>3. Holds(<<>>, sent[d], Size(d), Place(d))
      BY <3>2 DEF Holds
    <3>4. Holds(wire[d], sent[d], Size(d), Place(d))'
      BY <1>1, <1>2, <2>4, <3>3, Zenon
    <3>5. (Len(wire[d]) =< scenario.room)'
      BY <1>1, <2>1, <2>4
    <3>6. QED
      BY <1>1, <1>2, <2>1, <3>4, <3>5, Zenon DEF Framing
  <2>5. QED
    BY <1>1, <2>3, <2>4, Zenon
<1>6. Sends'
  <2>1. ASSUME NEW t \in Caller, NEW d \in Channel, SendsOn(t, d)'
        PROVE  (d = Up(scenario.conn[t]) /\ Open(d))'
    <3>1. d = Up(scenario.conn[t])
      BY <1>3, <2>1, Zenon DEF LinkInv, Sends, Thread
    <3>2. sending'[t] # <<>>
      BY <2>1, Zenon DEF SendsOn
    <3>3. QED
      BY <1>1, <3>1, <3>2, Zenon DEF Open, Up
  <2>2. ASSUME NEW t \in Server, NEW d \in Channel, SendsOn(t, d)'
        PROVE  d[2] = "response"
    BY <1>3, <2>2, Zenon DEF LinkInv, Sends, Thread
  <2>3. ASSUME NEW t \in Thread, NEW d \in Channel, Open(d)', SendsOn(t, d)'
        PROVE  Left(t, d)'
    <3>1. Left(t, d)
      BY <1>1, <1>3, <2>3, Zenon DEF LinkInv, Sends
    <3>2. wire'[d] = wire[d] /\ sending'[t] = sending[t] /\ sent'[d] = sent[d]
      BY <1>1, <1>3, <2>3, Zenon
    <3>3. QED
      BY <1>2, <3>1, <3>2, Zenon DEF Left
  <2>4. ASSUME NEW t \in Thread, NEW u \in Thread, NEW d \in Channel, Open(d)',
               SendsOn(t, d)', SendsOn(u, d)'
        PROVE  t = u
    BY <1>1, <1>3, <2>4, Zenon DEF LinkInv, Sends
  <2>5. QED
    BY <2>1, <2>2, <2>3, <2>4, Zenon DEF Sends
<1>7. Complete'
  <2> SUFFICES ASSUME NEW d \in Channel, Open(d)', \A t \in Thread : ~SendsOn(t, d)'
               PROVE  (Place(d) + Len(wire[d]) = Span(Len(sent[d]), Size(d)))'
    BY Zenon DEF Complete
  <2>1. Open(d) /\ \A t \in Thread : ~SendsOn(t, d)
    BY <1>1, <1>4, Zenon
  <2>2. Place(d) + Len(wire[d]) = Span(Len(sent[d]), Size(d))
    BY <2>1, Zenon DEF LinkInv, Complete
  <2>3. wire'[d] = wire[d] /\ sent'[d] = sent[d]
    BY <1>1, Zenon
  <2>4. QED
    BY <1>2, <2>2, <2>3, Zenon
<1>8. QED
  BY <1>5, <1>6, <1>7, Zenon

\* A caller that sends has a client that is not gone.
LEMMA CallerSends ==
    ASSUME LinkInv, NEW t \in Caller, sending[t] # <<>>
    PROVE  scenario.conn[t] \notin closed
<1>1. sending[t] \in Seq(Cell) /\ sending[t] # <<>>
  BY Zenon DEF LinkInv, Typed, Thread
<1>2. sending[t][1] \in Cell
  BY <1>1
<1>3. ChannelOf(sending[t][1][1]) \in Channel
  BY <1>2, Zenon DEF Cell, Message, ChannelOf, Channel
<1>4. Open(Up(scenario.conn[t]))
  BY <1>3, Zenon DEF LinkInv, Sends, SendsOn
<1>5. QED
  BY <1>4, Zenon DEF Open, Up

\* A send that fails, a client that goes away and client_destroy drop what is theirs.
LEMMA FailsDrops ==
    ASSUME LinkInv, NEW t \in Server, SendFails(t)
    PROVE  Drops
<1>1. sending \in [Thread -> Seq(Cell)] /\ t \in Thread /\ <<>> \in Seq(Cell)
  BY DEF LinkInv, Typed, Thread
<1>2. sending' \in [Thread -> Seq(Cell)] /\ sending'[t] = <<>> /\ \A u \in Thread \ {t} : sending'[u] = sending[u]
  BY <1>1, Zenon DEF SendFails
<1>3. \A d \in Channel : SendsOn(t, d) => ~Open(d)
  BY DEF SendFails, SendsOn, Open, ChannelOf
<1>4. t \notin Caller
  BY SocketLinkAssumption, Zenon DEF Server
<1>5. QED
  BY <1>1, <1>2, <1>3, <1>4, CallerSends, Zenon DEF SendFails, Drops, LinkInv, Typed, clientVars, Open, Thread

\* A client that goes away drops what its threads send and what was sent to it.
LEMMA GoneDrops ==
    ASSUME LinkInv, NEW p \in Peer, ClientGone(p)
    PROVE  Drops
<1>1. sending \in [Thread -> Seq(Cell)] /\ wire \in [Channel -> Seq(Cell)] /\ <<>> \in Seq(Cell)
  BY DEF LinkInv, Typed
<1>2. Down(p) \in Channel /\ Down(p)[1] = p
  BY Channels, Zenon
<1>3. closed' = closed \cup {p} /\ UNCHANGED <<scenario, sent, received, reading>>
  BY Zenon DEF ClientGone
<1>4. /\ sending' \in [Thread -> Seq(Cell)]
      /\ \A t \in Thread : sending'[t] = IF t \in CallersOf(p) THEN <<>> ELSE sending[t]
  BY <1>1, Zenon DEF ClientGone
<1>5. /\ wire' \in [Channel -> Seq(Cell)] /\ wire'[Down(p)] = <<>>
      /\ \A d \in Channel \ {Down(p)} : wire'[d] = wire[d]
  BY <1>1, <1>2, Zenon DEF ClientGone
<1>6. \A t \in CallersOf(p), d \in Channel : SendsOn(t, d) => ~Open(d)'
  <2>1. SUFFICES ASSUME NEW t \in CallersOf(p), NEW d \in Channel, SendsOn(t, d) PROVE d[1] \in closed'
    BY Zenon DEF Open
  <2>2. t \in Caller /\ scenario.conn[t] = p
    BY Zenon DEF CallersOf
  <2>3. d = Up(p)
    BY <2>1, <2>2, Zenon DEF LinkInv, Sends
  <2>4. QED
    BY <1>3, <2>3, Zenon DEF Up
<1>7. \A t \in Caller : sending'[t] # <<>> => scenario.conn[t] \notin closed'
  BY <1>3, <1>4, CallerSends, Zenon DEF CallersOf, Thread
<1>8. ~Open(Down(p))'
  BY <1>2, <1>3, Zenon DEF Open
<1>9. QED
  BY <1>3, <1>4, <1>5, <1>6, <1>7, <1>8, Zenon DEF Drops

\* client_destroy, on the server, drops what the client sent and was not read.
LEMMA DestroyDrops ==
    ASSUME LinkInv, NEW p \in Peer, client_destroy(p)
    PROVE  Drops
<1>1. wire \in [Channel -> Seq(Cell)] /\ <<>> \in Seq(Cell)
  BY DEF LinkInv, Typed
<1>2. /\ Down(p) \in Channel /\ Down(p)[1] = p /\ Up(p) \in Channel /\ Up(p)[1] = p
  BY Channels, Zenon
<1>3. p \in closed
  <2>1. [peer |-> p, gone |-> TRUE] \in main.batch
    BY Zenon DEF client_destroy
  <2>2. QED
    BY <2>1, Zenon DEF LinkInv, Loop
<1>4. UNCHANGED <<scenario, sent, received, reading, sending, closed>>
  BY Zenon DEF client_destroy, clientVars
<1>5. /\ wire' \in [Channel -> Seq(Cell)] /\ wire'[Down(p)] = <<>> /\ wire'[Up(p)] = <<>>
      /\ \A d \in Channel \ {Down(p), Up(p)} : wire'[d] = wire[d]
  BY <1>1, <1>2, Zenon DEF client_destroy
<1>6. \A t \in Caller : sending'[t] # <<>> => scenario.conn[t] \notin closed'
  BY <1>4, CallerSends, Zenon
<1>7. ~Open(Down(p))' /\ ~Open(Up(p))'
  BY <1>2, <1>3, <1>4, Zenon DEF Open
<1>8. sending \in [Thread -> Seq(Cell)]
  BY Zenon DEF LinkInv, Typed
<1>9. QED
  BY <1>4, <1>5, <1>6, <1>7, <1>8, Zenon DEF Drops

\* recv_client that fails leaves the stream of a client that is gone at an end.
LEMMA CutShortTakes ==
    ASSUME LinkInv, NEW p \in Peer, main.peer = p, ReadCutShort, UNCHANGED <<scenario, closed>>
    PROVE  Takes(Up(p))
<1> DEFINE c == Up(p)
           r == Len(received[c])
<1>2. c \in Channel /\ c[1] = main.peer
  BY Channels, Zenon
<1>3. ~Open(c) /\ wire[c] = <<>>
  BY <1>2, Zenon DEF ReadCutShort, Open
<1>4. AtHeader \in [at : {"header", "payload"}, message : Message \cup {None}, got : Nat]
  BY Zenon DEF AtHeader
<1>5. /\ reading' \in [Channel -> [at : {"header", "payload"}, message : Message \cup {None}, got : Nat]]
      /\ reading'[c] = AtHeader /\ \A d \in Channel \ {c} : reading'[d] = reading[d]
      /\ UNCHANGED <<wire, sending, sent, received>>
  BY <1>2, <1>4, Zenon DEF ReadCutShort, LinkInv, Typed
<1>6. /\ Framing(c) /\ r \in Nat /\ Len(sent[c]) \in Nat /\ Size(c) \in Nat
      /\ Span(r, Size(c)) \in Nat /\ scenario.room \in Nat
  BY <1>2, Basics, Zenon DEF LinkInv
<1>7. Size(c)' = Size(c) /\ Place(c)' = Span(r, Size(c)) + 0
  <2>1. Size(c)' = Size(c)
    BY <1>2, Zenon DEF Size, ReadCutShort
  <2>2. QED
    BY <1>5, <2>1 DEF Place, AtHeader
<1>8. Span(r, Size(c)) =< Span(Len(sent[c]), Size(c))
  BY <1>6, SpanMono, Zenon DEF Framing
<1>9. Framing(c)'
  BY <1>3, <1>5, <1>6, <1>7, <1>8, SMTT(30) DEF Framing, Holds, AtHeader
<1>10. QED
  BY <1>2, <1>3, <1>5, <1>9, Zenon DEF Takes, LinkInv, Typed

----------------------------------------------------------------------------
(* Requests and their responses                                            *)

\* Only what is received from the server is new: the requests stay where they are.
LEMMA SameRequests ==
    ASSUME LinkInv, UNCHANGED <<scenario, sent, calls, jobs, job>>,
           \A p \in Peer : received'[Up(p)] = received[Up(p)]
    PROVE  Requests'
<1>1. \A m : m.peer \in Peer => Held(m)' = Held(m)
  BY Zenon DEF Held
<1>2. \A m \in jobs : m.peer \in Peer
  BY Zenon DEF LinkInv, Typed, Message
<1>3. \A t \in Server : job[t] # None => job[t].peer \in Peer
  BY Zenon DEF LinkInv, Typed, Message
<1>4. Requests
  BY Zenon DEF LinkInv
<1>5. (\A m \in jobs : Held(m) /\ \A t \in Server : job[t] # m)'
  BY <1>1, <1>2, <1>4, Zenon DEF Requests
<1>6. (\A t \in Server : job[t] # None => Held(job[t]))'
  BY <1>1, <1>3, <1>4, Zenon DEF Requests
<1>7. QED
  BY <1>4, <1>5, <1>6 DEF Requests

\* An answer that was received stays received.
LEMMA SameWaiting ==
    ASSUME LinkInv, UNCHANGED <<scenario, calls>>,
           \A p \in Peer : \A k \in DOMAIN received[Down(p)] :
               k \in DOMAIN received'[Down(p)] /\ received'[Down(p)][k] = received[Down(p)][k]
    PROVE  Waiting'
<1>1. scenario.conn \in [Caller -> Peer] /\ calls \in Seq(Caller) /\ Waiting
  BY SocketLinkAssumption, Zenon DEF LinkInv, Typed
<1>2. \A i \in DOMAIN calls : Answered(i) => Answered(i)'
  <2> SUFFICES ASSUME NEW i \in DOMAIN calls, Answered(i) PROVE Answered(i)'
    BY Zenon
  <2>1. scenario.conn[calls[i]] \in Peer
    BY <1>1
  <2>2. QED
    BY <2>1, Zenon DEF Answered
<1>3. QED
  BY <1>1, <1>2, Zenon DEF Waiting

\* A worker takes a request that nobody else has.
LEMMA TakesRequest ==
    ASSUME LinkInv, NEW w \in Worker, WorkerTakes(w)
    PROVE  Typed' /\ Requests' /\ Handlers'
<1>1. PICK m \in jobs : jobs' = jobs \ {m} /\ job' = [job EXCEPT ![w] = m]
  BY Zenon DEF WorkerTakes
<1>2. /\ UNCHANGED <<scenario, wire, sending, reading, sent, received, calls, closed, events>>
      /\ w \in scenario.workers /\ sending[w] = <<>> /\ w \in Server
  BY Zenon DEF WorkerTakes, sockVars, clientVars, Server
<1>3. m \in Message /\ jobs \subseteq Message /\ job \in [Server -> Message \cup {None}]
  BY Zenon DEF LinkInv, Typed
<1>4. /\ job' \in [Server -> Message \cup {None}] /\ job'[w] = m
      /\ \A t \in Server \ {w} : job'[t] = job[t]
  BY <1>1, <1>2, <1>3, Zenon
<1>5. Typed'
  BY <1>1, <1>2, <1>3, <1>4, Zenon DEF LinkInv, Typed
<1>6. \A n : Held(n)' = Held(n)
  BY <1>2, Zenon DEF Held
<1>7. Requests
  BY Zenon DEF LinkInv
<1>8. Held(m) /\ \A t \in Server : job[t] # m
  BY <1>7, Zenon DEF Requests
<1>9. (\A n \in jobs : Held(n) /\ \A t \in Server : job[t] # n)'
  <2> SUFFICES ASSUME NEW n \in jobs' PROVE Held(n)' /\ \A t \in Server : job'[t] # n
    BY Zenon
  <2>1. n \in jobs /\ n # m
    BY <1>1, Zenon
  <2>2. Held(n) /\ \A t \in Server : job[t] # n
    BY <1>7, <2>1, Zenon DEF Requests
  <2>3. QED
    BY <1>4, <1>6, <2>1, <2>2, Zenon
<1>10. (\A t \in Server : job[t] # None => Held(job[t]))'
  <2> SUFFICES ASSUME NEW t \in Server, job'[t] # None PROVE Held(job[t])'
    BY Zenon
  <2>1. CASE t = w
    BY <1>4, <1>6, <1>8, <2>1, Zenon
  <2>2. CASE t # w
    BY <1>4, <1>6, <1>7, <2>2, Zenon DEF Requests
  <2>3. QED
    BY <2>1, <2>2, Zenon
<1>11. (\A t, u \in Server : job[t] # None /\ job[t] = job[u] => t = u)'
  <2> SUFFICES ASSUME NEW t \in Server, NEW u \in Server, job'[t] # None, job'[t] = job'[u] PROVE t = u
    BY Zenon
  <2>1. \A v \in Server \ {w} : job'[v] # m
    BY <1>4, <1>8, Zenon
  <2>2. QED
    BY <1>4, <1>7, <2>1, Zenon DEF Requests
<1>12. Requests'
  <2>1. (\A p \in Peer : \A k \in DOMAIN sent[Up(p)] :
          sent[Up(p)][k].id \in DOMAIN calls /\ scenario.conn[calls[sent[Up(p)][k].id]] = p)'
    BY <1>2, <1>7, Zenon DEF Requests
  <2>2. (\A p \in Peer : \A j, k \in DOMAIN sent[Up(p)] : sent[Up(p)][j].id = sent[Up(p)][k].id => j = k)'
    BY <1>2, <1>7, Zenon DEF Requests
  <2>3. (\A p \in Peer : \A k \in DOMAIN sent[Down(p)] :
          \E j \in DOMAIN received[Up(p)] : received[Up(p)][j].id = sent[Down(p)][k].id)'
    <3>1. \A p \in Peer : \A k \in DOMAIN sent[Down(p)] :
              \E j \in DOMAIN received[Up(p)] : received[Up(p)][j].id = sent[Down(p)][k].id
      BY <1>7, Zenon DEF Requests
    <3>2. QED
      BY <1>2, <3>1
  <2>4. (\A p \in Peer : \A j, k \in DOMAIN sent[Down(p)] :
          sent[Down(p)][j].id = sent[Down(p)][k].id => j = k)'
    BY <1>2, <1>7, Zenon DEF Requests
  <2>5. QED
    BY <1>9, <1>10, <1>11, <2>1, <2>2, <2>3, <2>4, Zenon DEF Requests
<1>13. w \in Active /\ Active' = Active
  BY <1>2, Zenon DEF Active
<1>14. Handlers'
  BY <1>2, <1>4, <1>13, Zenon DEF LinkInv, Handlers
<1>15. QED
  BY <1>5, <1>12, <1>14, Zenon

\* dispatch: the server has the next request, to which there is no response.
LEMMA DispatchKeeps ==
    ASSUME LinkInv, NEW p \in Peer, main.peer = p, MainRuns, dispatch,
           UNCHANGED <<scenario, calls, closed, events>>
    PROVE  Typed' /\ Requests' /\ Waiting' /\ Handlers'
<1>1. PICK c : c = Up(p)
  BY Zenon
<1>2. PICK m : m = sent[c][Len(received[c]) + 1]
  BY Zenon
<1>3. PICK r : r = Len(received[c])
  BY Zenon
<1>4. c \in Channel
  BY <1>1, Channels, Zenon
<1>5. recv_returns(c)
  BY <1>1, Zenon DEF dispatch
<1>6. /\ Takes(c) /\ r < Len(sent[c]) /\ reading[c].message = m /\ m = sent[c][r + 1]
      /\ received' = [received EXCEPT ![c] = Append(@, m)]
  BY <1>2, <1>3, <1>4, <1>5, TakesMessage, Zenon
<1>7. /\ received \in [Channel -> Seq(Message)] /\ sent \in [Channel -> Seq(Message)]
      /\ job \in [Server -> Message \cup {None}] /\ jobs \subseteq Message
      /\ received[c] \in Seq(Message) /\ sent[c] \in Seq(Message) /\ r \in Nat
      /\ \A k \in DOMAIN received[c] : k \in DOMAIN sent[c] /\ k # r + 1 /\ received[c][k] = sent[c][k]
      /\ r + 1 \in DOMAIN sent[c] /\ Main \in Server
  <2>1. /\ received \in [Channel -> Seq(Message)] /\ sent \in [Channel -> Seq(Message)]
        /\ job \in [Server -> Message \cup {None}] /\ jobs \subseteq Message /\ Framing(c)
    BY <1>4, Zenon DEF LinkInv, Typed
  <2>2. received[c] \in Seq(Message) /\ sent[c] \in Seq(Message) /\ r \in Nat
    BY <1>3, <1>4, <2>1
  <2>3. DOMAIN received[c] = 1 .. r /\ DOMAIN sent[c] = 1 .. Len(sent[c]) /\ Len(sent[c]) \in Nat
    BY <1>3, <2>2
  <2>4. r =< Len(sent[c]) /\ \A k \in 1 .. r : received[c][k] = sent[c][k]
    BY <1>3, <2>1, Zenon DEF Framing
  <2>5. \A k \in DOMAIN received[c] : k \in DOMAIN sent[c] /\ k # r + 1 /\ received[c][k] = sent[c][k]
    BY <2>2, <2>3, <2>4
  <2>6. r + 1 \in DOMAIN sent[c]
    BY <1>6, <2>2, <2>3
  <2>7. QED
    BY <2>1, <2>2, <2>5, <2>6, Zenon DEF Server
<1>8. m \in Message /\ m.peer = p /\ m.dir = "request"
  <2>1. m \in Message /\ ChannelOf(m) = c
    BY <1>4, <1>6, <1>7 DEF LinkInv, Typed
  <2>2. QED
    BY <1>1, <2>1 DEF ChannelOf, Up
<1>9. UNCHANGED <<scenario, calls, closed, events, sending, sent>>
  BY <1>6, Zenon DEF Takes
<1>10. /\ received'[c] = Append(received[c], m)
       /\ \A d \in Channel \ {c} : received'[d] = received[d]
  BY <1>4, <1>6, <1>7, Zenon
<1>11. /\ \A k \in DOMAIN received[c] : k \in DOMAIN received'[c] /\ received'[c][k] = received[c][k]
       /\ r + 1 \in DOMAIN received'[c] /\ received'[c][r + 1] = m
  BY <1>3, <1>7, <1>8, <1>10
<1>12. Requests
  BY Zenon DEF LinkInv
<1>13. \A n \in jobs \cup {job[t] : t \in Server} : n # None => n # m
  <2> SUFFICES ASSUME NEW n \in jobs \cup {job[t] : t \in Server}, n # None, n = m PROVE FALSE
    BY Zenon
  <2>1. Held(m)
    BY <1>12 DEF Requests
  <2>2. PICK k \in DOMAIN received[c] : received[c][k] = m
    BY <1>1, <1>8, <2>1, Zenon DEF Held
  <2>3. sent[c][k].id = sent[c][r + 1].id /\ k \in DOMAIN sent[c] /\ k # r + 1
    BY <1>6, <1>7, <2>2, Zenon
  <2>4. QED
    BY <1>1, <1>7, <1>12, <2>3 DEF Requests
<1>14. m # None
  BY <1>8, NoneIsNone, Zenon
<1>15. Held(m)'
  <2>1. ASSUME NEW k \in DOMAIN sent[Down(p)], sent[Down(p)][k].id = m.id PROVE FALSE
    <3>1. PICK j \in DOMAIN received[c] : received[c][j].id = m.id
      BY <1>1, <1>12, <2>1 DEF Requests
    <3>2. sent[c][j].id = sent[c][r + 1].id /\ j \in DOMAIN sent[c] /\ j # r + 1
      BY <1>6, <1>7, <3>1, Zenon
    <3>3. QED
      BY <1>1, <1>7, <1>12, <3>2, SMTT(30) DEF Requests
  <2>2. \E k \in DOMAIN received'[Up(m.peer)] : received'[Up(m.peer)][k] = m
    BY <1>1, <1>8, <1>11, Zenon
  <2>3. QED
    BY <1>8, <1>9, <2>1, <2>2, Zenon DEF Held
<1>16. \A q \in Peer : /\ \A k \in DOMAIN received[Up(q)] :
                              k \in DOMAIN received'[Up(q)] /\ received'[Up(q)][k] = received[Up(q)][k]
                       /\ received'[Down(q)] = received[Down(q)]
  <2> SUFFICES ASSUME NEW q \in Peer
               PROVE  /\ \A k \in DOMAIN received[Up(q)] :
                              k \in DOMAIN received'[Up(q)] /\ received'[Up(q)][k] = received[Up(q)][k]
                      /\ received'[Down(q)] = received[Down(q)]
    BY Zenon
  <2>1. Up(q) \in Channel /\ Down(q) \in Channel \ {c}
    BY <1>1, Channels, Zenon
  <2>2. CASE Up(q) = c
    BY <1>10, <1>11, <2>1, <2>2, Zenon
  <2>3. CASE Up(q) # c
    BY <1>10, <2>1, <2>3, Zenon
  <2>4. QED
    BY <2>2, <2>3, Zenon
<1>17. ASSUME NEW n, n.peer \in Peer, Held(n) PROVE Held(n)'
  BY <1>9, <1>16, <1>17, Zenon DEF Held
<1>18. /\ \A n \in jobs' : n = m \/ n \in jobs
       /\ \A t \in Server : job'[t] = job[t] \/ job'[t] = m
       /\ \A t, u \in Server : job'[t] = m /\ job'[u] = m => t = u
       /\ \A t \in Server : ~(job'[t] = m /\ m \in jobs')
       /\ job' \in [Server -> Message \cup {None}] /\ jobs' \subseteq Message
  <2>1. CASE scenario.workers # {}
    <3>1. jobs' = jobs \cup {m} /\ job' = job
      BY <1>1, <1>6, <2>1, Zenon DEF dispatch
    <3>2. QED
      BY <1>7, <1>8, <1>13, <1>14, <3>1, Zenon
  <2>2. CASE scenario.workers = {}
    <3>1. jobs' = jobs /\ job' = [job EXCEPT ![Main] = m]
      BY <1>1, <1>6, <2>2, Zenon DEF dispatch
    <3>2. job'[Main] = m /\ \A t \in Server \ {Main} : job'[t] = job[t]
      BY <1>7, <3>1, Zenon
    <3>3. job' \in [Server -> Message \cup {None}]
      BY <1>7, <1>8, <3>1, Zenon
    <3>4. \A t \in Server : job[t] # m
      BY <1>13, <1>14, Zenon
    <3>5. m \notin jobs
      BY <1>13, <1>14, Zenon
    <3>6. QED
      BY <1>7, <3>1, <3>2, <3>3, <3>4, <3>5, Zenon
  <2>3. QED
    BY <2>1, <2>2, Zenon
<1>19. Typed'
  BY <1>6, <1>9, <1>18 DEF LinkInv, Typed, Takes
<1>20. Waiting'
  BY <1>9, <1>16, SameWaiting, Zenon
<1>21. Handlers'
  <2>1. Active' = Active
    BY <1>9, Zenon DEF Active
  <2>2. CASE scenario.workers # {}
    <3>1. job' = job
      BY <2>2, Zenon DEF dispatch
    <3>2. QED
      BY <1>9, <2>1, <3>1, Zenon DEF LinkInv, Handlers
  <2>3. CASE scenario.workers = {}
    <3>1. job' = [job EXCEPT ![Main] = m]
      BY <1>1, <1>6, <2>3, Zenon DEF dispatch
    <3>2. \A t \in Server \ {Main} : job'[t] = job[t]
      BY <1>7, <3>1, Zenon
    <3>3. sending[Main] = <<>> /\ Main \in Active
      BY <2>3, Zenon DEF MainRuns, Active
    <3>4. QED
      BY <1>9, <2>1, <3>2, <3>3, Zenon DEF LinkInv, Handlers
  <2>4. QED
    BY <2>2, <2>3, Zenon
<1>22. Requests'
  <2>1. ASSUME NEW n \in jobs' PROVE Held(n)' /\ \A t \in Server : job'[t] # n
    <3>1. CASE n = m
      BY <1>15, <1>18, <2>1, <3>1, Zenon
    <3>2. CASE n # m
      <4>1. n \in jobs /\ n.peer \in Peer
        BY <1>7, <1>18, <2>1, <3>2, Zenon DEF Message
      <4>2. Held(n) /\ \A t \in Server : job[t] # n
        BY <1>12, <4>1, Zenon DEF Requests
      <4>3. Held(n)'
        BY <1>17, <4>1, <4>2, Zenon
      <4>4. QED
        BY <1>18, <3>2, <4>2, <4>3, Zenon
    <3>3. QED
      BY <3>1, <3>2, Zenon
  <2>2. ASSUME NEW t \in Server, job'[t] # None PROVE Held(job[t])'
    <3>1. PICK n : n = job'[t]
      BY Zenon
    <3>2. Held(n)'
      <4>1. CASE n = m
        BY <1>15, <4>1, Zenon
      <4>2. CASE n # m
        <5>1. n = job[t] /\ n # None
          BY <1>18, <2>2, <3>1, <4>2, Zenon
        <5>2. Held(n) /\ n.peer \in Peer
          BY <1>7, <1>12, <5>1, Zenon DEF Requests, Message
        <5>3. QED
          BY <1>17, <5>2, Zenon
      <4>3. QED
        BY <4>1, <4>2, Zenon
    <3>3. QED
      BY <3>1, <3>2, Zenon
  <2>3. \A t, u \in Server : job'[t] # None /\ job'[t] = job'[u] => t = u
    <3>1. \A t, u \in Server : job[t] # None /\ job[t] = job[u] => t = u
      BY <1>12, Zenon DEF Requests
    <3>2. QED
      BY <1>18, <3>1, SMTT(30)
  <2>4. \A q \in Peer : \A k \in DOMAIN sent'[Down(q)] :
          \E j \in DOMAIN received'[Up(q)] : received'[Up(q)][j].id = sent'[Down(q)][k].id
    <3> SUFFICES ASSUME NEW q \in Peer, NEW k \in DOMAIN sent[Down(q)]
                 PROVE  \E j \in DOMAIN received'[Up(q)] : received'[Up(q)][j].id = sent[Down(q)][k].id
      BY <1>9, Zenon
    <3>1. PICK j \in DOMAIN received[Up(q)] : received[Up(q)][j].id = sent[Down(q)][k].id
      BY <1>12, Zenon DEF Requests
    <3>2. QED
      BY <1>16, <3>1, Zenon
  <2>5. (\A q \in Peer : \A k \in DOMAIN sent[Up(q)] :
          sent[Up(q)][k].id \in DOMAIN calls /\ scenario.conn[calls[sent[Up(q)][k].id]] = q)'
    <3>1. \A q \in Peer : \A k \in DOMAIN sent[Up(q)] :
              sent[Up(q)][k].id \in DOMAIN calls /\ scenario.conn[calls[sent[Up(q)][k].id]] = q
      BY <1>12, Zenon DEF Requests
    <3>2. QED
      BY <1>9, <3>1
  <2>6. (\A q \in Peer : \A j, k \in DOMAIN sent[Up(q)] : sent[Up(q)][j].id = sent[Up(q)][k].id => j = k)'
    BY <1>9, <1>12, Zenon DEF Requests
  <2>7. (\A q \in Peer : \A j, k \in DOMAIN sent[Down(q)] :
          sent[Down(q)][j].id = sent[Down(q)][k].id => j = k)'
    BY <1>9, <1>12, Zenon DEF Requests
  <2>8. QED
    BY <2>1, <2>2, <2>3, <2>4, <2>5, <2>6, <2>7, Zenon DEF Requests
<1>23. QED
  BY <1>19, <1>20, <1>21, <1>22, Zenon

\* What a step does to the channels of whole messages: one is sent on an open channel, the
\* next one is delivered, or clients may go away.
SendsOne ==
    \E c \in Channel, m \in Message :
        /\ c = ChannelOf(m) /\ Open(c) /\ sent' = [sent EXCEPT ![c] = Append(@, m)]
        /\ UNCHANGED <<received, closed>>
DeliversOne ==
    \E c \in Channel :
        /\ Len(received[c]) < Len(sent[c])
        /\ received' = [received EXCEPT ![c] = Append(@, sent[c][Len(received[c]) + 1])]
        /\ UNCHANGED <<sent, closed>>
MayClose == closed \subseteq closed' /\ UNCHANGED <<sent, received>>
Promises == SendsOne \/ DeliversOne \/ MayClose

\* gracht_server_respond: the request is done with, its response sent or its client gone.
LEMMA RespondKeeps ==
    ASSUME LinkInv, Serial(scenario), NEW t \in Server, gracht_server_respond(t)
    PROVE  /\ (\A d \in Channel : Framing(d)') /\ Sends' /\ Complete'
           /\ Typed' /\ Requests' /\ Waiting' /\ Handlers'
           /\ Promises
<1>1. PICK m : m = job[t]
  BY Zenon
<1>2. PICK p : p = m.peer
  BY Zenon
<1>3. PICK c : c = Down(p)
  BY Zenon
<1>4. PICK x : x = Response(p, m.id)
  BY Zenon
<1>5. /\ m # None /\ job' = [job EXCEPT ![t] = None]
      /\ UNCHANGED <<scenario, calls, closed, jobs, events>>
  BY <1>1, Zenon DEF gracht_server_respond, clientVars
<1>6. /\ job \in [Server -> Message \cup {None}] /\ jobs \subseteq Message /\ t \in Thread
      /\ sent \in [Channel -> Seq(Message)] /\ received \in [Channel -> Seq(Message)]
  BY Zenon DEF LinkInv, Typed, Thread
<1>7. m \in Message /\ p \in Peer /\ m.id \in 0 .. MaxCalls
  BY <1>1, <1>2, <1>5, <1>6, Zenon DEF Message
<1>8. c \in Channel /\ x \in Message /\ c = ChannelOf(x) /\ x.id = m.id /\ c[2] = "response" /\ c[1] = p
  BY <1>3, <1>4, <1>7, Channels, Zenon DEF Response, Message, ChannelOf, Down
<1>9. Held(m) /\ Requests /\ Handlers /\ sending[t] = <<>> /\ t \in Active
  BY <1>1, <1>5, Zenon DEF LinkInv, Requests, Handlers
<1>10. /\ job' \in [Server -> Message \cup {None}] /\ job'[t] = None
       /\ \A u \in Server \ {t} : job'[u] = job[u]
  BY <1>5, <1>6, Zenon
<1>11. /\ \A n \in jobs : n # m
       /\ \A u \in Server \ {t} : job[u] # m
  BY <1>1, <1>5, <1>9, Zenon DEF Requests
<1> DEFINE Answers ==
      /\ received' = received
      /\ sent' = sent \/ (Open(c) /\ sent' = [sent EXCEPT ![c] = Append(@, x)])
<1>12. ASSUME Answers PROVE Requests'
  <2>1. /\ UNCHANGED received
        /\ sent' = sent \/ sent' = [sent EXCEPT ![c] = Append(@, x)]
    BY <1>12, Zenon
  <2>2. /\ \A d \in Channel \ {c} : sent'[d] = sent[d]
        /\ sent'[c] = sent[c] \/ sent'[c] = Append(sent[c], x)
    BY <1>6, <1>8, <2>1, Zenon
  <2>3. \A k \in DOMAIN sent'[c] :
           \/ k \in DOMAIN sent[c] /\ sent'[c][k] = sent[c][k]
           \/ k = Len(sent[c]) + 1 /\ k \notin DOMAIN sent[c] /\ sent'[c][k] = x
    <3>1. sent[c] \in Seq(Message)
      BY <1>6, <1>8, Zenon
    <3>2. CASE sent'[c] = sent[c]
      BY <3>2, Zenon
    <3>3. CASE sent'[c] = Append(sent[c], x)
      <4>1. /\ DOMAIN sent'[c] = 1 .. Len(sent[c]) + 1 /\ DOMAIN sent[c] = 1 .. Len(sent[c])
            /\ Len(sent[c]) \in Nat /\ \A k \in 1 .. Len(sent[c]) : sent'[c][k] = sent[c][k]
            /\ sent'[c][Len(sent[c]) + 1] = x
        BY <1>8, <3>1, <3>3
      <4>2. QED
        BY <4>1
    <3>4. QED
      BY <2>2, <3>2, <3>3, Zenon
  <2>4. \A q \in Peer : sent'[Up(q)] = sent[Up(q)] /\ (q # p => sent'[Down(q)] = sent[Down(q)])
    BY <1>3, <1>7, <2>2, Channels
  <2>5. ASSUME NEW n \in Message, n # m, Held(n) PROVE Held(n)'
    <3>1. CASE n.peer # p
      <4>1. n.peer \in Peer
        BY Zenon DEF Message
      <4>2. QED
        BY <2>1, <2>4, <2>5, <3>1, <4>1, Zenon DEF Held
    <3>2. CASE n.peer = p
      <4>1. n.dir = m.dir
        BY <1>9, <2>5, Zenon DEF Held
      <4>2. n.id # m.id
        BY <1>2, <1>7, <2>5, <3>2, <4>1, SameMessage, Zenon
      <4>3. \A k \in DOMAIN sent[c] : sent[c][k].id # n.id
        BY <1>3, <2>5, <3>2, Zenon DEF Held
      <4>4. \A k \in DOMAIN sent'[c] : sent'[c][k].id # n.id
        BY <1>8, <2>3, <4>2, <4>3, Zenon
      <4>5. QED
        BY <1>3, <2>1, <2>5, <3>2, <4>4, Zenon DEF Held
    <3>3. QED
      BY <3>1, <3>2, Zenon
  <2>6. ASSUME NEW n \in jobs' PROVE Held(n)' /\ \A u \in Server : job'[u] # n
    <3>1. n \in jobs /\ n \in Message /\ n # m /\ n # None
      BY <1>5, <1>6, <1>11, <2>6, NoneIsNone, Zenon
    <3>2. Held(n) /\ \A u \in Server : job[u] # n
      BY <1>9, <3>1, Zenon DEF Requests
    <3>3. QED
      BY <1>10, <2>5, <3>1, <3>2, Zenon
  <2>7. ASSUME NEW u \in Server, job'[u] # None PROVE Held(job[u])'
    <3>1. PICK n : n = job'[u]
      BY Zenon
    <3>2. u # t /\ n = job[u]
      BY <1>10, <2>7, <3>1, Zenon
    <3>3. n \in Message /\ n # m /\ Held(n)
      <4>1. job[u] # None => Held(job[u])
        BY <1>9, Zenon DEF Requests
      <4>2. QED
        BY <1>6, <1>11, <2>7, <3>1, <3>2, <4>1
    <3>4. Held(n)'
      BY <2>5, <3>3, Zenon
    <3>5. QED
      BY <3>1, <3>4, Zenon
  <2>8. \A u, v \in Server : job'[u] # None /\ job'[u] = job'[v] => u = v
    <3>1. \A u, v \in Server : job[u] # None /\ job[u] = job[v] => u = v
      BY <1>9, Zenon DEF Requests
    <3>2. QED
      BY <1>10, <3>1
  <2>9. \A q \in Peer : \A k \in DOMAIN sent'[Down(q)] :
          \E j \in DOMAIN received'[Up(q)] : received'[Up(q)][j].id = sent'[Down(q)][k].id
    <3> SUFFICES ASSUME NEW q \in Peer, NEW k \in DOMAIN sent'[Down(q)]
                 PROVE  \E j \in DOMAIN received[Up(q)] : received[Up(q)][j].id = sent'[Down(q)][k].id
      BY <2>1, Zenon
    <3>1. \A h \in DOMAIN sent[Down(q)] :
            \E j \in DOMAIN received[Up(q)] : received[Up(q)][j].id = sent[Down(q)][h].id
      BY <1>9, Zenon DEF Requests
    <3>2. CASE q # p
      BY <2>4, <3>1, <3>2, Zenon
    <3>3. CASE q = p
      <4>1. \E j \in DOMAIN received[Up(p)] : received[Up(p)][j].id = m.id
        BY <1>2, <1>9, Zenon DEF Held
      <4>2. k \in DOMAIN sent'[c] /\ Down(q) = c
        BY <1>3, <3>3, Zenon
      <4>3. CASE k \in DOMAIN sent[c] /\ sent'[c][k] = sent[c][k]
        BY <3>1, <4>2, <4>3, Zenon
      <4>4. CASE sent'[c][k] = x
        BY <1>8, <3>3, <4>1, <4>2, <4>4, Zenon
      <4>5. QED
        BY <2>3, <4>2, <4>3, <4>4, Zenon
    <3>4. QED
      BY <3>2, <3>3, Zenon
  <2>10. \A q \in Peer : \A j, k \in DOMAIN sent'[Down(q)] :
            sent'[Down(q)][j].id = sent'[Down(q)][k].id => j = k
    <3> SUFFICES ASSUME NEW q \in Peer, NEW j \in DOMAIN sent'[Down(q)], NEW k \in DOMAIN sent'[Down(q)],
                        sent'[Down(q)][j].id = sent'[Down(q)][k].id
                 PROVE  j = k
      BY Zenon
    <3>1. \A g, h \in DOMAIN sent[Down(q)] : sent[Down(q)][g].id = sent[Down(q)][h].id => g = h
      BY <1>9, Zenon DEF Requests
    <3>2. CASE q # p
      BY <2>4, <3>1, <3>2, Zenon
    <3>3. CASE q = p
      <4>1. \A h \in DOMAIN sent[c] : sent[c][h].id # m.id
        BY <1>2, <1>3, <1>9, Zenon DEF Held
      <4>2. /\ j \in DOMAIN sent'[c] /\ k \in DOMAIN sent'[c] /\ sent'[c][j].id = sent'[c][k].id
            /\ \A g, h \in DOMAIN sent[c] : sent[c][g].id = sent[c][h].id => g = h
        BY <1>3, <3>1, <3>3, Zenon
      <4>3. QED
        BY <1>8, <2>3, <4>1, <4>2
    <3>4. QED
      BY <3>2, <3>3, Zenon
  <2>11. (\A q \in Peer : \A k \in DOMAIN sent[Up(q)] :
          sent[Up(q)][k].id \in DOMAIN calls /\ scenario.conn[calls[sent[Up(q)][k].id]] = q)'
    <3>1. \A q \in Peer : \A k \in DOMAIN sent[Up(q)] :
              sent[Up(q)][k].id \in DOMAIN calls /\ scenario.conn[calls[sent[Up(q)][k].id]] = q
      BY <1>9, Zenon DEF Requests
    <3>2. QED
      BY <1>5, <2>4, <3>1
  <2>12. (\A q \in Peer : \A j, k \in DOMAIN sent[Up(q)] : sent[Up(q)][j].id = sent[Up(q)][k].id => j = k)'
    BY <1>5, <1>9, <2>4, Zenon DEF Requests
  <2>13. QED
    BY <2>6, <2>7, <2>8, <2>9, <2>10, <2>11, <2>12, Zenon DEF Requests
<1>13. ASSUME received' = received PROVE Waiting'
  BY <1>5, <1>13, SameWaiting, Zenon
<1>14. Active' = Active
  BY <1>5, Zenon DEF Active
<1>15. CASE p \in registered \ closed
  <2>1. StartSend(t, x)
    BY <1>1, <1>2, <1>4, <1>15, Zenon DEF gracht_server_respond
  <2>2. Open(c)
    BY <1>8, <1>15, Zenon DEF Open
  <2>3. \A u \in Thread : ~SendsOn(u, c)
    BY <1>1, <1>2, <1>3, <1>5, <1>7, <2>2, RespondsAlone, Zenon
  <2>4. Puts(t, c) /\ sent' = [sent EXCEPT ![c] = Append(@, x)]
    BY <1>5, <1>6, <1>8, <2>1, <2>2, <2>3, StartPuts, Zenon
  <2>5. t \notin Caller
    BY SocketLinkAssumption, Zenon DEF Server
  <2>6. (\A d \in Channel : Framing(d)') /\ Sends' /\ Complete'
    <3>1. \A d \in Channel : ~SendsOn(t, d)
      BY <1>9, Zenon DEF SendsOn
    <3>2. QED
      BY <1>6, <1>8, <2>2, <2>3, <2>4, <2>5, <3>1, PutsKeeps, Zenon
  <2>7. received' = received
    BY <2>4, Zenon DEF Puts
  <2>8. Typed'
    <3>1. \A d \in Channel : \A k \in DOMAIN sent'[d] : ChannelOf(sent'[d][k]) = d
      BY <2>4, Zenon DEF Puts, LinkInv, Typed
    <3>2. QED
      BY <1>5, <1>10, <2>4, <2>7, <3>1, Zenon DEF Puts, LinkInv, Typed
  <2>9. Handlers'
    BY <1>9, <1>10, <1>14, <2>4, Zenon DEF Handlers, Puts, Thread
  <2>10. Requests' /\ Waiting'
    BY <1>12, <1>13, <2>2, <2>4, <2>7, Zenon
  <2>11. Promises
    BY <1>5, <1>8, <2>2, <2>4, <2>7, Zenon DEF Promises, SendsOne
  <2>12. QED
    BY <2>6, <2>8, <2>9, <2>10, <2>11, Zenon
<1>16. CASE p \notin registered \ closed
  <2>1. UNCHANGED <<wire, sending, reading, sent, received>>
    BY <1>1, <1>2, <1>16, Zenon DEF gracht_server_respond, sockVars
  <2>2. Drops
    BY <1>5, <2>1, CallerSends, Zenon DEF Drops, LinkInv, Typed, Open
  <2>3. (\A d \in Channel : Framing(d)') /\ Sends' /\ Complete'
    BY <2>2, DropsKeeps, Zenon
  <2>4. Typed'
    BY <1>5, <1>10, <2>1, Zenon DEF LinkInv, Typed
  <2>5. Handlers'
    BY <1>9, <1>10, <1>14, <2>1, Zenon DEF Handlers
  <2>6. Requests' /\ Waiting'
    BY <1>12, <1>13, <2>1, Zenon
  <2>7. Promises
    BY <1>5, <2>1, Zenon DEF Promises, MayClose
  <2>8. QED
    BY <2>3, <2>4, <2>5, <2>6, <2>7, Zenon
<1>17. QED
  BY <1>15, <1>16, Zenon

----------------------------------------------------------------------------
(* Steps                                                                   *)

\* The main thread goes to another place in its loop.
LEMMA LoopSteps ==
    ASSUME LinkInv, \/ gracht_io_wait
                    \/ \E p \in Peer : handle_connection(p) \/ client_destroy(p) \/ handle_client_event(p)
    PROVE  Loop'
<1>1. Loop
  BY Zenon DEF LinkInv
<1>2. CASE gracht_io_wait
  <2> DEFINE ready == {Event(p) : p \in {q \in registered : wire[Up(q)] # <<>> \/ q \in closed}}
                      \cup (IF backlog # {} THEN {Listen} ELSE {})
  <2>1. /\ main.at = "events" /\ main' = [main EXCEPT !.batch = ready]
        /\ UNCHANGED <<closed, registered, backlog>>
    BY <1>2, Zenon DEF gracht_io_wait, clientVars
  <2>2. \A e \in ready : e \in Notice /\ (e.gone => e.peer \in closed)
    <3>1. \A q \in registered : Event(q) \in Notice /\ (Event(q).gone => Event(q).peer \in closed)
      <4> SUFFICES ASSUME NEW q \in registered
                   PROVE  Event(q) \in Notice /\ (Event(q).gone => Event(q).peer \in closed)
        BY Zenon
      <4>1. q \in Peer
        BY <1>1, Zenon DEF Loop
      <4>2. CASE q \in closed
        <5>1. Event(q) = [peer |-> q, gone |-> TRUE]
          BY <4>2, Zenon DEF Event
        <5>2. QED
          BY <4>1, <4>2, <5>1 DEF Notice
      <4>3. CASE q \notin closed
        <5>1. (q \in closed) = FALSE
          BY <4>3
        <5>2. Event(q) = [peer |-> q, gone |-> FALSE]
          BY <5>1, Zenon DEF Event
        <5>3. QED
          BY <4>1, <5>2 DEF Notice
      <4>4. QED
        BY <4>2, <4>3, Zenon
    <3>2. Listen \in Notice /\ ~Listen.gone
      BY Zenon DEF Listen, Notice
    <3>3. QED
      BY <3>1, <3>2, Zenon
  <2> HIDE DEF ready
  <2>3. main \in [at : {"events"}, batch : SUBSET Notice]
    BY <1>1, <2>1, Zenon DEF Loop
  <2>4. main' \in [at : {"events"}, batch : SUBSET Notice] /\ main'.batch = ready
    BY <2>1, <2>2, <2>3, Zenon
  <2>5. QED
    BY <1>1, <2>1, <2>2, <2>4, Zenon DEF Loop
<1>3. ASSUME NEW p \in Peer, handle_connection(p) PROVE Loop'
  <2>1. /\ main.at = "events" /\ main' = [main EXCEPT !.batch = @ \ {Listen}]
        /\ backlog' = backlog \ {p} /\ registered' = registered \cup {p} /\ closed' = closed
    BY <1>3, Zenon DEF handle_connection, clientVars
  <2>2. main \in [at : {"events"}, batch : SUBSET Notice]
    BY <1>1, <2>1, Zenon DEF Loop
  <2>3. main' \in [at : {"events"}, batch : SUBSET Notice] /\ main'.batch \subseteq main.batch
    BY <2>1, <2>2, Zenon
  <2>4. QED
    BY <1>1, <2>1, <2>3, Zenon DEF Loop
<1>4. ASSUME NEW p \in Peer, client_destroy(p) PROVE Loop'
  <2>1. /\ main.at = "events" /\ main' = [main EXCEPT !.batch = @ \ {[peer |-> p, gone |-> TRUE]}]
        /\ registered' = registered \ {p} /\ UNCHANGED <<backlog, closed>>
    BY <1>4, Zenon DEF client_destroy, clientVars
  <2>2. main \in [at : {"events"}, batch : SUBSET Notice]
    BY <1>1, <2>1, Zenon DEF Loop
  <2>3. main' \in [at : {"events"}, batch : SUBSET Notice] /\ main'.batch \subseteq main.batch
    BY <2>1, <2>2, Zenon
  <2>4. QED
    BY <1>1, <2>1, <2>3, Zenon DEF Loop
<1>5. ASSUME NEW p \in Peer, handle_client_event(p) PROVE Loop'
  <2>1. /\ main.at = "events" /\ UNCHANGED <<registered, backlog, closed>>
        /\ main' = [at |-> "read", peer |-> p, batch |-> main.batch \ {[peer |-> p, gone |-> FALSE]}]
    BY <1>5, Zenon DEF handle_client_event, clientVars
  <2>2. main \in [at : {"events"}, batch : SUBSET Notice]
    BY <1>1, <2>1, Zenon DEF Loop
  <2>3. /\ main' \in [at : {"read"}, peer : Peer, batch : SUBSET Notice]
        /\ main'.batch \subseteq main.batch
    BY <2>1, <2>2, Zenon
  <2>4. QED
    BY <1>1, <2>1, <2>3, Zenon DEF Loop
<1>6. QED
  BY <1>2, <1>3, <1>4, <1>5, Zenon

\* The end of the loop that reads messages.
LEMMA LoopEnds ==
    ASSUME LinkInv, main' = [at |-> "events", batch |-> main.batch],
           UNCHANGED <<closed, registered, backlog>>
    PROVE  Loop'
<1>1. Loop /\ main.batch \subseteq Notice
  BY Zenon DEF LinkInv, Loop
<1>2. main' \in [at : {"events"}, batch : SUBSET Notice] /\ main'.batch = main.batch
  BY <1>1, Zenon
<1>3. QED
  BY <1>1, <1>2, Zenon DEF Loop

\* The rest leaves it where it is.
LEMMA LoopStays ==
    ASSUME LinkInv, UNCHANGED <<main, registered, backlog>>, closed \subseteq closed'
    PROVE  Loop'
BY Zenon DEF LinkInv, Loop

\* Steps that move no message and no request.
LEMMA StillKeeps ==
    ASSUME LinkInv, Drops, UNCHANGED <<calls, job, jobs, events>>, closed' \subseteq Peer,
           \A t \in Server : sending'[t] = sending[t] \/ sending'[t] = <<>>
    PROVE  /\ (\A d \in Channel : Framing(d)') /\ Sends' /\ Complete'
           /\ Typed' /\ Requests' /\ Waiting' /\ Handlers' /\ Promises
<1>1. UNCHANGED <<scenario, sent, received, reading>> /\ closed \subseteq closed'
  BY Zenon DEF Drops
<1>2. (\A d \in Channel : Framing(d)') /\ Sends' /\ Complete'
  BY DropsKeeps, Zenon
<1>3. Typed'
  BY <1>1, Zenon DEF LinkInv, Typed, Drops
<1>4. Requests'
  BY <1>1, SameRequests, Zenon
<1>5. Waiting'
  BY <1>1, SameWaiting, Zenon
<1>6. Handlers'
  <2>1. Active' = Active
    BY <1>1, Zenon DEF Active
  <2>2. QED
    BY <2>1, Zenon DEF LinkInv, Handlers
<1>7. Promises
  BY <1>1, Zenon DEF Promises, MayClose
<1>8. QED
  BY <1>2, <1>3, <1>4, <1>5, <1>6, <1>7, Zenon

\* Nothing of the sockets changes.
LEMMA QuietDrops ==
    ASSUME LinkInv, UNCHANGED <<scenario, wire, sending, reading, sent, received, closed>>
    PROVE  Drops /\ closed' \subseteq Peer
BY CallerSends, Zenon DEF LinkInv, Typed, Drops, Open

\* A reader takes cells.
LEMMA ReadKeeps ==
    ASSUME LinkInv, NEW c \in Channel, Takes(c), UNCHANGED <<received, calls, job, jobs, events>>
    PROVE  /\ (\A d \in Channel : Framing(d)') /\ Sends' /\ Complete'
           /\ Typed' /\ Requests' /\ Waiting' /\ Handlers' /\ Promises
<1>1. UNCHANGED <<scenario, sending, sent, closed>>
  BY Zenon DEF Takes
<1>2. (\A d \in Channel : Framing(d)') /\ Sends' /\ Complete'
  BY TakesKeeps, Zenon
<1>3. Typed'
  BY <1>1, Zenon DEF LinkInv, Typed, Takes
<1>4. Requests'
  BY <1>1, SameRequests, Zenon
<1>5. Waiting'
  BY <1>1, SameWaiting, Zenon
<1>6. Handlers'
  <2>1. Active' = Active
    BY <1>1, Zenon DEF Active
  <2>2. QED
    BY <1>1, <2>1, Zenon DEF LinkInv, Handlers
<1>7. Promises
  BY <1>1, Zenon DEF Promises, MayClose
<1>8. QED
  BY <1>2, <1>3, <1>4, <1>5, <1>6, <1>7, Zenon

\* A send goes on.
LEMMA ContinueKeeps ==
    ASSUME LinkInv, NEW t \in Thread, ContinueSend(t)
    PROVE  /\ (\A d \in Channel : Framing(d)') /\ Sends' /\ Complete'
           /\ Typed' /\ Requests' /\ Waiting' /\ Handlers' /\ Promises
<1>1. PICK c \in Channel : Puts(t, c) /\ Open(c) /\ SendsOn(t, c) /\ UNCHANGED sent
  BY ContinuePuts, Zenon
<1>2. UNCHANGED <<scenario, reading, sent, received, calls, closed, job, jobs, events>>
  BY Zenon DEF ContinueSend, clientVars, serverVars
<1>3. \A u \in Thread : SendsOn(u, c) => u = t
  BY <1>1, Zenon DEF LinkInv, Sends
<1>4. \A d \in Channel : SendsOn(t, d) => d = c
  BY <1>1, Zenon DEF SendsOn
<1>5. t \in Caller => c = Up(scenario.conn[t])
  BY <1>1, Zenon DEF LinkInv, Sends
<1>6. t \in Server => c[2] = "response"
  BY <1>1, Zenon DEF LinkInv, Sends
<1>7. (\A d \in Channel : Framing(d)') /\ Sends' /\ Complete'
  BY <1>1, <1>3, <1>4, <1>5, <1>6, PutsKeeps, Zenon
<1>8. Typed'
  BY <1>1, <1>2, Zenon DEF LinkInv, Typed, Puts
<1>9. Requests'
  BY <1>2, SameRequests, Zenon
<1>10. Waiting'
  BY <1>2, SameWaiting, Zenon
<1>11. Handlers'
  <2>1. Active' = Active /\ \A u \in Thread \ {t} : sending'[u] = sending[u]
    BY <1>1, <1>2, Zenon DEF Active, Puts
  <2>2. sending[t] # <<>>
    BY <1>1, Zenon DEF SendsOn
  <2>3. QED
    BY <1>2, <2>1, <2>2, Zenon DEF LinkInv, Handlers, Thread
<1>12. Promises
  BY <1>2, Zenon DEF Promises, MayClose
<1>13. QED
  BY <1>7, <1>8, <1>9, <1>10, <1>11, <1>12, Zenon

----------------------------------------------------------------------------
(* The steps, and the theorems                                             *)

\* The invariant holds of a system that starts.
LEMMA LinkInit ==
    ASSUME Init
    PROVE  LinkInv
<1>1. /\ scenario \in Scenario /\ calls = <<>> /\ closed = {} /\ backlog = Peer /\ registered = {}
      /\ main = [at |-> "events", batch |-> {}] /\ jobs = {} /\ events = 0
      /\ job = [t \in Server |-> None] /\ wire = [c \in Channel |-> <<>>]
      /\ sending = [t \in Thread |-> <<>>] /\ reading = [c \in Channel |-> AtHeader]
      /\ sent = [c \in Channel |-> <<>>] /\ received = [c \in Channel |-> <<>>]
  BY Zenon DEF Init
<1>2. <<>> \in Seq(Cell) /\ <<>> \in Seq(Message) /\ <<>> \in Seq(Caller) /\ Len(<<>>) = 0 /\ DOMAIN <<>> = {}
  BY EmptySeq
<1>3. AtHeader \in [at : {"header", "payload"}, message : Message \cup {None}, got : Nat]
  BY Zenon DEF AtHeader
<1>4. Typed
  <2>1. scenario.calls \in Nat /\ Len(calls) =< scenario.calls
    BY <1>1, <1>2, SocketLinkAssumption
  <2>2. QED
    BY <1>1, <1>2, <1>3, <2>1, Zenon DEF Typed
<1>5. Loop
  BY <1>1, Zenon DEF Loop
<1>6. \A t \in Thread, c \in Channel : ~SendsOn(t, c)
  BY <1>1, Zenon DEF SendsOn
<1>7. ASSUME NEW c \in Channel
      PROVE  Framing(c) /\ Place(c) + Len(wire[c]) = Span(Len(sent[c]), Size(c))
  <2>1. /\ wire[c] = <<>> /\ sent[c] = <<>> /\ received[c] = <<>> /\ reading[c].at = "header"
        /\ reading[c].got = 0
    BY <1>1, Zenon DEF AtHeader
  <2>2. Size(c) \in Nat /\ scenario.room \in Nat
    BY <1>4, Basics, Zenon
  <2>3. Span(0, Size(c)) = 0
    BY <2>2 DEF Span
  <2>4. Place(c) = 0
    BY <1>2, <2>1, <2>3 DEF Place
  <2>5. QED
    BY <1>2, <2>1, <2>2, <2>3, <2>4 DEF Framing, Holds
<1>8. Sends
  BY <1>6, Zenon DEF Sends, Thread
<1>9. Complete
  BY <1>7, Zenon DEF Complete
<1>10. Handlers
  BY <1>1, Zenon DEF Handlers, Thread
<1>11. Requests
  BY <1>1, <1>2, Channels, Zenon DEF Requests
<1>12. Waiting
  BY <1>1, <1>2, Zenon DEF Waiting
<1>13. QED
  BY <1>4, <1>5, <1>7, <1>8, <1>9, <1>10, <1>11, <1>12, Zenon DEF LinkInv

\* The reads of the main thread.
LEMMA ReadsStep ==
    ASSUME LinkInv, ReadMessages
    PROVE  LinkInv' /\ Promises
<1>1. /\ MainRuns /\ main.at = "read"
      /\ UNCHANGED <<scenario, calls, closed, backlog, registered, events>>
  BY Zenon DEF ReadMessages, clientVars
<1>2. PICK p \in Peer : main.peer = p
  BY <1>1, Zenon DEF LinkInv, Loop
<1>3. Up(p) \in Channel
  BY Channels, Zenon
<1>4. CASE ReadsNothing
  <2>1. /\ UNCHANGED <<wire, sending, reading, sent, received, job, jobs>>
        /\ main' = [at |-> "events", batch |-> main.batch]
    BY <1>4, Zenon DEF ReadsNothing, sockVars
  <2>2. Loop'
    BY <1>1, <2>1, LoopEnds, Zenon
  <2>3. Drops /\ closed' \subseteq Peer
    BY <1>1, <2>1, QuietDrops, Zenon
  <2>4. QED
    BY <1>1, <2>1, <2>2, <2>3, StillKeeps, Zenon DEF LinkInv
<1>5. CASE (recv_header(Up(main.peer)) \/ recv_payload(Up(main.peer))) /\ UNCHANGED <<main, job, jobs>>
  <2>1. Takes(Up(p)) /\ UNCHANGED received
    BY <1>1, <1>2, <1>3, <1>5, TakesHeader, TakesPayload, Zenon
  <2>2. Loop'
    BY <1>1, <1>5, LoopStays, Zenon
  <2>3. QED
    BY <1>1, <1>3, <1>5, <2>1, <2>2, ReadKeeps, Zenon DEF LinkInv
<1>6. CASE ReadCutShort
  <2>1. Takes(Up(p)) /\ UNCHANGED <<received, job, jobs>> /\ main' = [at |-> "events", batch |-> main.batch]
    BY <1>1, <1>2, <1>6, CutShortTakes, Zenon DEF ReadCutShort
  <2>2. Loop'
    BY <1>1, <2>1, LoopEnds, Zenon
  <2>3. QED
    BY <1>1, <1>3, <2>1, <2>2, ReadKeeps, Zenon DEF LinkInv
<1>7. CASE dispatch
  <2>1. recv_returns(Up(p)) /\ main' = main
    BY <1>2, <1>7, Zenon DEF dispatch
  <2>2. /\ Takes(Up(p)) /\ Len(received[Up(p)]) < Len(sent[Up(p)])
        /\ received' = [received EXCEPT ![Up(p)] = Append(@, sent[Up(p)][Len(received[Up(p)]) + 1])]
    BY <1>1, <1>3, <2>1, TakesMessage, Zenon
  <2>3. (\A d \in Channel : Framing(d)') /\ Sends' /\ Complete'
    BY <1>3, <2>2, TakesKeeps, Zenon
  <2>4. Typed' /\ Requests' /\ Waiting' /\ Handlers'
    BY <1>1, <1>2, <1>7, DispatchKeeps, Zenon
  <2>5. Loop'
    BY <1>1, <2>1, LoopStays, Zenon
  <2>6. sent' = sent
    BY <2>2, Zenon DEF Takes
  <2>7. Promises
    BY <1>1, <1>3, <2>2, <2>6, Zenon DEF Promises, DeliversOne
  <2>8. QED
    BY <2>3, <2>4, <2>5, <2>7, Zenon DEF LinkInv
<1>8. QED
  BY <1>4, <1>5, <1>6, <1>7, Zenon DEF ReadMessages

\* The read of a client.
LEMMA ClientReads ==
    ASSUME LinkInv, NEW p \in Peer, gracht_client_wait_message(p)
    PROVE  LinkInv' /\ Promises
<1>1. UNCHANGED <<scenario, calls, closed, backlog, registered, main, job, jobs, events>>
  BY Zenon DEF gracht_client_wait_message, clientVars, serverVars
<1>2. Loop'
  BY <1>1, LoopStays, Zenon
<1>3. Down(p) \in Channel
  BY Channels, Zenon
<1>4. CASE recv_header(Down(p)) \/ recv_payload(Down(p))
  <2>1. Takes(Down(p)) /\ UNCHANGED received
    BY <1>1, <1>3, <1>4, TakesHeader, TakesPayload, Zenon
  <2>2. QED
    BY <1>1, <1>2, <1>3, <2>1, ReadKeeps, Zenon DEF LinkInv
<1>5. CASE recv_returns(Down(p))
  <2>1. PICK c : c = Down(p)
    BY Zenon
  <2>2. /\ Takes(c) /\ Len(received[c]) < Len(sent[c])
        /\ received' = [received EXCEPT ![c] = Append(@, sent[c][Len(received[c]) + 1])]
    BY <1>1, <1>3, <1>5, <2>1, TakesMessage, Zenon
  <2>3. (\A d \in Channel : Framing(d)') /\ Sends' /\ Complete'
    BY <1>3, <2>1, <2>2, TakesKeeps, Zenon
  <2>4. UNCHANGED <<scenario, sending, sent, closed>>
    BY <2>2, Zenon DEF Takes
  <2>5. Promises
    BY <1>3, <2>1, <2>2, <2>4, Zenon DEF Promises, DeliversOne
  <2>6. received \in [Channel -> Seq(Message)] /\ received[c] \in Seq(Message)
    BY <1>3, <2>1, Zenon DEF LinkInv, Typed
  <2>7. /\ \A d \in Channel \ {c} : received'[d] = received[d]
        /\ received'[c] = Append(received[c], sent[c][Len(received[c]) + 1])
    BY <1>3, <2>1, <2>2, <2>6, Zenon
  <2>8. \A k \in DOMAIN received[c] : k \in DOMAIN received'[c] /\ received'[c][k] = received[c][k]
    <3>1. PICK x : x = sent[c][Len(received[c]) + 1]
      BY Zenon
    <3>2. x \in Message
      <4>1. sent[c] \in Seq(Message) /\ Len(received[c]) \in Nat
        BY <1>3, <2>1, <2>6 DEF LinkInv, Typed
      <4>2. QED
        BY <2>2, <3>1, <4>1
    <3>3. received'[c] = Append(received[c], x)
      BY <2>7, <3>1, Zenon
    <3>4. QED
      BY <2>6, <3>2, <3>3
  <2>9. \A q \in Peer : Up(q) \in Channel \ {c} /\ Down(q) \in Channel
    BY <2>1, Zenon DEF Up, Down, Channel
  <2>10. Requests'
    BY <1>1, <2>4, <2>7, <2>9, SameRequests, Zenon
  <2>11. Waiting'
    <3>1. \A q \in Peer : \A k \in DOMAIN received[Down(q)] :
             k \in DOMAIN received'[Down(q)] /\ received'[Down(q)][k] = received[Down(q)][k]
      BY <2>7, <2>8, <2>9, Zenon
    <3>2. QED
      BY <1>1, <3>1, SameWaiting, Zenon
  <2>12. Typed'
    BY <1>1, <2>2, <2>4, Zenon DEF LinkInv, Typed, Takes
  <2>13. Handlers'
    <3>1. Active' = Active
      BY <1>1, Zenon DEF Active
    <3>2. QED
      BY <1>1, <2>4, <3>1, Zenon DEF LinkInv, Handlers
  <2>14. QED
    BY <1>2, <2>3, <2>5, <2>10, <2>11, <2>12, <2>13, Zenon DEF LinkInv
<1>6. QED
  BY <1>4, <1>5, Zenon DEF gracht_client_wait_message

\* gracht_client_invoke: the call is new, and the only one of a caller that waits.
LEMMA InvokeKeeps ==
    ASSUME LinkInv, Serial(scenario), NEW t \in Caller, gracht_client_invoke(t)
    PROVE  /\ (\A d \in Channel : Framing(d)') /\ Sends' /\ Complete'
           /\ Typed' /\ Requests' /\ Waiting' /\ Handlers'
           /\ Promises
<1>1. PICK p : p = scenario.conn[t]
  BY Zenon
<1>2. PICK c : c = Up(p)
  BY Zenon
<1>3. PICK n : n = Len(calls) + 1
  BY Zenon
<1>4. PICK m : m = [peer |-> p, dir |-> "request", id |-> n]
  BY Zenon
<1>5. /\ scenario.conn \in [Caller -> Peer] /\ scenario.calls \in 0 .. MaxCalls /\ MaxCalls \in Nat
      /\ calls \in Seq(Caller) /\ t \in Thread /\ Requests /\ Waiting
      /\ sent \in [Channel -> Seq(Message)] /\ received \in [Channel -> Seq(Message)]
  BY SocketLinkAssumption, Zenon DEF LinkInv, Typed, Thread
<1>6. /\ p \notin closed /\ sending[t] = <<>> /\ Len(calls) < scenario.calls
      /\ (scenario.ahead \/ Outstanding(t) = {}) /\ calls' = Append(calls, t)
      /\ UNCHANGED <<scenario, closed, job, jobs, events>>
  BY <1>1, Zenon DEF gracht_client_invoke, serverVars
<1>7. Len(calls) \in Nat /\ n \in Nat /\ n =< scenario.calls /\ n \in 0 .. MaxCalls
  BY <1>3, <1>5, <1>6
<1>8. /\ calls' \in Seq(Caller) /\ Len(calls') = n /\ DOMAIN calls = 1 .. Len(calls)
      /\ DOMAIN calls' = DOMAIN calls \cup {n} /\ n \notin DOMAIN calls
      /\ calls'[n] = t /\ \A i \in DOMAIN calls : calls'[i] = calls[i]
  BY <1>3, <1>5, <1>6, <1>7
<1>9. StartSend(t, m)
  BY <1>1, <1>4, <1>8, Zenon DEF gracht_client_invoke
<1>10. /\ p \in Peer /\ c \in Channel /\ m \in Message /\ c = ChannelOf(m) /\ m.id = n
       /\ Open(c) /\ c = Up(scenario.conn[t])
  BY <1>1, <1>2, <1>4, <1>5, <1>6, <1>7, Channels, Zenon DEF Message, ChannelOf, Up, Open
<1>11. \A u \in Thread : ~SendsOn(u, c)
  BY <1>10, InvokesAlone, Zenon
<1>12. Puts(t, c) /\ sent' = [sent EXCEPT ![c] = Append(@, m)]
  BY <1>5, <1>6, <1>9, <1>10, <1>11, StartPuts, Zenon
<1>13. t \notin Server
  BY SocketLinkAssumption, Zenon DEF Server
<1>14. (\A d \in Channel : Framing(d)') /\ Sends' /\ Complete'
  <2>1. \A d \in Channel : ~SendsOn(t, d)
    BY <1>6, Zenon DEF SendsOn
  <2>2. QED
    BY <1>5, <1>10, <1>11, <1>12, <1>13, <2>1, PutsKeeps, Zenon
<1>15. received' = received
  BY <1>12, Zenon DEF Puts
<1>16. Typed'
  <2>1. \A d \in Channel : \A k \in DOMAIN sent'[d] : ChannelOf(sent'[d][k]) = d
    BY <1>12, Zenon DEF Puts, LinkInv, Typed
  <2>2. QED
    BY <1>6, <1>7, <1>8, <1>12, <1>15, <2>1, Zenon DEF Puts, LinkInv, Typed
<1>17. Handlers'
  <2>1. Active' = Active /\ \A u \in Server : sending'[u] = sending[u]
    BY <1>6, <1>12, <1>13, Zenon DEF Active, Puts, Thread
  <2>2. QED
    BY <1>6, <2>1, Zenon DEF LinkInv, Handlers
<1>18. Requests'
  <2>1. /\ \A d \in Channel \ {c} : sent'[d] = sent[d]
        /\ sent'[c] = Append(sent[c], m)
    BY <1>5, <1>10, <1>12, Zenon
  <2>2. \A k \in DOMAIN sent'[c] :
           \/ k \in DOMAIN sent[c] /\ sent'[c][k] = sent[c][k]
           \/ k = Len(sent[c]) + 1 /\ sent'[c][k] = m
    <3>1. sent[c] \in Seq(Message)
      BY <1>5, <1>10, Zenon
    <3>2. /\ DOMAIN sent'[c] = 1 .. Len(sent[c]) + 1 /\ DOMAIN sent[c] = 1 .. Len(sent[c])
          /\ Len(sent[c]) \in Nat /\ \A k \in 1 .. Len(sent[c]) : sent'[c][k] = sent[c][k]
          /\ sent'[c][Len(sent[c]) + 1] = m
      BY <1>10, <2>1, <3>1
    <3>3. QED
      BY <3>2, SMTT(30)
  <2>3. \A q \in Peer : sent'[Down(q)] = sent[Down(q)] /\ (q # p => sent'[Up(q)] = sent[Up(q)])
    <3> SUFFICES ASSUME NEW q \in Peer
                 PROVE  sent'[Down(q)] = sent[Down(q)] /\ (q # p => sent'[Up(q)] = sent[Up(q)])
      BY Zenon
    <3>1. Down(q) \in Channel \ {c} /\ Up(q) \in Channel /\ (q # p => Up(q) # c)
      BY <1>2, Zenon DEF Up, Down, Channel
    <3>2. QED
      BY <2>1, <3>1, Zenon
  <2>4. ASSUME NEW x \in Message, Held(x) PROVE Held(x)'
    <3>1. x.peer \in Peer
      BY Zenon DEF Message
    <3>2. QED
      BY <1>15, <2>3, <2>4, <3>1, Zenon DEF Held
  <2>5. \A q \in Peer : \A k \in DOMAIN sent'[Up(q)] :
          sent'[Up(q)][k].id \in DOMAIN calls' /\ scenario'.conn[calls'[sent'[Up(q)][k].id]] = q
    <3> SUFFICES ASSUME NEW q \in Peer, NEW k \in DOMAIN sent'[Up(q)]
                 PROVE  sent'[Up(q)][k].id \in DOMAIN calls' /\ scenario.conn[calls'[sent'[Up(q)][k].id]] = q
      BY <1>6, Zenon
    <3>1. \A h \in DOMAIN sent[Up(q)] :
             sent[Up(q)][h].id \in DOMAIN calls /\ scenario.conn[calls[sent[Up(q)][h].id]] = q
      BY <1>5, Zenon DEF Requests
    <3>2. CASE k \in DOMAIN sent[Up(q)] /\ sent'[Up(q)][k] = sent[Up(q)][k]
      BY <1>8, <3>1, <3>2, Zenon
    <3>3. CASE q = p /\ sent'[Up(q)][k] = m
      BY <1>1, <1>8, <1>10, <3>3, Zenon
    <3>4. QED
      BY <1>2, <2>2, <2>3, <3>2, <3>3, Zenon
  <2>6. \A q \in Peer : \A j, k \in DOMAIN sent'[Up(q)] : sent'[Up(q)][j].id = sent'[Up(q)][k].id => j = k
    <3> SUFFICES ASSUME NEW q \in Peer, NEW j \in DOMAIN sent'[Up(q)], NEW k \in DOMAIN sent'[Up(q)],
                        sent'[Up(q)][j].id = sent'[Up(q)][k].id
                 PROVE  j = k
      BY Zenon
    <3>1. \A g, h \in DOMAIN sent[Up(q)] : sent[Up(q)][g].id = sent[Up(q)][h].id => g = h
      BY <1>5, Zenon DEF Requests
    <3>2. CASE q # p
      BY <2>3, <3>1, <3>2, Zenon
    <3>3. CASE q = p
      <4>1. \A h \in DOMAIN sent[c] : sent[c][h].id # n
        <5>1. \A h \in DOMAIN sent[Up(p)] : sent[Up(p)][h].id \in DOMAIN calls
          BY <1>5, <1>10, Zenon DEF Requests
        <5>2. QED
          BY <1>2, <1>8, <5>1, Zenon
      <4>2. /\ j \in DOMAIN sent'[c] /\ k \in DOMAIN sent'[c] /\ sent'[c][j].id = sent'[c][k].id
            /\ \A g, h \in DOMAIN sent[c] : sent[c][g].id = sent[c][h].id => g = h
        BY <1>2, <3>1, <3>3, Zenon
      <4>3. QED
        BY <1>10, <2>2, <4>1, <4>2, Zenon
    <3>4. QED
      BY <3>2, <3>3, Zenon
  <2>7. \A x \in jobs' : Held(x)' /\ \A u \in Server : job'[u] # x
    BY <1>5, <1>6, <2>4, Zenon DEF Requests, LinkInv, Typed
  <2>8. ASSUME NEW u \in Server, job'[u] # None PROVE Held(job[u])'
    <3>1. PICK x : x = job[u]
      BY Zenon
    <3>2. x \in Message /\ Held(x) /\ x = job'[u]
      BY <1>5, <1>6, <2>8, <3>1, ZenonT(60) DEF Requests, LinkInv, Typed
    <3>3. Held(x)'
      BY <2>4, <3>2, Zenon
    <3>4. QED
      BY <3>2, <3>3, Zenon
  <2>9. (\A u, v \in Server : job[u] # None /\ job[u] = job[v] => u = v)'
    BY <1>5, <1>6, Zenon DEF Requests
  <2>10. (\A q \in Peer : \A k \in DOMAIN sent[Down(q)] :
             \E j \in DOMAIN received[Up(q)] : received[Up(q)][j].id = sent[Down(q)][k].id)'
    <3>1. \A q \in Peer : \A k \in DOMAIN sent[Down(q)] :
             \E j \in DOMAIN received[Up(q)] : received[Up(q)][j].id = sent[Down(q)][k].id
      BY <1>5, Zenon DEF Requests
    <3>2. QED
      BY <1>15, <2>3, <3>1
  <2>11. (\A q \in Peer : \A j, k \in DOMAIN sent[Down(q)] :
             sent[Down(q)][j].id = sent[Down(q)][k].id => j = k)'
    <3>1. \A q \in Peer : \A j, k \in DOMAIN sent[Down(q)] :
             sent[Down(q)][j].id = sent[Down(q)][k].id => j = k
      BY <1>5, Zenon DEF Requests
    <3>2. QED
      BY <2>3, <3>1, Zenon
  <2>12. QED
    BY <2>5, <2>6, <2>7, <2>8, <2>9, <2>10, <2>11, Zenon DEF Requests
<1>19. Waiting'
  <2> SUFFICES ASSUME ~scenario.ahead, NEW i \in DOMAIN calls', NEW j \in DOMAIN calls',
                      calls'[i] = calls'[j], ~Answered(i)', ~Answered(j)'
               PROVE  i = j
    BY <1>6, Zenon DEF Waiting
  <2>1. \A k \in DOMAIN calls : Answered(k)' = Answered(k)
    BY <1>6, <1>8, <1>15, Zenon DEF Answered
  <2>2. Outstanding(t) = {}
    BY <1>6
  <2>3. \A k \in DOMAIN calls : calls[k] = t => Answered(k)
    BY <2>2, Zenon DEF Outstanding
  <2>4. CASE i \in DOMAIN calls /\ j \in DOMAIN calls
    BY <1>5, <1>8, <2>1, <2>4, Zenon DEF Waiting
  <2>5. CASE i = n /\ j \in DOMAIN calls
    BY <1>8, <2>1, <2>3, <2>5, Zenon
  <2>6. CASE j = n /\ i \in DOMAIN calls
    BY <1>8, <2>1, <2>3, <2>6, Zenon
  <2>7. QED
    BY <1>8, <2>4, <2>5, <2>6, Zenon
<1>20. Promises
  BY <1>6, <1>10, <1>12, <1>15, Zenon DEF Promises, SendsOne
<1>21. QED
  BY <1>14, <1>16, <1>17, <1>18, <1>19, <1>20, Zenon

\* Every step keeps the invariant and what is promised of the channels.
LEMMA LinkStep ==
    ASSUME LinkInv, Serial(scenario), Next
    PROVE  LinkInv' /\ Promises
<1>1. CASE gracht_io_wait
  <2>1. UNCHANGED <<scenario, wire, sending, reading, sent, received, calls, closed, job, jobs, events>>
    BY <1>1, Zenon DEF gracht_io_wait, sockVars, clientVars
  <2>2. QED
    BY <1>1, <2>1, LoopSteps, QuietDrops, StillKeeps, Zenon DEF LinkInv
<1>2. CASE ReadMessages
  BY <1>2, ReadsStep, Zenon
<1>3. ASSUME NEW t \in Server, HandlerThread(t) PROVE LinkInv' /\ Promises
  <2>1. UNCHANGED <<scenario, closed, main, registered, backlog>>
    BY <1>3, Zenon DEF HandlerThread, ContinueSend, SendFails, gracht_server_respond, clientVars, serverVars
  <2>2. Loop'
    BY <2>1, LoopStays, Zenon
  <2>3. CASE ContinueSend(t)
    BY <2>2, <2>3, ContinueKeeps, Zenon DEF LinkInv, Thread
  <2>4. CASE SendFails(t)
    <3>1. UNCHANGED <<calls, job, jobs, events>> /\ sending' = [sending EXCEPT ![t] = <<>>]
      BY <2>4, Zenon DEF SendFails, clientVars, serverVars
    <3>2. sending \in [Thread -> Seq(Cell)] /\ closed' \subseteq Peer
      BY <2>1, Zenon DEF LinkInv, Typed
    <3>3. \A u \in Server : sending'[u] = sending[u] \/ sending'[u] = <<>>
      BY <3>1, <3>2, Zenon DEF Thread
    <3>4. Drops
      BY <2>4, FailsDrops, Zenon
    <3>5. QED
      BY <2>2, <3>1, <3>2, <3>3, <3>4, StillKeeps, Zenon DEF LinkInv
  <2>5. CASE gracht_server_respond(t)
    BY <2>2, <2>5, RespondKeeps, Zenon DEF LinkInv
  <2>6. QED
    BY <1>3, <2>3, <2>4, <2>5, Zenon DEF HandlerThread
<1>4. ASSUME NEW p \in Peer, handle_connection(p) \/ client_destroy(p) \/ handle_client_event(p)
      PROVE  LinkInv' /\ Promises
  <2>1. Loop'
    BY <1>4, LoopSteps, Zenon
  <2>2. UNCHANGED <<scenario, sending, calls, closed, job, jobs, events>>
    BY <1>4, Zenon DEF handle_connection, client_destroy, handle_client_event, sockVars, clientVars
  <2>3. Drops /\ closed' \subseteq Peer
    <3>1. CASE client_destroy(p)
      BY <2>2, <3>1, DestroyDrops, Zenon DEF LinkInv, Typed
    <3>2. CASE handle_connection(p) \/ handle_client_event(p)
      BY <2>2, <3>2, QuietDrops, Zenon DEF handle_connection, handle_client_event, sockVars
    <3>3. QED
      BY <1>4, <3>1, <3>2, Zenon
  <2>4. QED
    BY <2>1, <2>2, <2>3, StillKeeps, Zenon DEF LinkInv
<1>5. ASSUME NEW w \in Worker, WorkerTakes(w) PROVE LinkInv' /\ Promises
  <2>1. UNCHANGED <<scenario, wire, sending, reading, sent, received, calls, closed, main, registered, backlog, events>>
    BY <1>5, Zenon DEF WorkerTakes, sockVars, clientVars
  <2>2. (\A d \in Channel : Framing(d)') /\ Sends' /\ Complete'
    BY <2>1, QuietDrops, DropsKeeps, Zenon
  <2>3. Typed' /\ Requests' /\ Handlers'
    BY <1>5, TakesRequest, Zenon
  <2>4. Waiting'
    BY <2>1, SameWaiting, Zenon
  <2>5. Loop'
    BY <2>1, LoopStays, Zenon
  <2>6. Promises
    BY <2>1, Zenon DEF Promises, MayClose
  <2>7. QED
    BY <2>2, <2>3, <2>4, <2>5, <2>6, Zenon DEF LinkInv
<1>6. ASSUME NEW c \in Caller, gracht_client_invoke(c) PROVE LinkInv' /\ Promises
  <2>1. UNCHANGED <<closed, main, registered, backlog>>
    BY <1>6, Zenon DEF gracht_client_invoke, serverVars
  <2>2. QED
    BY <1>6, <2>1, LoopStays, InvokeKeeps, Zenon DEF LinkInv
<1>7. ASSUME NEW c \in Caller, ContinueSend(c) PROVE LinkInv' /\ Promises
  <2>1. UNCHANGED <<closed, main, registered, backlog>>
    BY <1>7, Zenon DEF ContinueSend, clientVars, serverVars
  <2>2. QED
    BY <1>7, <2>1, LoopStays, ContinueKeeps, Zenon DEF LinkInv, Thread
<1>8. ASSUME NEW p \in Peer, gracht_client_wait_message(p) PROVE LinkInv' /\ Promises
  BY <1>8, ClientReads, Zenon
<1>9. ASSUME NEW p \in Peer, ClientGone(p) PROVE LinkInv' /\ Promises
  <2>1. /\ UNCHANGED <<calls, main, registered, backlog, job, jobs, events>> /\ closed' = closed \cup {p}
        /\ sending' = [t \in Thread |-> IF t \in CallersOf(p) THEN <<>> ELSE sending[t]]
    BY <1>9, Zenon DEF ClientGone, serverVars
  <2>2. closed' \subseteq Peer
    BY <2>1, Zenon DEF LinkInv, Typed
  <2>3. \A u \in Server : sending'[u] = sending[u] \/ sending'[u] = <<>>
    BY <2>1, Zenon DEF Thread
  <2>4. QED
    BY <1>9, <2>1, <2>2, <2>3, LoopStays, GoneDrops, StillKeeps, Zenon DEF LinkInv
<1>10. ASSUME NEW p \in Peer, gracht_server_send_event(p) PROVE FALSE
  <2>1. events < scenario.events /\ scenario.events = 0 /\ events \in Nat
    BY <1>10, Zenon DEF gracht_server_send_event, Serial, LinkInv, Typed
  <2>2. QED
    BY <2>1
<1>11. QED
  BY <1>1, <1>2, <1>3, <1>4, <1>5, <1>6, <1>7, <1>8, <1>9, <1>10, Zenon DEF Next, MainThread, Server

\* A step that changes nothing.
LEMMA LinkStutter ==
    ASSUME LinkInv, UNCHANGED vars
    PROVE  LinkInv' /\ MayClose
<1>1. /\ UNCHANGED <<scenario, wire, sending, reading, sent, received, calls, closed>>
      /\ UNCHANGED <<main, registered, backlog, job, jobs, events>>
  BY Zenon DEF vars, sockVars, clientVars, serverVars
<1>2. QED
  BY <1>1, LoopStays, QuietDrops, StillKeeps, Zenon DEF LinkInv, MayClose

----------------------------------------------------------------------------
(* The channels of whole messages                                          *)

\* What is sent and not received.
Suffix(s, r) == SubSeq(s, r + 1, Len(s))

\* Sending adds to its end.
LEMMA SuffixAppend ==
    ASSUME NEW M, NEW s \in Seq(M), NEW m \in M, NEW r \in Nat, r =< Len(s)
    PROVE  Suffix(Append(s, m), r) = Append(Suffix(s, r), m)
<1> DEFINE a == Suffix(Append(s, m), r)
           b == Append(Suffix(s, r), m)
           l == Len(s)
<1>1. l \in Nat /\ Append(s, m) \in Seq(M) /\ Len(Append(s, m)) = l + 1
  OBVIOUS
<1>2. /\ Suffix(s, r) \in Seq(M) /\ Len(Suffix(s, r)) = l - r
      /\ \A i \in 1 .. l - r : Suffix(s, r)[i] = s[r + i]
  BY <1>1, SubSeqProperties DEF Suffix
<1>3. /\ a \in Seq(M) /\ Len(a) = (l + 1) - r
      /\ \A i \in 1 .. (l + 1) - r : a[i] = Append(s, m)[r + i]
  BY <1>1, SubSeqProperties DEF Suffix
<1>4. PICK n \in Nat : n = l - r
  BY <1>1
<1>5. /\ b \in Seq(M) /\ Len(b) = n + 1 /\ b[n + 1] = m
      /\ \A i \in 1 .. n : b[i] = Suffix(s, r)[i]
  BY <1>2, <1>4
<1>6. Append(s, m)[l + 1] = m /\ \A k \in 1 .. l : Append(s, m)[k] = s[k]
  OBVIOUS
<1>7. l = r + n /\ (l + 1) - r = n + 1
  BY <1>1, <1>4
<1> HIDE DEF a, b, l
<1>8. Len(a) = n + 1 /\ \A i \in 1 .. n + 1 : a[i] = Append(s, m)[r + i]
  BY <1>3, <1>7, Zenon
<1>9. ASSUME NEW i \in 1 .. n + 1 PROVE a[i] = b[i]
  <2>1. CASE i = n + 1
    <3>1. r + i = l + 1
      BY <1>7, <2>1
    <3>2. QED
      BY <1>5, <1>6, <1>8, <2>1, <3>1, Zenon
  <2>2. CASE i \in 1 .. n
    <3>1. r + i \in 1 .. l
      BY <1>7, <2>2
    <3>2. a[i] = s[r + i]
      BY <1>6, <1>8, <3>1, Zenon
    <3>3. b[i] = s[r + i]
      BY <1>2, <1>4, <1>5, <2>2, Zenon
    <3>4. QED
      BY <3>2, <3>3, Zenon
  <2>3. QED
    BY <2>1, <2>2
<1>10. a = b
  BY <1>3, <1>5, <1>8, <1>9, SeqEqual, Zenon
<1>11. QED
  BY <1>10, Zenon DEF a, b

\* Receiving takes its first.
LEMMA SuffixTail ==
    ASSUME NEW M, NEW s \in Seq(M), NEW r \in Nat, r < Len(s)
    PROVE  /\ Suffix(s, r) # <<>> /\ Head(Suffix(s, r)) = s[r + 1]
           /\ Tail(Suffix(s, r)) = Suffix(s, r + 1)
<1> DEFINE a == Tail(Suffix(s, r))
           b == Suffix(s, r + 1)
           l == Len(s)
<1>1. l \in Nat
  OBVIOUS
<1>2. /\ Suffix(s, r) \in Seq(M) /\ Len(Suffix(s, r)) = l - r
      /\ \A i \in 1 .. l - r : Suffix(s, r)[i] = s[r + i]
  BY <1>1, SubSeqProperties DEF Suffix
<1>3. /\ b \in Seq(M) /\ Len(b) = l - (r + 1)
      /\ \A i \in 1 .. l - (r + 1) : b[i] = s[(r + 1) + i]
  BY <1>1, SubSeqProperties DEF Suffix
<1>4. Suffix(s, r) # <<>> /\ Head(Suffix(s, r)) = s[r + 1]
  BY <1>1, <1>2
<1>5. a \in Seq(M) /\ Len(a) = (l - r) - 1 /\ \A i \in 1 .. Len(a) : a[i] = Suffix(s, r)[i + 1]
  BY <1>1, <1>2, <1>4, HeadTailProperties, Zenon
<1>6. ASSUME NEW i \in 1 .. Len(a) PROVE a[i] = b[i]
  <2> HIDE DEF a, b, l
  <2>1. i \in Nat /\ i >= 1 /\ i =< (l - r) - 1
    BY <1>1, <1>5, <1>6
  <2>2. i + 1 \in 1 .. l - r /\ i \in 1 .. l - (r + 1) /\ r + (i + 1) = (r + 1) + i
    BY <1>1, <2>1
  <2>3. a[i] = s[r + (i + 1)]
    BY <1>2, <1>5, <2>2, Zenon
  <2>4. b[i] = s[(r + 1) + i]
    BY <1>3, <2>2, Zenon
  <2>5. QED
    BY <2>2, <2>3, <2>4, Zenon
<1>7. a = b
  <2> HIDE DEF a, b, l
  <2>1. Len(a) = Len(b)
    BY <1>1, <1>3, <1>5
  <2>2. QED
    BY <1>3, <1>5, <1>6, <2>1, SeqEqual, Zenon
<1>8. QED
  BY <1>4, <1>7, Zenon

\* A step of the link is a step of the channels of whole messages.
LEMMA PromiseStep ==
    ASSUME LinkInv, Promises
    PROVE  Promised!Next
<1> DEFINE queue == [c \in Channel |-> Suffix(sent[c], Len(received[c]))]
           open == {c \in Channel : c[1] \notin closed}
<1>1. /\ sent \in [Channel -> Seq(Message)] /\ received \in [Channel -> Seq(Message)]
      /\ \A c \in Channel : Len(received[c]) \in Nat /\ Len(received[c]) =< Len(sent[c])
  BY DEF LinkInv, Typed, Framing
<1>2. CASE SendsOne
  <2>1. PICK c \in Channel, m \in Message :
            /\ c = ChannelOf(m) /\ Open(c) /\ sent' = [sent EXCEPT ![c] = Append(@, m)]
            /\ UNCHANGED <<received, closed>>
    BY <1>2, Zenon DEF SendsOne
  <2>2. c \in open /\ open' = open
    BY <2>1, Zenon DEF Open
  <2>3. Suffix(Append(sent[c], m), Len(received[c])) = Append(queue[c], m)
    BY <1>1, SuffixAppend
  <2>4. queue' = [queue EXCEPT ![c] = Append(@, m)]
    <3>1. \A d \in Channel : queue'[d] = IF d = c THEN Append(queue[c], m) ELSE queue[d]
      BY <1>1, <2>1, <2>3, Zenon
    <3>2. QED
      BY <3>1, Zenon
  <2>5. Promised!Send(c, m)
    BY <2>1, <2>2, <2>4, Zenon DEF Promised!Send, Suffix
  <2>6. QED
    BY <2>5, Zenon DEF Promised!Next
<1>3. CASE DeliversOne
  <2>1. PICK c \in Channel :
            /\ Len(received[c]) < Len(sent[c])
            /\ received' = [received EXCEPT ![c] = Append(@, sent[c][Len(received[c]) + 1])]
            /\ UNCHANGED <<sent, closed>>
    BY <1>3, Zenon DEF DeliversOne
  <2>2. /\ queue[c] # <<>> /\ Head(queue[c]) = sent[c][Len(received[c]) + 1]
        /\ Tail(queue[c]) = Suffix(sent[c], Len(received[c]) + 1)
    BY <1>1, <2>1, SuffixTail, Zenon
  <2>3. Len(received'[c]) = Len(received[c]) + 1 /\ \A d \in Channel \ {c} : received'[d] = received[d]
    <3>1. sent[c][Len(received[c]) + 1] \in Message /\ received[c] \in Seq(Message)
      BY <1>1, <2>1
    <3>2. QED
      BY <1>1, <2>1, <3>1
  <2>4. queue' = [queue EXCEPT ![c] = Tail(@)]
    <3>1. queue'[c] = Suffix(sent[c], Len(received[c]) + 1)
      BY <2>1, <2>3, Zenon
    <3>2. \A d \in Channel \ {c} : queue'[d] = queue[d]
      BY <2>1, <2>3
    <3>3. \A d \in Channel : queue'[d] = IF d = c THEN Tail(queue[c]) ELSE queue[d]
      BY <2>2, <3>1, <3>2, Zenon
    <3>4. QED
      BY <3>3, Zenon
  <2>5. received' = [received EXCEPT ![c] = Append(@, Head(queue[c]))]
    BY <2>1, <2>2, Zenon
  <2>6. Promised!Deliver(c)
    BY <2>1, <2>2, <2>4, <2>5, Zenon DEF Promised!Deliver, Suffix
  <2>7. QED
    BY <2>6, Zenon DEF Promised!Next
<1>4. CASE MayClose
  <2>1. closed \subseteq closed' /\ UNCHANGED <<sent, received>>
    BY <1>4, Zenon DEF MayClose
  <2>2. open' \in SUBSET open /\ queue' = queue
    BY <2>1, Zenon
  <2>3. Promised!Close
    BY <2>1, <2>2, Zenon DEF Promised!Close, Suffix
  <2>4. QED
    BY <2>3, Zenon DEF Promised!Next
<1>5. QED
  BY <1>2, <1>3, <1>4, Zenon DEF Promises

----------------------------------------------------------------------------
(* Theorems                                                                *)

\* The invariant, for links of any number of clients, callers and workers, buffers of any
\* room and messages of any size: in a scenario where each direction has one sender at a
\* time, every cell on the wire belongs to the message that the reader expects there.
THEOREM LinkInvariant ==
    ASSUME \A s \in Scenario : Serial(s)
    PROVE  Spec => []LinkInv
<1>1. Init => LinkInv
  BY LinkInit, Zenon
<1>2. LinkInv /\ [Next]_vars => LinkInv'
  <2> SUFFICES ASSUME LinkInv, [Next]_vars PROVE LinkInv'
    BY Zenon
  <2>1. Serial(scenario)
    BY Zenon DEF LinkInv, Typed
  <2>2. CASE Next
    BY <2>1, <2>2, LinkStep, Zenon
  <2>3. CASE UNCHANGED vars
    BY <2>3, LinkStutter, Zenon
  <2>4. QED
    BY <2>2, <2>3, Zenon
<1>3. QED
  BY <1>1, <1>2, PTL DEF Spec

\* Framed, for every link of that kind: neither end loses its place in a stream, whatever
\* the other end was doing when its sends met a full socket (socket_link_peek_header,
\* socket_link_recv_stream, socket_link_peek_socket, socket_link_recv_client).
THEOREM FramedCorrect ==
    ASSUME \A s \in Scenario : Serial(s)
    PROVE  Spec => []Framed
<1>1. LinkInv => Framed
  BY Zenon DEF LinkInv, Typed, Framed
<1>2. QED
  BY <1>1, LinkInvariant, PTL

\* IsChannel, for every link of that kind: what the dispatchers of both ends get is what was
\* sent, each message once, whole and in order, and nothing is sent to a client that is gone.
THEOREM ChannelCorrect ==
    ASSUME \A s \in Scenario : Serial(s)
    PROVE  Spec => IsChannel
<1> DEFINE queue == [c \in Channel |-> SubSeq(sent[c], Len(received[c]) + 1, Len(sent[c]))]
           open == {c \in Channel : c[1] \notin closed}
<1>1. Init => Promised!Init
  <2> SUFFICES ASSUME Init PROVE Promised!Init
    BY Zenon
  <2>1. /\ sent = [c \in Channel |-> <<>>] /\ received = [c \in Channel |-> <<>>] /\ closed = {}
    BY Zenon DEF Init
  <2>2. SubSeq(<<>>, Len(<<>>) + 1, Len(<<>>)) = <<>>
    OBVIOUS
  <2>3. \A c \in Channel : queue[c] = <<>>
    BY <2>1, <2>2, Zenon
  <2>4. queue = [c \in Channel |-> <<>>] /\ open = Channel
    BY <2>1, <2>3, Zenon
  <2>5. QED
    BY <2>1, <2>4, Zenon DEF Promised!Init
<1>2. LinkInv /\ [Next]_vars => [Promised!Next]_<<queue, received, open>>
  <2> SUFFICES ASSUME LinkInv, [Next]_vars PROVE Promised!Next
    BY Zenon
  <2>1. Serial(scenario)
    BY Zenon DEF LinkInv, Typed
  <2>2. Promises
    BY <2>1, LinkStep, LinkStutter, Zenon DEF Promises
  <2>3. QED
    BY <2>2, PromiseStep, Zenon
<1>3. QED
  BY <1>1, <1>2, LinkInvariant, PTL DEF Spec, IsChannel, Promised!Spec
=============================================================================
