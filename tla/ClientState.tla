---------------------------- MODULE ClientState -----------------------------
(***************************************************************************)
(* What the proofs about the client (runtime/client.c) are stated with:    *)
(* the usage under which it keeps its promises, the inductive invariant,   *)
(* and the kinds of steps that the lemmas speak of.                        *)
(***************************************************************************)
EXTENDS Client

----------------------------------------------------------------------------
(* How the client may be used                                              *)

\* Thread t receives messages; it waits for the answer to one request; it awaits
\* several synchronously.
Receives(s, t) == s.calls[t] \cap {"wait", "try", "pump", "poll", "await_all", "await_any"} # {}

Waits(s, t) == s.calls[t] \cap {"wait", "try"} # {}

Syncs(s, t) == s.calls[t] \cap {"await_all", "await_any"} # {}

Sends(s, t) == s.calls[t] \cap {"invoke", "invoke_stream"} # {}

\* Nothing but responses arrives, and the connection stays.
Calm(s) == s.events = 0 /\ s.errors = 0 /\ ~s.close

\* The usage under which the client keeps its promises.
Disciplined(s) ==
    /\ \A t \in Thread : Waits(s, t) => Calm(s)
    /\ \A t, u \in Thread : Syncs(s, t) /\ Receives(s, u) => t = u
    /\ \A t, u \in Thread : "invoke_stream" \in s.calls[t] /\ Sends(s, u) => t = u
    /\ \A t, u \in Thread : "status" \in s.calls[t] /\ "status" \in s.calls[u] /\ s.errors # 0 => t = u
    /\ \A t \in Thread : "await_all_async" \in s.calls[t] => ~s.spurious
    /\ \A t \in Thread : "await_any_async" \notin s.calls[t]

----------------------------------------------------------------------------
(* The invariant                                                           *)

SendPc == {"id_load", "id_store", "send"}

WaitPc == {"check", "lock", "recv", "handle", "mark", "touch", "exit"}

AwaitPc == {"scan", "cnd_wait", "asleep", "loop", "recount", "remove", "cleanup"}

ReadPc == {"swap_status", "swap_buffer", "result"}

Local == [pc : Pc, ctx : Nat, block : BOOLEAN, buf : Buffer \cup {NULL}, stale : BOOLEAN,
          handled : Nat, status : {0, -1}, mark : Nat, ptr : Thread \cup {NULL},
          ret : {"idle", "recount"}, ids : SUBSET Nat, all : BOOLEAN, async : BOOLEAN,
          result : Status]

Slot == [status : Status, awaiter : Nat, buffer : Buffer \cup {NULL}]

Letter == [type : {"response", "event", "large", "error"}, id : Nat]

Typed ==
    /\ scenario \in Scenario /\ Disciplined(scenario)
    /\ current_message_id \in Nat \ {0} /\ current_awaiter_id \in Nat \ {0}
    /\ DOMAIN messages \subseteq 1 .. MaxId
    /\ \A id \in DOMAIN messages : messages[id] \in Slot
    /\ swap \in Slot
    /\ \A k \in DOMAIN awaiters : awaiters[k] \in Thread
    /\ awaiter \in [Thread -> [id : Nat, all : BOOLEAN, count : Nat, current : Nat]]
    /\ send_lock \in Thread \cup {NULL}
    /\ pool \subseteq Buffer /\ content \in [Buffer -> Letter]
    /\ local \in [Thread -> Local]
    /\ owned \in [Thread -> SUBSET Nat] /\ ready \in [Thread -> SUBSET Nat]
    /\ incoming \in Seq(Letter) /\ errors \in Nat /\ open \in BOOLEAN /\ events \in Nat

\* Thread t is in gracht_client_await_multiple.
InAwait(t) == local[t].pc \in AwaitPc \/ local[t].ret = "recount"

\* What a thread is at is one of the calls it makes.
Role(t) ==
    /\ local[t].pc \in SendPc =>
          \/ Uses(t, "invoke") /\ send_lock = t
          \/ Uses(t, "invoke_stream")
    /\ local[t].pc \in WaitPc => Receives(scenario, t)
    /\ local[t].pc \in WaitPc /\ local[t].ctx # 0 => Waits(scenario, t)
    /\ local[t].pc \in AwaitPc => local[t].ctx = 0 /\ local[t].ret = "idle"
    /\ local[t].ret = "recount" => local[t].pc \in WaitPc
    /\ InAwait(t) /\ local[t].async =>
          /\ local[t].pc \in {"scan", "cnd_wait", "asleep", "remove", "cleanup"}
          /\ local[t].all /\ Uses(t, "await_all_async")
    /\ InAwait(t) /\ ~local[t].async =>
          /\ local[t].pc \notin {"cnd_wait", "asleep"}
          /\ Syncs(scenario, t)
    /\ local[t].pc \in ReadPc => Uses(t, "status")

\* An identifier that was given out to a request before.
Spent(id) ==
    /\ id \in 1 .. MaxId /\ id < current_message_id
    /\ \A t \in Thread : local[t].pc = "send" => local[t].ctx # id

Ids ==
    /\ \A t \in Thread :
          /\ local[t].pc \in {"id_load", "id_store"} => current_message_id \in 1 .. MaxId
          /\ local[t].pc = "id_store" => local[t].ctx = current_message_id
          /\ local[t].pc = "send" => local[t].ctx \in 1 .. MaxId /\ local[t].ctx < current_message_id
    /\ \A id \in DOMAIN messages : Spent(id)
    /\ \A t \in Thread : local[t].pc \in ReadPc => Spent(local[t].ctx)

InProgress(id) == id \in DOMAIN messages /\ messages[id].status = "inprogress"

Decided(id) == id \in DOMAIN messages /\ messages[id].status # "inprogress"

\* A descriptor has one thread that may collect the result.
Contexts ==
    /\ \A t \in Thread :
          /\ ready[t] \subseteq owned[t] /\ owned[t] \subseteq DOMAIN messages
          /\ \A id \in ready[t] : Decided(id)
          /\ InAwait(t) => local[t].ids \subseteq owned[t]
          /\ local[t].pc \in WaitPc /\ local[t].ctx # 0 => local[t].ctx \in owned[t]
          /\ local[t].pc \in ReadPc => local[t].ctx \notin DOMAIN messages
    /\ \A t, u \in Thread : owned[t] \cap owned[u] # {} => t = u
    /\ \A t, u \in Thread :
          {local[t].pc, local[u].pc} \subseteq ReadPc /\ local[t].ctx = local[u].ctx => t = u

Decides(m) == m.type \in {"response", "error"}

Handles(t) == local[t].pc = "handle"

\* A request is at the server, on the connection, or its answer is being handled.
Answers ==
    /\ \A id \in pending : InProgress(id)
    /\ \A i \in DOMAIN incoming : Decides(incoming[i]) =>
          InProgress(incoming[i].id) /\ incoming[i].id \notin pending
    /\ \A i, j \in DOMAIN incoming :
          Decides(incoming[i]) /\ Decides(incoming[j]) /\ incoming[i].id = incoming[j].id => i = j
    /\ \A t \in Thread : Handles(t) /\ Decides(content[local[t].buf]) =>
          /\ InProgress(content[local[t].buf].id) /\ content[local[t].buf].id \notin pending
          /\ \A i \in DOMAIN incoming :
                Decides(incoming[i]) => incoming[i].id # content[local[t].buf].id
    /\ \A t, u \in Thread :
          /\ Handles(t) /\ Handles(u)
          /\ Decides(content[local[t].buf]) /\ Decides(content[local[u].buf])
          /\ content[local[t].buf].id = content[local[u].buf].id
          => t = u

\* What arrives is what the scenario has.
Expected(m) ==
    /\ m.type = "error" => scenario.errors # 0
    /\ Calm(scenario) => m.type = "response"

Arrivals ==
    /\ Calm(scenario) => open
    /\ \A i \in DOMAIN incoming : Expected(incoming[i])
    /\ \A t \in Thread : Handles(t) => Expected(content[local[t].buf])

\* A descriptor and what is left of it for the thread that collects the result.
Descriptors ==
    /\ \A id \in DOMAIN messages :
          /\ messages[id].status = "completed" =>
                messages[id].buffer \in Buffer /\ content[messages[id].buffer].id = id
          /\ messages[id].status # "completed" => messages[id].buffer = NULL
          /\ messages[id].status = "error" => scenario.errors # 0
    /\ swap.status = "error" => swap.buffer = NULL /\ scenario.errors # 0
    /\ \A t \in Thread : local[t].pc = "swap_buffer" => swap.buffer = NULL /\ scenario.errors # 0
    /\ \A t \in Thread : local[t].pc \in ReadPc =>
          \/ local[t].result = "completed" /\ local[t].buf \in Buffer /\ content[local[t].buf].id = local[t].ctx
          \/ local[t].result = "error" /\ local[t].buf = NULL

\* Every buffer has one place.
Buffers ==
    /\ \A b \in Buffer :
          \/ b \in pool
          \/ \E id \in DOMAIN messages : messages[id].buffer = b
          \/ \E t \in Thread : local[t].buf = b
    /\ \A id \in DOMAIN messages : messages[id].buffer \notin pool
    /\ \A t \in Thread : local[t].buf \notin pool
    /\ \A id \in DOMAIN messages, t \in Thread :
          messages[id].buffer = local[t].buf => local[t].buf = NULL
    /\ \A i, j \in DOMAIN messages : messages[i].buffer = messages[j].buffer => i = j \/ messages[i].buffer = NULL
    /\ \A t, u \in Thread : local[t].buf = local[u].buf => t = u \/ local[t].buf = NULL

\* The locals of gracht_client_wait_message.
Locals(t) ==
    /\ local[t].pc \notin {"handle", "mark", "touch", "exit"} \cup ReadPc => local[t].buf = NULL
    /\ local[t].pc = "handle" => local[t].buf \in Buffer
    /\ local[t].pc \in {"mark", "touch", "exit"} /\ local[t].ctx # 0 => local[t].buf = NULL
    /\ local[t].stale => local[t].buf = NULL
    /\ local[t].pc \in WaitPc /\ local[t].ctx # 0 =>
          /\ local[t].handled = local[t].ctx =>
                local[t].pc \in {"mark", "touch", "exit"} /\ Decided(local[t].ctx)
          /\ local[t].handled = 0 =>
                local[t].pc \notin {"mark", "touch"} /\ (local[t].pc = "exit" => local[t].status = -1)

\* Thread u has decided a message of the awaiter k and has not counted it yet.
Marking(k) == {u \in Thread : local[u].pc \in {"mark", "touch"} /\ local[u].mark = k}

DoneOf(t) == {id \in local[t].ids : Decided(id)}

Awaits ==
    /\ \A t \in Thread :
          /\ awaiter[t].id < current_awaiter_id
          /\ awaiter[t].id # 0 <=> InAwait(t)
          /\ local[t].pc \in {"mark", "touch"} => local[t].mark < current_awaiter_id
    /\ \A t, u \in Thread : awaiter[t].id = awaiter[u].id => t = u \/ awaiter[t].id = 0
    /\ \A id \in DOMAIN messages : messages[id].awaiter < current_awaiter_id
    /\ \A k \in DOMAIN awaiters :
          awaiter[awaiters[k]].id = k /\ local[awaiters[k]].pc \notin {"scan", "cleanup"} /\ k # 0
    /\ \A t \in Thread : InAwait(t) /\ local[t].pc \notin {"scan", "cleanup"} =>
          awaiter[t].id \in DOMAIN awaiters
    /\ \A t \in Thread : local[t].pc = "touch" =>
          local[t].mark # 0 /\ local[t].ptr \in Thread /\ awaiter[local[t].ptr].id = local[t].mark

\* An awaiter and the descriptors that point at it.
Awaiting(t) ==
    /\ local[t].pc = "scan" =>
          /\ \A id \in DOMAIN messages : messages[id].awaiter # awaiter[t].id
          /\ Marking(awaiter[t].id) = {}
    /\ InAwait(t) /\ local[t].pc # "scan" =>
          \A id \in DOMAIN messages : messages[id].awaiter = awaiter[t].id <=> id \in local[t].ids
    /\ InAwait(t) => awaiter[t].count = Cardinality(local[t].ids) /\ awaiter[t].all = local[t].all
    /\ local[t].pc \in {"cnd_wait", "asleep"} =>
          awaiter[t].current + Cardinality(Marking(awaiter[t].id)) = Cardinality(DoneOf(t))
    /\ local[t].pc = "loop" => awaiter[t].current = Cardinality(DoneOf(t))
    /\ local[t].pc \in {"remove", "cleanup"} =>
          /\ local[t].all => DoneOf(t) = local[t].ids
          /\ Marking(awaiter[t].id) = {}

ClientInv ==
    /\ Typed
    /\ \A t \in Thread : Role(t) /\ Locals(t) /\ Awaiting(t)
    /\ Ids /\ Contexts /\ Answers /\ Arrivals /\ Descriptors /\ Buffers /\ Awaits

----------------------------------------------------------------------------
(* Kinds of steps                                                          *)

\* Thread t moves, the others do not.
Moves(t) == local' \in [Thread -> Local] /\ \A u \in Thread \ {t} : local'[u] = local[u]

\* The same descriptors, as far as statuses and buffers go.
SameSlots ==
    /\ DOMAIN messages' = DOMAIN messages
    /\ \A id \in DOMAIN messages :
          messages'[id].status = messages[id].status /\ messages'[id].buffer = messages[id].buffer

\* What a step of thread t has to keep besides its own locals.
Rest(t) ==
    /\ Typed
    /\ \A u \in Thread \ {t} : Role(u) /\ Locals(u) /\ Awaiting(u)
    /\ Ids /\ Contexts /\ Answers /\ Arrivals /\ Descriptors /\ Buffers /\ Awaits

Own(t) == Role(t) /\ Locals(t) /\ Awaiting(t)

\* The results that were reported are there.
ReadyOK ==
    /\ ready \in [Thread -> SUBSET Nat]
    /\ \A u \in Thread : ready[u] \subseteq owned[u] /\ \A id \in ready[u] : Decided(id)

\* Thread t decides the request id, and will count it for its awaiter.
Decision(t, id) ==
    /\ Handles(t) /\ Decides(content[local[t].buf]) /\ id = content[local[t].buf].id
    /\ InProgress(id) /\ id \in DOMAIN messages
    /\ DOMAIN messages' = DOMAIN messages /\ Decided(id)'
    /\ \A i \in DOMAIN messages : i # id => messages'[i] = messages[i]
    /\ messages'[id] \in Slot /\ messages'[id].awaiter = messages[id].awaiter
    /\ local' \in [Thread -> Local] /\ \A u \in Thread \ {t} : local'[u] = local[u]
    /\ local'[t].pc = "mark" /\ local'[t].mark = messages[id].awaiter
    /\ UNCHANGED <<current_message_id, current_awaiter_id, swap, awaiters, awaiter, send_lock, pool, content,
                   owned, ready, pending, incoming, open, scenario, events, errors>>

\* The same, with the invariants of the thread and of the descriptor.
DecisionStep(t, id) ==
    /\ Decision(t, id) /\ Descriptors' /\ Buffers' /\ Locals(t)'
    /\ local'[t].ctx = local[t].ctx /\ local'[t].ret = local[t].ret /\ local'[t].ids = local[t].ids
    /\ local'[t].all = local[t].all /\ local'[t].async = local[t].async

\* What a thread has in hand when __await_loop makes it receive.
Receiving(l) == [l EXCEPT !.pc = "lock", !.block = TRUE, !.ret = "recount"]

\* The contexts of an await have been counted: when the counts agree, all are done.
Countable(t) ==
    /\ Cardinality(DoneOf(t)) \in Nat /\ Cardinality(local[t].ids) \in Nat
    /\ ~(Cardinality(DoneOf(t)) < Cardinality(local[t].ids)) => DoneOf(t) = local[t].ids

\* Thread t has counted a message for the awaiter of thread u, which it may have woken up.
Counts(t, u, woken) ==
    /\ local[t].pc = "touch" /\ awaiter[u].id = local[t].mark /\ InAwait(u)
    /\ awaiter' = [awaiter EXCEPT ![u].current = awaiter[u].current + 1]
    /\ local' \in [Thread -> Local]
    /\ local'[t].pc = "exit"
    /\ \A v \in Thread :
          /\ local'[v].ctx = local[v].ctx /\ local'[v].buf = local[v].buf /\ local'[v].stale = local[v].stale
          /\ local'[v].handled = local[v].handled /\ local'[v].status = local[v].status
          /\ local'[v].ret = local[v].ret /\ local'[v].ids = local[v].ids /\ local'[v].all = local[v].all
          /\ local'[v].async = local[v].async /\ local'[v].result = local[v].result
    /\ \A v \in Thread \ {t} : v # u => local'[v] = local[v]
    /\ u # t =>
          \/ ~woken /\ local'[u] = local[u]
          \/ /\ woken /\ local[u].pc = "asleep" /\ local'[u].pc = "remove"
             /\ awaiter[u].all => awaiter[u].current + 1 = awaiter[u].count
    /\ UNCHANGED <<current_message_id, current_awaiter_id, messages, swap, awaiters, send_lock, pool, content,
                   owned, ready, pending, incoming, open, scenario, events, errors>>

\* The answer of a request that has got this far.
Outcome(id, status) == IF status = "completed" THEN id ELSE IF status = "error" THEN -1 ELSE 0

\* What RemoteCalls sees of a request: the status of its descriptor, then the result of the
\* thread that collected it; the contents of the buffers are what they should be.
Visible(id) ==
    /\ id \in DOMAIN messages =>
          /\ Phase(id) = IF messages[id].status = "inprogress" THEN "pending" ELSE "answered"
          /\ AnswerTo(id) = Outcome(id, messages[id].status)
    /\ \A t \in Reading(id) :
          /\ id \notin DOMAIN messages /\ Phase(id) = "reading" /\ AnswerTo(id) = Outcome(id, local[t].result)
          /\ Reading(id) = {t}
    /\ id \notin DOMAIN messages /\ Reading(id) = {} => Phase(id) = "none" /\ AnswerTo(id) = 0

\* Request id is where it was.
Stays(id) ==
    /\ id \in DOMAIN messages' <=> id \in DOMAIN messages
    /\ id \in DOMAIN messages => messages'[id].status = messages[id].status
    /\ Reading(id)' = Reading(id) /\ \A t \in Reading(id) : local'[t].result = local[t].result

\* A step that decides, collects and sends nothing.
Still ==
    /\ DOMAIN messages' = DOMAIN messages
    /\ \A id \in DOMAIN messages : messages'[id].status = messages[id].status
    /\ \A t \in Thread :
          /\ local'[t].pc \in ReadPc <=> local[t].pc \in ReadPc
          /\ local[t].pc \in ReadPc => local'[t].ctx = local[t].ctx /\ local'[t].result = local[t].result

\* The step takes request c from one phase to the next and leaves the others as they are.
Turn(c, from, to, a) ==
    /\ Phase(c) = from /\ Phase(c)' = to /\ AnswerTo(c)' = a
    /\ \A id : id # c => Phase(id)' = Phase(id) /\ AnswerTo(id)' = AnswerTo(id)

\* What a step of the client is for its requests.
Turns ==
    \E c \in 1 .. MaxId :
        \/ Turn(c, "none", "pending", 0)
        \/ Turn(c, "pending", "answered", c) \/ Turn(c, "pending", "answered", -1)
        \/ Turn(c, "answered", "reading", AnswerTo(c)) \/ Turn(c, "reading", "none", 0)
=============================================================================
