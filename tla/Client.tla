------------------------------- MODULE Client -------------------------------
(***************************************************************************)
(* runtime/client.c: the threads of one client that send requests, wait    *)
(* for messages, await responses and collect results.                      *)
(*                                                                         *)
(* A section under messages_lock or awaiters_lock is one step.  wait_lock  *)
(* and send_buffer_lock are held across blocking calls and are variables.  *)
(* The receive buffers (recv_pool and the stream pools) are one set of     *)
(* free buffers; LockFreeStack models the pool itself.  The server, the    *)
(* link and the application are the environment: the server answers or     *)
(* rejects a request or stays silent, sends events, and the connection may *)
(* close.  A scenario says which API functions each thread uses; a        *)
(* thread asks for a result (the generated *_result functions) only for a  *)
(* context that the API has reported as done.                              *)
(***************************************************************************)
EXTENDS Integers, Sequences, FiniteSets, Functions

CONSTANTS Thread,
          Buffer,      \* receive buffers
          NULL,
          MaxId,       \* bound: requests sent
          MaxAwait,    \* bound: calls of gracht_client_await_multiple
          Scenario     \* ways to use the client, of which a behaviour follows one

API == {"invoke", "invoke_stream", "wait", "try", "pump", "poll", "status",
        "await_all", "await_any", "await_all_async", "await_any_async"}

ASSUME ClientAssumption ==
    /\ IsFiniteSet(Thread) /\ IsFiniteSet(Buffer)
    /\ NULL \notin Thread \cup Buffer
    /\ {MaxId, MaxAwait} \subseteq Nat
    /\ \A s \in Scenario :
          /\ s.calls \in [Thread -> SUBSET API]  \* per thread, the API functions it uses
          /\ s.requests \in 0 .. MaxId           \* bound: requests sent
          /\ s.events \in Nat                    \* bound: events the server sends on its own
          /\ s.errors \in Nat                    \* bound: requests answered by a control error
          /\ s.large \in BOOLEAN                 \* an event may exceed max_message_size
          /\ s.close \in BOOLEAN                 \* the connection may be lost
          /\ s.spurious \in BOOLEAN              \* cnd_wait may return without a signal

Id == 1 .. (MaxId + Cardinality(Thread))
AwaiterId == 1 .. MaxAwait
Status == {"inprogress", "completed", "error"}
Descriptor == [status : Status, awaiter : {0} \cup AwaiterId, buffer : Buffer \cup {NULL}]
Message == [type : {"response", "event", "large", "error"}, id : {0} \cup Id]

VARIABLES
    current_message_id,
    current_awaiter_id,
    messages,      \* the hashtable: id -> descriptor
    swap,          \* the slot of the hashtable that gr_hashtable_remove returns
    awaiters,      \* the hashtable: awaiter id -> thread whose awaiter it is
    awaiter,       \* per thread, the awaiter it has allocated (id 0: none)
    wait_lock,
    send_lock,     \* send_buffer_lock
    pool,          \* free receive buffers
    content,       \* the message each receive buffer holds
    local,         \* per thread, the locals of its call in progress
    owned,         \* per thread, contexts of requests without a collected result
    ready,         \* per thread, the ones of them the API reported as done
    pending,       \* requests at the server
    incoming,      \* messages on the connection, to the client
    open,          \* the connection
    scenario,      \* how the client is used
    events,        \* events sent so far
    errors         \* requests rejected so far

clientVars == <<current_message_id, current_awaiter_id, messages, swap, awaiters, awaiter,
                wait_lock, send_lock, pool, content>>
threadVars == <<local, owned, ready>>
envVars == <<pending, incoming, open, scenario, events, errors>>
vars == <<clientVars, threadVars, envVars>>

NoAwaiter == [id |-> 0, all |-> FALSE, count |-> 0, current |-> 0]

Idle == [pc |-> "idle", ctx |-> 0, block |-> FALSE, buf |-> NULL, stale |-> FALSE,
         handled |-> 0, status |-> 0, mark |-> 0, ptr |-> NULL, ret |-> "idle",
         ids |-> {}, all |-> FALSE, async |-> FALSE, result |-> "inprogress"]

Pc == {"idle", "id_load", "id_store", "send", "check", "lock", "recv", "handle", "mark",
       "touch", "exit", "scan", "cnd_wait", "asleep", "loop", "recount", "remove", "cleanup",
       "swap_status", "swap_buffer", "result"}

TypeOK ==
    /\ current_message_id \in Id /\ current_awaiter_id \in Nat
    /\ DOMAIN messages \subseteq Id
    /\ \A id \in DOMAIN messages : messages[id] \in Descriptor
    /\ swap \in Descriptor
    /\ DOMAIN awaiters \subseteq AwaiterId /\ Range(awaiters) \subseteq Thread
    /\ wait_lock \in Thread \cup {NULL} /\ send_lock \in Thread \cup {NULL}
    /\ pool \subseteq Buffer
    /\ content \in [Buffer -> Message]
    /\ \A t \in Thread :
          /\ local[t].pc \in Pc
          /\ local[t].buf \in Buffer \cup {NULL}
          /\ local[t].handled \in {0} \cup Id
          /\ awaiter[t].current \in Nat
          /\ ready[t] \subseteq owned[t] /\ owned[t] \subseteq Id
    /\ pending \subseteq Id
    /\ \A i \in DOMAIN incoming : incoming[i] \in Message

Empty == [status |-> "inprogress", awaiter |-> 0, buffer |-> NULL]

\* gracht_client_create and gracht_client_connect.
Init ==
    /\ current_message_id = 1 /\ current_awaiter_id = 1
    /\ messages = <<>> /\ swap = Empty
    /\ awaiters = <<>> /\ awaiter = [t \in Thread |-> NoAwaiter]
    /\ wait_lock = NULL /\ send_lock = NULL
    /\ pool = Buffer /\ content = [b \in Buffer |-> [type |-> "event", id |-> 0]]
    /\ local = [t \in Thread |-> Idle]
    /\ owned = [t \in Thread |-> {}] /\ ready = [t \in Thread |-> {}]
    /\ scenario \in Scenario
    /\ pending = {} /\ incoming = <<>> /\ open = TRUE /\ events = 0 /\ errors = 0

----------------------------------------------------------------------------
(* Helpers                                                                 *)

At(t, pc) == local[t].pc = pc
Goto(t, pc) == local' = [local EXCEPT ![t].pc = pc]
Uses(t, call) == call \in scenario.calls[t]

\* gr_hashtable_set and gr_hashtable_remove on the tables of the client.
Put(table, key, value) == [k \in DOMAIN table \cup {key} |-> IF k = key THEN value ELSE table[k]]
Drop(table, key) == Restrict(table, DOMAIN table \ {key})

\* MESSAGE_STATUS_EXECUTED
Executed(status) == status \in {"error", "completed"}

\* A context counts as done for an awaiter when its message is gone or executed.
Done(id) == id \in DOMAIN messages => Executed(messages[id].status)

\* The end of gracht_client_wait_message: back to the application, or to __await_loop.
Return(t, status) ==
    /\ local' = [local EXCEPT ![t] =
            IF local[t].ret = "idle" THEN Idle
            ELSE [Idle EXCEPT !.pc = local[t].ret, !.ids = local[t].ids, !.all = local[t].all]]
    /\ ready' = IF local[t].ctx # 0 /\ status = 0
                THEN [ready EXCEPT ![t] = @ \cup {local[t].ctx}]
                ELSE ready
    /\ UNCHANGED owned

----------------------------------------------------------------------------
(* Mutated forms of the operations below.                                  *)

\* A wait that does not look at the status of its context first.
check_status_no_test(t) ==
    /\ At(t, "check")
    /\ Goto(t, "lock")
    /\ UNCHANGED <<clientVars, owned, ready, envVars>>

\* gracht_control_error_invocation marks the awaiters but not the message.
error_no_status(t) ==
    LET id == content[local[t].buf].id IN
    /\ At(t, "handle") /\ content[local[t].buf].type = "error"
    /\ IF id \in DOMAIN messages
       THEN local' = [local EXCEPT ![t].pc = "mark", ![t].mark = messages[id].awaiter]
       ELSE local' = [local EXCEPT ![t].pc = "exit"]
    /\ UNCHANGED <<clientVars, owned, ready, envVars>>

\* A response is given to the message the thread waits for, whatever its id.
response_to_waiter(t) ==
    LET id == local[t].ctx IN
    /\ At(t, "handle") /\ content[local[t].buf].type = "response"
    /\ id \in DOMAIN messages
    /\ messages' = [messages EXCEPT ![id].status = "completed", ![id].buffer = local[t].buf]
    /\ local' = [local EXCEPT ![t].pc = "mark", ![t].mark = messages[id].awaiter,
                              ![t].handled = id, ![t].buf = NULL, ![t].status = 0]
    /\ UNCHANGED <<current_message_id, current_awaiter_id, swap, awaiters, awaiter, wait_lock,
                   send_lock, pool, content, owned, ready, envVars>>

\* mark_awaiters signals on every message, GRACHT_AWAIT_ALL or not.
touch_always_signals(t) ==
    LET u == local[t].ptr IN
    /\ At(t, "touch")
    /\ local' = [v \in Thread |->
            IF v = t THEN [local[t] EXCEPT !.pc = "exit", !.mark = 0, !.ptr = NULL]
            ELSE IF v = u /\ At(u, "asleep") THEN [local[u] EXCEPT !.pc = "remove"]
            ELSE local[v]]
    /\ UNCHANGED <<clientVars, owned, ready, envVars>>

\* listenOrExit returns after any message.
exit_after_any(t) ==
    LET l == local[t] IN
    /\ At(t, "exit")
    /\ pool' = IF l.buf = NULL THEN pool ELSE pool \cup {l.buf}
    /\ Return(t, l.status)
    /\ UNCHANGED <<current_message_id, current_awaiter_id, messages, swap, awaiters, awaiter,
                   wait_lock, send_lock, content, envVars>>

\* gracht_client_status_finalize does not release.
finalize_no_release(t) ==
    /\ At(t, "result")
    /\ local' = [local EXCEPT ![t] = Idle]
    /\ UNCHANGED <<clientVars, owned, ready, envVars>>

----------------------------------------------------------------------------
(* Sending: gracht_client_get_buffer, then gracht_client_invoke; or the    *)
(* stream variants, which do not take send_buffer_lock.                    *)

\* gracht_client_get_buffer / gracht_client_get_stream_buffer
gracht_client_get_buffer(t) ==
    /\ At(t, "idle") /\ current_message_id <= scenario.requests
    /\ \/ Uses(t, "invoke") /\ send_lock = NULL /\ send_lock' = t
       \/ Uses(t, "invoke_stream") /\ UNCHANGED send_lock
    /\ Goto(t, "id_load")
    /\ UNCHANGED <<current_message_id, current_awaiter_id, messages, swap, awaiters, awaiter,
                   wait_lock, pool, content, owned, ready, envVars>>

\* get_message_id: current_message_id++ is a load ...
LoadMessageId(t) ==
    /\ At(t, "id_load")
    /\ local' = [local EXCEPT ![t].pc = "id_store", ![t].ctx = current_message_id]
    /\ UNCHANGED <<clientVars, owned, ready, envVars>>

\* ... and a store.
StoreMessageId(t) ==
    /\ At(t, "id_store")
    /\ current_message_id' = local[t].ctx + 1
    /\ Goto(t, "send")
    /\ UNCHANGED <<current_awaiter_id, messages, swap, awaiters, awaiter, wait_lock, send_lock,
                   pool, content, owned, ready, envVars>>

\* The rest of gracht_client_invoke_internal for a request with a response: the
\* descriptor is added, the request sent, and on a failure the descriptor removed
\* again; then the send buffer is given back.
gracht_client_invoke_internal(t) ==
    LET id == local[t].ctx IN
    /\ At(t, "send")
    /\ IF open
       THEN /\ messages' = Put(messages, id, Empty)
            /\ pending' = pending \cup {id}
            /\ owned' = [owned EXCEPT ![t] = @ \cup {id}]
            /\ UNCHANGED swap
       ELSE /\ messages' = Drop(messages, id)
            /\ swap' = Empty
            /\ UNCHANGED <<pending, owned>>
    /\ send_lock' = IF send_lock = t THEN NULL ELSE send_lock
    /\ local' = [local EXCEPT ![t] = Idle]
    /\ UNCHANGED <<current_message_id, current_awaiter_id, awaiters, awaiter, wait_lock, pool,
                   content, ready, incoming, open, scenario, events, errors>>

----------------------------------------------------------------------------
(* gracht_client_wait_message                                              *)

\* The call: with a context, which is checked first, or for any message.
gracht_client_wait_message(t) ==
    /\ At(t, "idle")
    /\ \/ \E id \in owned[t] \ ready[t], block \in BOOLEAN :
             /\ Uses(t, IF block THEN "wait" ELSE "try")
             /\ local' = [local EXCEPT ![t] = [Idle EXCEPT !.pc = "check", !.ctx = id,
                                                            !.block = block]]
       \/ \E block \in BOOLEAN :
             /\ Uses(t, IF block THEN "pump" ELSE "poll")
             /\ local' = [local EXCEPT ![t] = [Idle EXCEPT !.pc = "lock", !.block = block]]
    /\ UNCHANGED <<clientVars, owned, ready, envVars>>

\* listenForMessage with a context: a finished or unknown message ends the wait.
CheckStatus(t) ==
    LET id == local[t].ctx IN
    /\ At(t, "check")
    /\ IF id = 0 THEN Goto(t, "lock") /\ UNCHANGED <<owned, ready>>
       ELSE IF id \notin DOMAIN messages THEN Return(t, -1)
       ELSE IF messages[id].status # "inprogress" THEN Return(t, 0)
       ELSE Goto(t, "lock") /\ UNCHANGED <<owned, ready>>
    /\ UNCHANGED <<clientVars, envVars>>

\* mtx_trylock, and for a blocking call mtx_lock.
LockWait(t) ==
    /\ At(t, "lock")
    /\ \/ /\ wait_lock = NULL
          /\ wait_lock' = t
          /\ Goto(t, "recv")
          /\ UNCHANGED <<owned, ready>>
       \/ /\ wait_lock # NULL /\ ~local[t].block
          /\ Return(t, -1)
          /\ UNCHANGED wait_lock
    /\ UNCHANGED <<current_message_id, current_awaiter_id, messages, swap, awaiters, awaiter,
                   send_lock, pool, content, envVars>>

\* A failed step between the lock and the recv: unlock and go to listenOrExit with
\* what the buffer variable holds.
FailWait(t, buf, stale) ==
    /\ wait_lock' = NULL
    /\ local' = [local EXCEPT ![t].pc = "exit", ![t].status = -1,
                              ![t].buf = buf, ![t].stale = stale]

\* peek fails: the connection is lost, or a non-blocking call finds nothing, or
\* the message is longer than max_message_size (and stays on the connection).
PeekFails(t) ==
    /\ At(t, "recv")
    /\ IF incoming = <<>> THEN ~open \/ ~local[t].block ELSE Head(incoming).type = "large"
    /\ FailWait(t, local[t].buf, local[t].stale)
    /\ UNCHANGED <<current_message_id, current_awaiter_id, messages, swap, awaiters, awaiter,
                   send_lock, pool, content, owned, ready, envVars>>

\* No receive buffer is free: ENOMEM, the message stays on the connection.
NoBuffer(t) ==
    /\ At(t, "recv")
    /\ incoming # <<>> /\ Head(incoming).type # "large" /\ pool = {}
    /\ FailWait(t, NULL, FALSE)
    /\ UNCHANGED <<current_message_id, current_awaiter_id, messages, swap, awaiters, awaiter,
                   send_lock, pool, content, owned, ready, envVars>>

\* peek, acquire and recv of a message, and the unlock.
Receive(t) ==
    /\ At(t, "recv")
    /\ incoming # <<>> /\ Head(incoming).type # "large"
    /\ \E b \in pool :
          /\ pool' = pool \ {b}
          /\ content' = [content EXCEPT ![b] = Head(incoming)]
          /\ local' = [local EXCEPT ![t].pc = "handle", ![t].buf = b, ![t].stale = FALSE]
    /\ incoming' = Tail(incoming)
    /\ wait_lock' = NULL
    /\ UNCHANGED <<current_message_id, current_awaiter_id, messages, swap, awaiters, awaiter,
                   send_lock, owned, ready, pending, open, scenario, events, errors>>

\* The connection is lost between the header that peek saw and the end of the message.
ReceiveFails(t) ==
    /\ At(t, "recv") /\ ~open
    /\ incoming # <<>> /\ Head(incoming).type # "large"
    /\ \E b \in pool :
          /\ pool' = pool \ {b}
          /\ FailWait(t, b, FALSE)
    /\ incoming' = <<>>
    /\ UNCHANGED <<current_message_id, current_awaiter_id, messages, swap, awaiters, awaiter,
                   send_lock, content, owned, ready, pending, open, scenario, events, errors>>

\* An event: __invoke_action runs its handler, or fails when there is none.
HandleEvent(t) ==
    /\ At(t, "handle") /\ content[local[t].buf].type = "event"
    /\ \E status \in {0, -1} :
          local' = [local EXCEPT ![t].pc = "exit", ![t].status = status]
    /\ UNCHANGED <<clientVars, owned, ready, envVars>>

\* A control error event: gracht_control_error_invocation, up to mark_awaiters.
gracht_control_error_invocation(t) ==
    LET id == content[local[t].buf].id IN
    /\ At(t, "handle") /\ content[local[t].buf].type = "error"
    /\ IF id \in DOMAIN messages
       THEN /\ messages' = [messages EXCEPT ![id].status = "error"]
            /\ local' = [local EXCEPT ![t].pc = "mark", ![t].mark = messages[id].awaiter,
                                      ![t].status = 0]
       ELSE /\ local' = [local EXCEPT ![t].pc = "exit", ![t].status = 0]
            /\ UNCHANGED messages
    /\ UNCHANGED <<current_message_id, current_awaiter_id, swap, awaiters, awaiter, wait_lock,
                   send_lock, pool, content, owned, ready, envVars>>

\* A response: __handle_response up to mark_awaiters.  The descriptor takes the
\* buffer over; without a descriptor the wait starts again, the buffer in hand.
HandleResponse(t) ==
    LET id == content[local[t].buf].id IN
    /\ At(t, "handle") /\ content[local[t].buf].type = "response"
    /\ IF id \in DOMAIN messages
       THEN /\ messages' = [messages EXCEPT ![id].status = "completed",
                                            ![id].buffer = local[t].buf]
            /\ local' = [local EXCEPT ![t].pc = "mark", ![t].mark = messages[id].awaiter,
                                      ![t].handled = id, ![t].buf = NULL, ![t].status = 0]
       ELSE /\ local' = [local EXCEPT ![t].pc = "check", ![t].status = -1]
            /\ UNCHANGED messages
    /\ UNCHANGED <<current_message_id, current_awaiter_id, swap, awaiters, awaiter, wait_lock,
                   send_lock, pool, content, owned, ready, envVars>>

\* mark_awaiters, the lookup under awaiters_lock.
mark_awaiters(t) ==
    /\ At(t, "mark")
    /\ IF local[t].mark \in DOMAIN awaiters
       THEN local' = [local EXCEPT ![t].pc = "touch", ![t].ptr = awaiters[local[t].mark]]
       ELSE local' = [local EXCEPT ![t].pc = "exit", ![t].mark = 0]
    /\ UNCHANGED <<clientVars, owned, ready, envVars>>

\* mark_awaiters after the unlock: count, and signal the awaiter.  A freed awaiter
\* is memory that nobody reads.
TouchAwaiter(t) ==
    LET u == local[t].ptr
        live == awaiter[u].id = local[t].mark
        current == awaiter[u].current + 1
        signal == live /\ (awaiter[u].all => current = awaiter[u].count)
    IN
    /\ At(t, "touch")
    /\ awaiter' = IF live THEN [awaiter EXCEPT ![u].current = current] ELSE awaiter
    /\ local' = [v \in Thread |->
            IF v = t THEN [local[t] EXCEPT !.pc = "exit", !.mark = 0, !.ptr = NULL]
            ELSE IF v = u /\ signal /\ At(u, "asleep") THEN [local[u] EXCEPT !.pc = "remove"]
            ELSE local[v]]
    /\ UNCHANGED <<current_message_id, current_awaiter_id, messages, swap, awaiters, wait_lock,
                   send_lock, pool, content, owned, ready, envVars>>

\* listenOrExit: release the buffer (the variable keeps pointing at it), and listen
\* again when the message handled last was a response to another request.
ListenOrExit(t) ==
    LET l == local[t] IN
    /\ At(t, "exit")
    /\ pool' = IF l.buf = NULL THEN pool ELSE pool \cup {l.buf}
    /\ IF l.ctx # 0 /\ l.handled \notin {0, l.ctx}
       THEN /\ local' = [local EXCEPT ![t].pc = "check", ![t].stale = TRUE]
            /\ UNCHANGED <<owned, ready>>
       ELSE Return(t, l.status)
    /\ UNCHANGED <<current_message_id, current_awaiter_id, messages, swap, awaiters, awaiter,
                   wait_lock, send_lock, content, envVars>>

----------------------------------------------------------------------------
(* gracht_client_await_multiple over the contexts of the thread            *)

\* __awaiter_new
AwaiterNew(t) ==
    /\ At(t, "idle") /\ owned[t] # {} /\ current_awaiter_id <= MaxAwait
    /\ \E all, async \in BOOLEAN :
          /\ Uses(t, IF all THEN IF async THEN "await_all_async" ELSE "await_all"
                     ELSE IF async THEN "await_any_async" ELSE "await_any")
          /\ local' = [local EXCEPT ![t] = [Idle EXCEPT !.pc = "scan", !.ids = owned[t],
                                                        !.all = all, !.async = async]]
          /\ awaiter' = [awaiter EXCEPT ![t] = [id |-> current_awaiter_id, all |-> all,
                                                count |-> Cardinality(owned[t]), current |-> 0]]
    /\ current_awaiter_id' = current_awaiter_id + 1
    /\ UNCHANGED <<current_message_id, messages, swap, awaiters, wait_lock, send_lock, pool,
                   content, owned, ready, envVars>>

\* The section under messages_lock: count what is done, point the descriptors at the
\* awaiter, and publish it (__await_add) unless the call can return at once.
gracht_client_await_multiple(t) ==
    LET ids == local[t].ids
        current == Cardinality({id \in ids : Done(id)})
        bail == (~local[t].all /\ current > 0) \/ current = Cardinality(ids)
    IN
    /\ At(t, "scan")
    /\ messages' = [id \in DOMAIN messages |->
            IF id \in ids THEN [messages[id] EXCEPT !.awaiter = awaiter[t].id] ELSE messages[id]]
    /\ awaiter' = [awaiter EXCEPT ![t].current = current]
    /\ awaiters' = IF bail THEN awaiters ELSE Put(awaiters, awaiter[t].id, t)
    /\ Goto(t, IF bail THEN "cleanup" ELSE IF local[t].async THEN "cnd_wait" ELSE "loop")
    /\ UNCHANGED <<current_message_id, current_awaiter_id, swap, wait_lock, send_lock, pool,
                   content, owned, ready, envVars>>

\* cnd_wait, which nothing guards.
CndWait(t) ==
    /\ At(t, "cnd_wait")
    /\ Goto(t, "asleep")
    /\ UNCHANGED <<clientVars, owned, ready, envVars>>

SpuriousWakeUp(t) ==
    /\ scenario.spurious /\ At(t, "asleep")
    /\ Goto(t, "remove")
    /\ UNCHANGED <<clientVars, owned, ready, envVars>>

\* The test of __await_loop, and its call of gracht_client_wait_message.
AwaitLoop(t) ==
    /\ At(t, "loop")
    /\ local' = [local EXCEPT ![t] =
            IF awaiter[t].current < awaiter[t].count
            THEN [@ EXCEPT !.pc = "lock", !.block = TRUE, !.ret = "recount"]
            ELSE [@ EXCEPT !.pc = "remove"]]
    /\ UNCHANGED <<clientVars, owned, ready, envVars>>

\* The recount of __await_loop, under messages_lock.
Recount(t) ==
    /\ At(t, "recount")
    /\ awaiter' = [awaiter EXCEPT ![t].current = Cardinality({id \in local[t].ids : Done(id)})]
    /\ Goto(t, "loop")
    /\ UNCHANGED <<current_message_id, current_awaiter_id, messages, swap, awaiters, wait_lock,
                   send_lock, pool, content, owned, ready, envVars>>

\* __await_remove
AwaitRemove(t) ==
    /\ At(t, "remove")
    /\ awaiters' = Drop(awaiters, awaiter[t].id)
    /\ Goto(t, "cleanup")
    /\ UNCHANGED <<current_message_id, current_awaiter_id, messages, swap, awaiter, wait_lock,
                   send_lock, pool, content, owned, ready, envVars>>

\* free(awaiter) and return 0.  With GRACHT_AWAIT_ALL the contexts are reported done.
AwaitCleanup(t) ==
    /\ At(t, "cleanup")
    /\ awaiter' = [awaiter EXCEPT ![t] = NoAwaiter]
    /\ ready' = IF local[t].all THEN [ready EXCEPT ![t] = @ \cup local[t].ids] ELSE ready
    /\ local' = [local EXCEPT ![t] = Idle]
    /\ UNCHANGED <<current_message_id, current_awaiter_id, messages, swap, awaiters, wait_lock,
                   send_lock, pool, content, owned, envVars>>

----------------------------------------------------------------------------
(* Collecting a result                                                     *)

\* gracht_client_get_status_buffer up to the unlock: the descriptor is removed, and
\* what the caller gets is copied from it.
gracht_client_get_status_buffer(t) ==
    /\ At(t, "idle") /\ Uses(t, "status")
    /\ \E id \in ready[t] :
          /\ ready' = [ready EXCEPT ![t] = @ \ {id}]
          /\ owned' = [owned EXCEPT ![t] = @ \ {id}]
          /\ IF id \in DOMAIN messages
             THEN /\ swap' = messages[id]
                  /\ messages' = Drop(messages, id)
                  /\ local' = [local EXCEPT ![t] = [Idle EXCEPT !.pc = "swap_status", !.ctx = id,
                                 !.result = messages[id].status, !.buf = messages[id].buffer]]
             ELSE UNCHANGED <<swap, messages, local>>
    /\ UNCHANGED <<current_message_id, current_awaiter_id, awaiters, awaiter, wait_lock,
                   send_lock, pool, content, envVars>>

\* descriptor->status, read from the shared slot after the unlock.
SwapStatus(t) ==
    /\ At(t, "swap_status")
    /\ Goto(t, IF swap.status = "error" THEN "swap_buffer" ELSE "result")
    /\ UNCHANGED <<clientVars, owned, ready, envVars>>

\* descriptor->buffer.data, read likewise and released.
SwapBuffer(t) ==
    /\ At(t, "swap_buffer")
    /\ pool' = IF swap.buffer = NULL THEN pool ELSE pool \cup {swap.buffer}
    /\ Goto(t, "result")
    /\ UNCHANGED <<current_message_id, current_awaiter_id, messages, swap, awaiters, awaiter,
                   wait_lock, send_lock, content, owned, ready, envVars>>

\* The generated code reads a completed response and calls
\* gracht_client_status_finalize, which releases the buffer.
gracht_client_status_finalize(t) ==
    /\ At(t, "result")
    /\ pool' = IF local[t].result = "completed" THEN pool \cup {local[t].buf} ELSE pool
    /\ local' = [local EXCEPT ![t] = Idle]
    /\ UNCHANGED <<current_message_id, current_awaiter_id, messages, swap, awaiters, awaiter,
                   wait_lock, send_lock, content, owned, ready, envVars>>

----------------------------------------------------------------------------
(* The environment                                                         *)

\* The server answers a request with its response.
Respond(id) ==
    /\ open /\ id \in pending
    /\ pending' = pending \ {id}
    /\ incoming' = Append(incoming, [type |-> "response", id |-> id])
    /\ UNCHANGED <<clientVars, threadVars, open, scenario, events, errors>>

\* The server rejects a request with a control error event.
Reject(id) ==
    /\ open /\ id \in pending /\ errors < scenario.errors
    /\ pending' = pending \ {id}
    /\ incoming' = Append(incoming, [type |-> "error", id |-> id])
    /\ errors' = errors + 1
    /\ UNCHANGED <<clientVars, threadVars, open, scenario, events>>

\* The server sends an event.
SendEvent(type) ==
    /\ open /\ events < scenario.events
    /\ type = "large" => scenario.large
    /\ incoming' = Append(incoming, [type |-> type, id |-> 0])
    /\ events' = events + 1
    /\ UNCHANGED <<clientVars, threadVars, pending, open, scenario, errors>>

\* The connection is lost; what arrived can still be read.
Close ==
    /\ scenario.close /\ open
    /\ open' = FALSE
    /\ UNCHANGED <<clientVars, threadVars, pending, incoming, scenario, events, errors>>

----------------------------------------------------------------------------
Send(t) ==
    \/ gracht_client_get_buffer(t) \/ LoadMessageId(t) \/ StoreMessageId(t)
    \/ gracht_client_invoke_internal(t)

Wait(t) ==
    \/ CheckStatus(t) \/ LockWait(t)
    \/ PeekFails(t) \/ NoBuffer(t) \/ Receive(t) \/ ReceiveFails(t)
    \/ HandleEvent(t) \/ gracht_control_error_invocation(t) \/ HandleResponse(t)
    \/ mark_awaiters(t) \/ TouchAwaiter(t) \/ ListenOrExit(t)

Await(t) ==
    \/ gracht_client_await_multiple(t) \/ CndWait(t)
    \/ AwaitLoop(t) \/ Recount(t) \/ AwaitRemove(t) \/ AwaitCleanup(t)

Collect(t) ==
    \/ SwapStatus(t) \/ SwapBuffer(t) \/ gracht_client_status_finalize(t)

\* The calls an application makes, and a wake-up nobody asked for.
Call(t) ==
    \/ gracht_client_wait_message(t) \/ AwaiterNew(t) \/ gracht_client_get_status_buffer(t)
    \/ SpuriousWakeUp(t)

Server ==
    \/ \E id \in Id : Respond(id) \/ Reject(id)
    \/ \E type \in {"event", "large"} : SendEvent(type)
    \/ Close

Next ==
    \/ \E t \in Thread : Send(t) \/ Wait(t) \/ Await(t) \/ Collect(t) \/ Call(t)
    \/ Server

Spec == Init /\ [][Next]_vars

\* A call that was started goes on: its thread is scheduled, and gets the mutexes
\* that are free again and again.
ThreadFairness ==
    \A t \in Thread :
        /\ WF_vars(Wait(t) \/ Await(t) \/ Collect(t))
        /\ SF_vars(LockWait(t))

\* A thread that only pumps keeps calling gracht_client_wait_message.
PumpFairness ==
    \A t \in Thread :
        WF_vars(scenario.calls[t] = {"pump"} /\ gracht_client_wait_message(t))

FairSpec == Spec /\ ThreadFairness /\ PumpFairness

----------------------------------------------------------------------------
(* Properties                                                              *)

\* The places that account for a receive buffer: the pool, a descriptor, a call in
\* progress that will release it or hand it on, or a result being read.
HeldBy(t, b) ==
    /\ local[t].buf = b
    /\ IF local[t].pc \in {"swap_status", "swap_buffer", "result"}
       THEN local[t].result = "completed"
       ELSE ~local[t].stale \/ local[t].pc = "exit"

Owners(b) ==
    Cardinality({p \in {pool} : b \in p})
        + Cardinality({id \in DOMAIN messages : messages[id].buffer = b})
        + Cardinality({t \in Thread : HeldBy(t, b)})

\* A receive buffer has one owner: every path of gracht_client_wait_message either
\* releases the buffer it acquired, once, or leaves it with a descriptor from which a
\* result will collect and release it.  None is lost, and none is shared.
OneOwner == \A b \in Buffer : Owners(b) = 1

\* When gracht_client_wait_message with a context, or gracht_client_await_multiple with
\* GRACHT_AWAIT_ALL, returns 0, the messages waited for have been answered, and their
\* results stay available until they are collected.
ReadyMeansExecuted ==
    \A t \in Thread : \A id \in ready[t] :
        id \in DOMAIN messages /\ Executed(messages[id].status)

Reading(id) ==
    {t \in Thread : local[t].pc \in {"swap_status", "swap_buffer", "result"} /\ local[t].ctx = id}

\* What a thread that looks at a descriptor, or at its copy, gets to see.
Answer(status, buffer) ==
    CASE status = "completed" -> content[buffer].id
      [] status = "error" -> -1
      [] OTHER -> 0

\* The state of a request for RemoteCalls, and its answer.
Phase(id) ==
    IF id \in DOMAIN messages
    THEN IF Executed(messages[id].status) THEN "answered" ELSE "pending"
    ELSE IF Reading(id) # {} THEN "reading" ELSE "none"

AnswerTo(id) ==
    IF id \in DOMAIN messages THEN Answer(messages[id].status, messages[id].buffer)
    ELSE IF Reading(id) = {} THEN 0
    ELSE LET t == CHOOSE t \in Reading(id) : TRUE IN Answer(local[t].result, local[t].buf)

Calls == INSTANCE RemoteCalls WITH
    Request <- Id, None <- 0, Rejected <- -1,
    phase <- [id \in Id |-> Phase(id)], answer <- [id \in Id |-> AnswerTo(id)]

\* The client implements RemoteCalls.  __handle_response and the error handler
\* decide a message once, with the response to its own request; the descriptor
\* keeps it until a result removes it; and no later message gets into the
\* receive buffer while the result is read.
IsRemoteCalls == Calls!Spec

\* mark_awaiters only touches an awaiter that gracht_client_await_multiple has not
\* freed yet.
AwaiterAlive ==
    \A t \in Thread : local[t].pc = "touch" => awaiter[local[t].ptr].id = local[t].mark

\* A blocking gracht_client_wait_message for a context returns once the answer is on
\* the connection or has been handled.
Answered(id) == Done(id) \/ \E i \in DOMAIN incoming : incoming[i].id = id

WaitReturns ==
    \A t \in Thread, id \in Id :
        (local[t].block /\ local[t].ctx = id /\ Answered(id)) ~> local[t].ctx # id

Awaited(t) ==
    local[t].ids # {} /\ local[t].all /\ \A id \in local[t].ids : Answered(id)

\* A synchronous gracht_client_await_multiple with GRACHT_AWAIT_ALL returns once all the
\* messages have been answered.
AwaitAllReturns ==
    \A t \in Thread : (Awaited(t) /\ ~local[t].async) ~> local[t].ids = {}

\* The same with GRACHT_AWAIT_ASYNC, beside a thread that pumps messages.
AsyncAwaitReturns ==
    \A t \in Thread : (Awaited(t) /\ local[t].async) ~> local[t].ids = {}

\* gracht_client_await_multiple with GRACHT_AWAIT_ANY returns once one of the messages
\* has been answered.
AwaitAnyReturns ==
    \A t \in Thread :
        (local[t].ids # {} /\ ~local[t].all /\ \E id \in local[t].ids : Answered(id))
            ~> local[t].ids = {}

\* gracht_client_await_multiple returns when the connection is lost.
AwaitReportsClose ==
    \A t \in Thread : (local[t].ids # {} /\ ~open) ~> local[t].ids = {}

=============================================================================
