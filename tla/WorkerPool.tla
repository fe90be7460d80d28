----------------------------- MODULE WorkerPool -----------------------------
(***************************************************************************)
(* The multi-threaded dispatcher of runtime/dispatch_generic.c: the main   *)
(* thread of the server hands received messages round-robin to worker      *)
(* threads, each with its own bounded job queue, mutex and condition       *)
(* variable, and finally shuts the workers down one after the other.       *)
(*                                                                         *)
(* A message is a number, its rank in the order of dispatch; 0 is the NULL *)
(* pointer.  A mutex section that ends in an unlock is one step.  The only *)
(* place a worker stops while it holds its mutex is between finding its    *)
(* queue empty and calling cnd_wait, so "pc[w] = empty" is "the mutex of w *)
(* is held"; the main thread changes worker->state without the mutex, and  *)
(* signals after releasing it, and those are steps of their own.           *)
(***************************************************************************)
EXTENDS Integers, Sequences, FiniteSets

CONSTANTS WorkerCount,  \* server_workers
          QueueSize,    \* SERVER_WORKER_DEFAULT_QUEUE_SIZE (32 in the code)
          LastMessage,  \* bound: how many messages the main thread dispatches
          Spurious      \* whether cnd_wait may return without a signal

ASSUME WorkerPoolAssumption ==
    /\ WorkerCount \in Nat \ {0}
    /\ QueueSize \in Nat \ {0}
    /\ LastMessage \in Nat
    /\ Spurious \in BOOLEAN

Worker == 0 .. WorkerCount - 1
Message == 1 .. LastMessage
NULL == 0

\* configure_server creates recv_pool with this many buffers: no more
\* messages than that are between gracht_buffer_pool_acquire and _release.
BufferCount == WorkerCount * QueueSize

VARIABLES
    main,        \* where the main thread is: in the event loop or in destroy
    target,      \* the worker that dispatch or destroy is busy with
    rr_index,    \* round-robin index of the pool
    next,        \* the next message to dispatch
    job_queue,   \* per worker, the queued messages
    state,       \* per worker, enum gracht_worker_state
    pc,          \* per worker, where it is in worker_dowork
    job,         \* per worker, the message it has in its hands, or NULL
    handled,     \* per worker, the messages it has invoked, in order
    cleaned,     \* per message, how often server_cleanup_message released it
    dropped      \* messages the full queue refused: nobody has them any more

mainVars   == <<main, target, rr_index, next, dropped>>
workerVars == <<pc, job, handled, cleaned>>
vars == <<mainVars, workerVars, job_queue, state>>

TypeOK ==
    /\ main \in {"ready", "signal", "request", "wake", "join", "destroyed",
                "crashed"}
    /\ target \in 0 .. WorkerCount
    /\ rr_index \in Worker
    /\ next \in 1 .. LastMessage + 1
    /\ job_queue \in [Worker -> Seq(Message)]
    /\ \A w \in Worker : Len(job_queue[w]) <= QueueSize
    /\ state \in [Worker -> {"STARTUP", "ALIVE", "SHUTDOWN_REQUEST", "SHUTDOWN"}]
    /\ pc \in [Worker -> {"startup", "loop", "empty", "waiting", "woken", "invoke",
                          "cleanup", "check", "drain", "exited", "crashed"}]
    /\ job \in [Worker -> Message \cup {NULL}]
    /\ handled \in [Worker -> Seq(Message)]
    /\ cleaned \in [Message -> Nat]
    /\ dropped \subseteq Message

\* After gracht_worker_pool_create.
Init ==
    /\ main = "ready"
    /\ target = 0
    /\ rr_index = 0
    /\ next = 1
    /\ job_queue = [w \in Worker |-> <<>>]
    /\ state = [w \in Worker |-> "STARTUP"]
    /\ pc = [w \in Worker |-> "startup"]
    /\ job = [w \in Worker |-> NULL]
    /\ handled = [w \in Worker |-> <<>>]
    /\ cleaned = [m \in Message |-> 0]
    /\ dropped = {}

MutexFree(w) == pc[w] # "empty"

\* cnd_signal: the worker is the only thread that waits on its condition.
Signal(w) == pc' = IF pc[w] = "waiting" THEN [pc EXCEPT ![w] = "woken"] ELSE pc

InFlight == {m \in Message : m < next /\ cleaned[m] = 0}

-----------------------------------------------------------------------------
\* Mutants, used only to show that the properties below can fail.

\* A full queue makes room by overwriting its last message.
dispatch_overwrites ==
    /\ main = "ready"
    /\ next <= LastMessage
    /\ Cardinality(InFlight) < BufferCount
    /\ MutexFree(rr_index)
    /\ job_queue' = [job_queue EXCEPT ![rr_index] =
                        IF Len(@) < QueueSize THEN Append(@, next) ELSE [@ EXCEPT ![QueueSize] = next]]
    /\ next' = next + 1
    /\ target' = rr_index
    /\ main' = "signal"
    /\ UNCHANGED <<rr_index, dropped, workerVars, state>>

\* dispatch does not signal the worker.
dispatch_no_signal ==
    /\ main = "signal"
    /\ rr_index' = IF rr_index + 1 = WorkerCount THEN 0 ELSE rr_index + 1
    /\ main' = "ready"
    /\ UNCHANGED <<target, next, dropped, job_queue, state, workerVars>>

\* destroy does not wait for the worker to return.
destroy_no_join ==
    /\ main = "join"
    /\ target' = target + 1
    /\ main' = IF target + 1 = WorkerCount THEN "destroyed" ELSE "request"
    /\ UNCHANGED <<rr_index, next, dropped, workerVars, job_queue, state>>

\* The newest message is dequeued instead of the oldest.
dequeue_newest(w) ==
    /\ pc[w] = "loop"
    /\ LET q == job_queue[w] IN
       IF q # <<>>
       THEN /\ job' = [job EXCEPT ![w] = q[Len(q)]]
            /\ job_queue' = [job_queue EXCEPT ![w] = SubSeq(q, 1, Len(q) - 1)]
            /\ pc' = [pc EXCEPT ![w] = "invoke"]
       ELSE /\ pc' = [pc EXCEPT ![w] = "empty"]
            /\ UNCHANGED <<job, job_queue>>
    /\ UNCHANGED <<mainVars, state, handled, cleaned>>

\* The message is read from the queue but stays in it.
dequeue_peeks(w) ==
    /\ pc[w] = "loop"
    /\ IF job_queue[w] # <<>>
       THEN /\ job' = [job EXCEPT ![w] = Head(job_queue[w])]
            /\ pc' = [pc EXCEPT ![w] = "invoke"]
       ELSE /\ pc' = [pc EXCEPT ![w] = "empty"]
            /\ UNCHANGED job
    /\ UNCHANGED <<mainVars, job_queue, state, handled, cleaned>>

-----------------------------------------------------------------------------
\* The main thread.

\* gracht_worker_pool_dispatch up to the unlock.  The result of
\* gr_queue_enqueue is ignored: a full queue drops the message.
gracht_worker_pool_dispatch ==
    /\ main = "ready"
    /\ next <= LastMessage
    /\ Cardinality(InFlight) < BufferCount
    /\ MutexFree(rr_index)
    /\ \/ /\ Len(job_queue[rr_index]) < QueueSize
          /\ job_queue' = [job_queue EXCEPT ![rr_index] = Append(@, next)]
          /\ UNCHANGED dropped
       \/ /\ Len(job_queue[rr_index]) = QueueSize
          /\ dropped' = dropped \cup {next}
          /\ UNCHANGED job_queue
    /\ next' = next + 1
    /\ target' = rr_index
    /\ main' = "signal"
    /\ UNCHANGED <<rr_index, workerVars, state>>

\* The rest of gracht_worker_pool_dispatch: signal, then advance rr_index.
DispatchSignal ==
    /\ main = "signal"
    /\ Signal(target)
    /\ rr_index' = IF rr_index + 1 = WorkerCount THEN 0 ELSE rr_index + 1
    /\ main' = "ready"
    /\ UNCHANGED <<target, next, dropped, job_queue, state, job, handled, cleaned>>

\* gracht_worker_pool_destroy, for one worker after the other: request ...
gracht_worker_pool_destroy ==
    /\ \/ main = "ready" /\ target' = 0
       \/ main = "request" /\ target < WorkerCount /\ UNCHANGED target
    /\ state' = [state EXCEPT ![target'] = "SHUTDOWN_REQUEST"]
    /\ main' = "wake"
    /\ UNCHANGED <<rr_index, next, dropped, workerVars, job_queue>>

\* ... signal ...
ShutdownSignal ==
    /\ main = "wake"
    /\ Signal(target)
    /\ main' = "join"
    /\ UNCHANGED <<target, rr_index, next, dropped, job_queue, state, job, handled, cleaned>>

\* ... and join: thrd_join returns when the thread has, cleanup_worker destroys
\* its queue, and the loop goes on to the next worker or ends.
JoinWorker ==
    /\ main = "join"
    /\ pc[target] = "exited"
    /\ target' = target + 1
    /\ main' = IF target + 1 = WorkerCount THEN "destroyed" ELSE "request"
    /\ UNCHANGED <<rr_index, next, dropped, workerVars, job_queue, state>>

-----------------------------------------------------------------------------
\* A worker thread: worker_dowork.

\* The thread begins; it announces itself without looking at the state.
Startup(w) ==
    /\ pc[w] = "startup"
    /\ state' = [state EXCEPT ![w] = "ALIVE"]
    /\ pc' = [pc EXCEPT ![w] = "loop"]
    /\ UNCHANGED <<mainVars, job_queue, job, handled, cleaned>>

\* Lock and dequeue: with a job, unlock and go on; without one, keep the mutex.
Dequeue(w) ==
    /\ pc[w] = "loop"
    /\ IF job_queue[w] # <<>>
       THEN /\ job' = [job EXCEPT ![w] = Head(job_queue[w])]
            /\ job_queue' = [job_queue EXCEPT ![w] = Tail(@)]
            /\ pc' = [pc EXCEPT ![w] = "invoke"]
       ELSE /\ pc' = [pc EXCEPT ![w] = "empty"]
            /\ UNCHANGED <<job, job_queue>>
    /\ UNCHANGED <<mainVars, state, handled, cleaned>>

\* cnd_wait: release the mutex and sleep.
Wait(w) ==
    /\ pc[w] = "empty"
    /\ pc' = [pc EXCEPT ![w] = "waiting"]
    /\ UNCHANGED <<mainVars, job_queue, state, job, handled, cleaned>>

\* cnd_wait may return without a signal.
SpuriousWakeUp(w) ==
    /\ Spurious
    /\ pc[w] = "waiting"
    /\ pc' = [pc EXCEPT ![w] = "woken"]
    /\ UNCHANGED <<mainVars, job_queue, state, job, handled, cleaned>>

\* cnd_wait returns with the mutex: leave on a shutdown request, otherwise
\* dequeue a second time (perhaps nothing) and unlock.
Woken(w) ==
    /\ pc[w] = "woken"
    /\ \/ /\ state[w] = "SHUTDOWN_REQUEST"
          /\ state' = [state EXCEPT ![w] = "SHUTDOWN"]
          /\ pc' = [pc EXCEPT ![w] = "drain"]
          /\ UNCHANGED <<job, job_queue>>
       \/ /\ state[w] # "SHUTDOWN_REQUEST"
          /\ job' = [job EXCEPT ![w] = IF job_queue[w] = <<>> THEN NULL ELSE Head(job_queue[w])]
          /\ job_queue' = [job_queue EXCEPT ![w] = IF @ = <<>> THEN @ ELSE Tail(@)]
          /\ pc' = [pc EXCEPT ![w] = "invoke"]
          /\ UNCHANGED state
    /\ UNCHANGED <<mainVars, handled, cleaned>>

\* server_invoke_action: reads the message header, so NULL ends the process.
server_invoke_action(w) ==
    /\ pc[w] = "invoke"
    /\ \/ /\ job[w] = NULL
          /\ main' = "crashed"
          /\ pc' = [v \in Worker |-> "crashed"]
          /\ UNCHANGED handled
       \/ /\ job[w] # NULL
          /\ handled' = [handled EXCEPT ![w] = Append(@, job[w])]
          /\ pc' = [pc EXCEPT ![w] = "cleanup"]
          /\ UNCHANGED main
    /\ UNCHANGED <<target, rr_index, next, dropped, job_queue, state, job, cleaned>>

\* server_cleanup_message puts the buffer back into its pool.
server_cleanup_message(w) ==
    /\ pc[w] = "cleanup"
    /\ cleaned' = [cleaned EXCEPT ![job[w]] = @ + 1]
    /\ job' = [job EXCEPT ![w] = NULL]
    /\ pc' = [pc EXCEPT ![w] = "check"]
    /\ UNCHANGED <<mainVars, job_queue, state, handled>>

\* The state is looked at once more at the end of an iteration.
CheckState(w) ==
    /\ pc[w] = "check"
    /\ \/ /\ state[w] = "SHUTDOWN_REQUEST"
          /\ state' = [state EXCEPT ![w] = "SHUTDOWN"]
          /\ pc' = [pc EXCEPT ![w] = "drain"]
       \/ /\ state[w] # "SHUTDOWN_REQUEST"
          /\ pc' = [pc EXCEPT ![w] = "loop"]
          /\ UNCHANGED state
    /\ UNCHANGED <<mainVars, job_queue, job, handled, cleaned>>

\* On the way out the remaining messages are released without being handled.
Drain(w) ==
    /\ pc[w] = "drain"
    /\ \/ /\ job_queue[w] # <<>>
          /\ cleaned' = [cleaned EXCEPT ![Head(job_queue[w])] = @ + 1]
          /\ job_queue' = [job_queue EXCEPT ![w] = Tail(@)]
          /\ UNCHANGED pc
       \/ /\ job_queue[w] = <<>>
          /\ pc' = [pc EXCEPT ![w] = "exited"]
          /\ UNCHANGED <<cleaned, job_queue>>
    /\ UNCHANGED <<mainVars, state, job, handled>>

WorkerStep(w) ==
    \/ Startup(w) \/ Dequeue(w) \/ Wait(w) \/ Woken(w)
    \/ server_invoke_action(w) \/ server_cleanup_message(w)
    \/ CheckState(w) \/ Drain(w)

MainStep ==
    \/ gracht_worker_pool_dispatch \/ DispatchSignal
    \/ gracht_worker_pool_destroy \/ ShutdownSignal \/ JoinWorker

Next == MainStep \/ \E w \in Worker : WorkerStep(w) \/ SpuriousWakeUp(w)

Spec == Init /\ [][Next]_vars

\* Every thread is scheduled; whether the server is ever asked to dispatch or
\* to shut down is up to its environment.
FairSpec ==
    /\ Spec
    /\ WF_vars(DispatchSignal \/ ShutdownSignal \/ JoinWorker)
    /\ WF_vars(main = "request" /\ gracht_worker_pool_destroy)
    /\ \A w \in Worker : WF_vars(WorkerStep(w))

-----------------------------------------------------------------------------
InQueue(w, m) == \E i \in 1 .. Len(job_queue[w]) : job_queue[w][i] = m

\* No message is in two places: a message sits in one queue slot at most, or in
\* the hands of one worker, and nowhere once it has been released or refused.
\* No buffer is released twice, and none while a worker still uses it.
UniqueOwner ==
    /\ \A w, v \in Worker :
          \A i \in 1 .. Len(job_queue[w]), j \in 1 .. Len(job_queue[v]) :
              job_queue[w][i] = job_queue[v][j] => w = v /\ i = j
    /\ \A w, v \in Worker :
          job[w] # NULL => (job[w] = job[v] => w = v) /\ ~InQueue(v, job[w])
    /\ \A m \in Message :
          /\ cleaned[m] <= 1
          /\ m \in dropped => cleaned[m] = 0
          /\ (cleaned[m] = 1 \/ m \in dropped \/ m >= next) =>
                 \A w \in Worker : job[w] # m /\ ~InQueue(w, m)

\* No message disappears: until it is released, a message that a queue accepted
\* is in that queue or in the hands of a worker.
Accounted ==
    \A m \in Message :
        m < next => \/ cleaned[m] = 1
                    \/ m \in dropped
                    \/ \E w \in Worker : job[w] = m \/ InQueue(w, m)

\* Each worker invokes the messages the round robin gave it, each at most once
\* and in the order of dispatch.
HandledInOrder ==
    \A w \in Worker :
        /\ \A i \in 1 .. Len(handled[w]) : (handled[w][i] - 1) % WorkerCount = w
        /\ \A i, j \in 1 .. Len(handled[w]) : i < j => handled[w][i] < handled[w][j]

\* "Any outstanding messages will be destroyed" (include/server_private.h):
\* when gracht_worker_pool_destroy returns, every message a queue accepted has
\* been released, exactly once.
OutstandingDestroyed ==
    main = "destroyed" => \A m \in Message : m < next /\ m \notin dropped => cleaned[m] = 1

\* No dispatch is forgotten: a message in a job queue is eventually released,
\* whatever signals the worker missed while it was busy.
QueuedGetsHandled ==
    \A m \in Message : (\E w \in Worker : InQueue(w, m)) ~> (cleaned[m] = 1 \/ main = "crashed")

\* The commented assert in worker_dowork: after the wait there is a job.
JobAfterWakeup == \A w \in Worker : pc[w] = "invoke" => job[w] # NULL

\* gracht_worker_pool_destroy "handles shutdown of all workers": it returns.
DestroyReturns == (main = "wake") ~> (main \in {"destroyed", "crashed"})

\* gracht_worker_pool_dispatch "dispatches the recieved message to a ready
\* worker": no message is thrown away while buffers are left.
NothingDropped == dropped = {}
=============================================================================
