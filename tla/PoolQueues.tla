----------------------------- MODULE PoolQueues -----------------------------
(***************************************************************************)
(* The worker pool over its real queues: every step of WorkerPool that     *)
(* touches the job queue of a worker is taken together with the call of    *)
(* runtime/queue.c that it makes.  WorkerPool sees the sequence job_queue, *)
(* the calls see the ring; the properties say that the two never differ.   *)
(***************************************************************************)
EXTENDS WorkerPool

CONSTANTS Wrap,    \* the ring indices are counted modulo Wrap
          Garbage  \* contents of memory nobody has written

VARIABLES elements, queue_index, dequeue_index, result

Ring == INSTANCE GrQueue WITH Queue <- Worker, Capacity <- QueueSize, Value <- Message

ASSUME RingAssumption == Ring!QueueAssumption

ringVars == <<elements, queue_index, dequeue_index, result>>
allVars == <<vars, ringVars>>

PoolInit == Init /\ Ring!Init

\* gracht_worker_pool_dispatch queues for the worker of the round robin.
DispatchQueues == gracht_worker_pool_dispatch /\ Ring!gr_queue_enqueue(rr_index, next)

\* cleanup_worker destroys the queue of a worker that has been joined.
JoinCleansUp == JoinWorker /\ Ring!gr_queue_destroy(target)

\* A worker dequeues at the top of its loop, after a wake-up that is not a
\* request to shut down, and while it drains the queue on its way out.
WorkerDequeues(w) ==
    /\ \/ Dequeue(w)
       \/ Woken(w) /\ state[w] # "SHUTDOWN_REQUEST"
       \/ Drain(w)
    /\ Ring!gr_queue_dequeue(w)

WorkerElsewhere(w) ==
    /\ \/ Startup(w) \/ Wait(w) \/ server_invoke_action(w) \/ server_cleanup_message(w)
       \/ CheckState(w)
       \/ Woken(w) /\ state[w] = "SHUTDOWN_REQUEST"
    /\ UNCHANGED ringVars

Signals == (DispatchSignal \/ ShutdownSignal) /\ UNCHANGED ringVars

Destroys == gracht_worker_pool_destroy /\ UNCHANGED ringVars

PoolNext ==
    \/ DispatchQueues \/ Signals \/ Destroys \/ JoinCleansUp
    \/ \E w \in Worker :
          \/ WorkerDequeues(w) \/ WorkerElsewhere(w)
          \/ SpuriousWakeUp(w) /\ UNCHANGED ringVars

\* The fairness of FairSpec, for the steps that include the calls.
PoolSpec ==
    /\ PoolInit /\ [][PoolNext]_allVars
    /\ WF_allVars(Signals \/ JoinCleansUp)
    /\ WF_allVars(main = "request" /\ Destroys)
    /\ \A w \in Worker : WF_allVars(WorkerDequeues(w) \/ WorkerElsewhere(w))

-----------------------------------------------------------------------------
\* The ring of a worker is the queue the dispatcher reckons with, for as long
\* as anybody uses it: gr_queue_enqueue and gr_queue_dequeue refuse, keep and
\* return exactly what a bounded first-in first-out queue does, also when one of
\* the indices has wrapped around and the other one has not, and the elements
\* that are in it are the messages that WorkerPool believes to be there.
RingIsJobQueue ==
    /\ Ring!F!Spec
    /\ [](Ring!Items = job_queue)
=============================================================================
