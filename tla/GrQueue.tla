------------------------------ MODULE GrQueue -------------------------------
(***************************************************************************)
(* runtime/queue.c: the ring buffer behind a worker's queue of messages.   *)
(* queue_index and dequeue_index are unsigned integers that are never      *)
(* reset: they count every element that ever passed and wrap around, here  *)
(* at Wrap (2^32 in the code).  PoolQueues puts one such ring under every  *)
(* worker of WorkerPool.                                                   *)
(***************************************************************************)
EXTENDS Integers, Sequences

CONSTANTS Queue,     \* the queues of the program
          Capacity,  \* queue->capacity
          Wrap,      \* an unsigned int is counted modulo Wrap
          Value,     \* pointers that are queued
          NULL,
          Garbage    \* what malloc and free leave in the elements

\* SERVER_WORKER_DEFAULT_QUEUE_SIZE is a power of two, so it divides 2^32.
QueueAssumption ==
    /\ Capacity \in Nat \ {0} /\ Wrap \in Nat
    /\ Wrap > Capacity /\ Wrap % Capacity = 0
    /\ NULL \notin Value \cup {Garbage} /\ Garbage \notin Value

VARIABLES elements, queue_index, dequeue_index,  \* struct gr_queue, per queue
          result                                 \* of the last call, per queue

Slot == 0 .. Capacity - 1

Returns(q, r) == result' = [result EXCEPT ![q] = r]

\* gr_queue_construct.
Init ==
    /\ elements = [q \in Queue |-> [i \in Slot |-> Garbage]]
    /\ queue_index = [q \in Queue |-> 0] /\ dequeue_index = [q \in Queue |-> 0]
    /\ result = [q \in Queue |-> 0]

\* Arithmetic on unsigned integers.
Queued(q) == (queue_index[q] - dequeue_index[q]) % Wrap

\* Mutated form: the test for space compares the bare indices, which is wrong
\* once one of them has wrapped around.
remaining_no_wrap(q) == Capacity - (queue_index[q] - dequeue_index[q])

capacity_remaining(q) == Capacity - Queued(q)

EnqueueStores(q, v) ==
    /\ capacity_remaining(q) # 0
    /\ elements' = [elements EXCEPT ![q][queue_index[q] % Capacity] = v]
    /\ queue_index' = [queue_index EXCEPT ![q] = (@ + 1) % Wrap]
    /\ Returns(q, 0)
    /\ UNCHANGED dequeue_index

EnqueueFull(q) ==
    /\ capacity_remaining(q) = 0
    /\ Returns(q, -1)
    /\ UNCHANGED <<elements, queue_index, dequeue_index>>

gr_queue_enqueue(q, v) == EnqueueStores(q, v) \/ EnqueueFull(q)

DequeueTakes(q) ==
    /\ dequeue_index[q] # queue_index[q]
    /\ Returns(q, elements[q][dequeue_index[q] % Capacity])
    /\ dequeue_index' = [dequeue_index EXCEPT ![q] = (@ + 1) % Wrap]
    /\ UNCHANGED <<elements, queue_index>>

DequeueEmpty(q) ==
    /\ dequeue_index[q] = queue_index[q]
    /\ Returns(q, NULL)
    /\ UNCHANGED <<elements, queue_index, dequeue_index>>

gr_queue_dequeue(q) == DequeueTakes(q) \/ DequeueEmpty(q)

\* The elements are freed; the indices stay, in memory of the owner.
gr_queue_destroy(q) ==
    /\ elements' = [elements EXCEPT ![q] = [i \in Slot |-> Garbage]]
    /\ UNCHANGED <<queue_index, dequeue_index, result>>

-----------------------------------------------------------------------------
\* The queued elements, oldest first.
Items == [q \in Queue |->
            [i \in 1 .. Queued(q) |-> elements[q][(dequeue_index[q] + i - 1) % Capacity]]]

F == INSTANCE Fifo WITH items <- Items
=============================================================================
