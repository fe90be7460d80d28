-------------------------------- MODULE Fifo --------------------------------
(***************************************************************************)
(* What runtime/queue.c promises its callers: each queue is first-in       *)
(* first-out, refuses an element when it is full and returns NULL when it  *)
(* is empty.                                                               *)
(***************************************************************************)
EXTENDS Integers, Sequences

CONSTANTS Queue, Capacity, Value, NULL

VARIABLES items,   \* per queue, the queued elements, oldest first
          result   \* per queue, what the last operation returned

Init == items = [q \in Queue |-> <<>>] /\ result = [q \in Queue |-> 0]

Change(q, s, r) ==
    /\ items' = [items EXCEPT ![q] = s]
    /\ result' = [result EXCEPT ![q] = r]

Enqueue(q, v) ==
    \/ Len(items[q]) < Capacity /\ Change(q, Append(items[q], v), 0)
    \/ Len(items[q]) = Capacity /\ Change(q, items[q], -1)

Dequeue(q) ==
    \/ items[q] # <<>> /\ Change(q, Tail(items[q]), Head(items[q]))
    \/ items[q] = <<>> /\ Change(q, <<>>, NULL)

Next == \E q \in Queue : Dequeue(q) \/ \E v \in Value : Enqueue(q, v)

Spec == Init /\ [][Next]_<<items, result>>
=============================================================================
