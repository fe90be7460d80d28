--------------------------- MODULE MCLockFreeStack ---------------------------
(* LockFreeStack for TLC: three buffers, so that a stack of one slot grows    *)
(* twice, and three threads where nothing serialises them.                    *)
EXTENDS LockFreeStack

CONSTANTS t1, t2, t3

\* The stream pools, under stream_pools_lock.
Pool ==
    [acquirer |-> {t1, t2}, releaser |-> {t1, t2}, initialCount |-> 3, prefilled |-> TRUE,
     serialised |-> TRUE]

\* The send buffers, as long as no two threads use them at the same time.
SendBuffers == [Pool EXCEPT !.initialCount = 1, !.prefilled = FALSE]

\* Threads that acquire without a lock while nothing is released.
PopOnly == [Pool EXCEPT !.acquirer = {t1, t2, t3}, !.releaser = {}, !.serialised = FALSE]

Safe == {Pool, SendBuffers, PopOnly}

\* The usages of the disagreements that the README lists.
Growing == {SendBuffers}
RecvPool == {[Pool EXCEPT !.acquirer = {t1}, !.releaser = {t2}, !.serialised = FALSE]}
=============================================================================
