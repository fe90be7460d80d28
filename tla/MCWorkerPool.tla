---------------------------- MODULE MCWorkerPool ----------------------------
(* PoolQueues for TLC: two workers and queues of two messages.  Five       *)
(* messages let both queues fill while each worker has a job in its hands, *)
(* seven overflow one queue while buffers are left, and eleven fill a ring *)
(* again after the wrap of its indices, here at four.                      *)
EXTENDS PoolQueues
=============================================================================
