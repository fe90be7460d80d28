-------------------------- MODULE WorkerPoolProofs --------------------------
(***************************************************************************)
(* Proofs about WorkerPool and the rings under it, for any number of       *)
(* workers, any queue size and any number of messages: a message has one   *)
(* owner at a time, is not lost once a queue has accepted it, is released  *)
(* when the pool has been destroyed, and is handled in the order of        *)
(* dispatch; and the ring of runtime/queue.c under every worker is the     *)
(* first-in first-out queue that runtime/dispatch_generic.c takes it for.  *)
(*                                                                         *)
(* None of this is inductive.  A dequeue overwrites the worker's job,      *)
(* which loses nothing because a worker that gets there holds no message;  *)
(* a dispatched message is new because none is queued, released or refused *)
(* ahead of its turn; and destroy leaves nothing behind because a worker   *)
(* exits with an empty queue and nothing is dispatched once the first one  *)
(* was asked to leave.  PoolInv says so, in terms of the set of queued     *)
(* messages: only two lemmas look into the sequences.                      *)
(*                                                                         *)
(* For the order: what a worker has handled, the message in its hands and  *)
(* its queue form one line, in which the numbers of the messages grow.  A  *)
(* dispatched message is newer than all of them, and what leaves the queue *)
(* was the oldest in it.  That the messages in the line are those of the   *)
(* worker follows from rr_index, which advances only after the signal and  *)
(* is therefore one step behind the message count in between.              *)
(*                                                                         *)
(* For the rings: RingInv relates the slots between the two indices to the *)
(* sequence job_queue of WorkerPool.  One lemma per call of the queue      *)
(* shows that the call and the step of the pool that makes it change both  *)
(* in the same way.  The wrap around of the indices is all in the lemmas   *)
(* about remainders, which need a capacity that divides their range.       *)
(* Destroying a queue preserves RingInv only because the queue of a joined *)
(* worker is empty, which is part of PoolInv.                              *)
(***************************************************************************)
EXTENDS PoolQueues, SequenceTheorems, TLAPS

-----------------------------------------------------------------------------
(* One owner, nothing lost                                                 *)

queued == [w \in Worker |-> {job_queue[w][i] : i \in 1 .. Len(job_queue[w])}]

\* A message occupies one slot of a queue.
UniqueSlots ==
    \A w \in Worker : \A i, j \in 1 .. Len(job_queue[w]) :
        job_queue[w][i] = job_queue[w][j] => i = j

\* A message is in one queue or in one pair of hands.
OnePlace ==
    \A w, v \in Worker :
        /\ w # v => queued[w] \cap queued[v] = {}
        /\ job[w] # NULL => (job[w] = job[v] => w = v) /\ job[w] \notin queued[v]

\* The messages that no queue and no worker has.
nowhere == {m \in Message : \A w \in Worker : job[w] # m /\ m \notin queued[w]}

\* A message that was released, refused or not dispatched yet is nowhere; any other
\* one is somewhere.
Ledger ==
    \A m \in Message :
        /\ cleaned[m] \in {0, 1}
        /\ m \in dropped => cleaned[m] = 0
        /\ m >= next => cleaned[m] = 0 /\ m \notin dropped
        /\ m \in nowhere <=> cleaned[m] = 1 \/ m \in dropped \/ m >= next

\* A worker has a message only while it invokes the handler and cleans up.
JobByPc ==
    \A w \in Worker :
        /\ pc[w] \notin {"invoke", "cleanup", "crashed"} => job[w] = NULL
        /\ pc[w] = "cleanup" => job[w] # NULL

\* The workers leave one after the other, with an empty queue, and only once
\* destroy has begun.
ExitOrder ==
    /\ main \in {"signal", "request", "wake", "join"} => target \in Worker
    /\ main \in {"ready", "signal"} =>
           \A w \in Worker : /\ pc[w] \notin {"drain", "exited"}
                             /\ state[w] \in {"STARTUP", "ALIVE"}
    /\ main \in {"request", "wake", "join"} => \A w \in Worker : w < target => pc[w] = "exited"
    /\ main = "destroyed" => \A w \in Worker : pc[w] = "exited"
    /\ \A w \in Worker : pc[w] = "exited" => job_queue[w] = <<>>

PoolInv == TypeOK /\ UniqueSlots /\ OnePlace /\ Ledger /\ JobByPc /\ ExitOrder

-----------------------------------------------------------------------------
\* One worker's queue is replaced by r, the others stay.
OnlyQueue(w, r) == job_queue' = [job_queue EXCEPT ![w] = r]

\* The queued messages after such a step, when r holds no message twice.
LEMMA ReplaceQueue ==
    ASSUME TypeOK, UniqueSlots, NEW w \in Worker, NEW r, OnlyQueue(w, r),
           \A i, j \in 1 .. Len(r) : r[i] = r[j] => i = j
    PROVE  /\ \A v \in Worker :
                  queued'[v] = IF v = w THEN {r[i] : i \in 1 .. Len(r)} ELSE queued[v]
           /\ UniqueSlots'
<1>1. job_queue'[w] = r /\ \A v \in Worker : v # w => job_queue'[v] = job_queue[v]
  BY Zenon DEF OnlyQueue, TypeOK
<1>2. ASSUME NEW v \in Worker
      PROVE  queued'[v] = IF v = w THEN {r[i] : i \in 1 .. Len(r)} ELSE queued[v]
  BY <1>1 DEF queued
<1>3. ASSUME NEW v \in Worker
      PROVE  \A i, j \in 1 .. Len(job_queue'[v]) : job_queue'[v][i] = job_queue'[v][j] => i = j
  BY <1>1, Zenon DEF UniqueSlots
<1>4. QED
  BY <1>2, <1>3, Zenon DEF UniqueSlots

\* What gr_queue_dequeue does to a queue that is not empty: the head leaves it,
\* and was in no other slot.
LEMMA TakeHead ==
    ASSUME TypeOK, UniqueSlots, NEW w \in Worker, job_queue[w] # <<>>,
           OnlyQueue(w, Tail(job_queue[w]))
    PROVE  /\ Head(job_queue[w]) \in Message
           /\ Head(job_queue[w]) \in queued[w]
           /\ \A v \in Worker :
                  queued'[v] = IF v = w THEN queued[v] \ {Head(job_queue[w])} ELSE queued[v]
           /\ UniqueSlots'
           /\ job_queue' \in [Worker -> Seq(Message)]
           /\ \A v \in Worker : Len(job_queue'[v]) <= QueueSize
<1> DEFINE q == job_queue[w]
           r == Tail(q)
<1>1. job_queue \in [Worker -> Seq(Message)] /\ q \in Seq(Message) /\ q # <<>>
  BY Zenon DEF TypeOK
<1>2. Len(q) \in Nat \ {0} /\ Head(q) = q[1]
  BY <1>1, EmptySeq
<1>3. /\ Head(q) \in Message /\ r \in Seq(Message) /\ Len(r) = Len(q) - 1
      /\ \A i \in 1 .. Len(r) : r[i] = q[i + 1]
  BY <1>1, HeadTailProperties, Zenon
<1>4. job_queue'[w] = r /\ \A v \in Worker : v # w => job_queue'[v] = job_queue[v]
  BY <1>1, Zenon DEF OnlyQueue
<1>5. \A i, j \in 1 .. Len(q) : q[i] = q[j] => i = j
  BY Zenon DEF UniqueSlots
<1> HIDE DEF q, r
<1>6. {r[i] : i \in 1 .. Len(r)} = {q[i] : i \in 1 .. Len(q)} \ {Head(q)}
  <2>1. ASSUME NEW i \in 1 .. Len(r)
        PROVE  r[i] \in {q[k] : k \in 1 .. Len(q)} \ {Head(q)}
    <3>1. i + 1 \in 1 .. Len(q) /\ 1 \in 1 .. Len(q) /\ i + 1 # 1
      BY <1>2, <1>3
    <3>2. r[i] = q[i + 1] /\ q[i + 1] # q[1]
      BY <3>1, <1>3, <1>5, Zenon
    <3>3. QED
      BY <3>1, <3>2, <1>2, Zenon
  <2>2. ASSUME NEW i \in 1 .. Len(q), q[i] # Head(q)
        PROVE  q[i] \in {r[k] : k \in 1 .. Len(r)}
    <3>1. i # 1
      BY <1>2, <2>2, Zenon
    <3>2. i - 1 \in 1 .. Len(r) /\ (i - 1) + 1 = i
      BY <3>1, <1>2, <1>3
    <3>3. r[i - 1] = q[i]
      BY <3>2, <1>3, Zenon
    <3>4. QED
      BY <3>2, <3>3, Zenon
  <2>3. QED
    BY <2>1, <2>2, Zenon
<1>7. Head(q) \in queued[w]
  BY <1>2 DEF queued, q
<1>8. \A i, j \in 1 .. Len(r) : r[i] = r[j] => i = j
  <2>1. ASSUME NEW i \in 1 .. Len(r), NEW j \in 1 .. Len(r), r[i] = r[j]
        PROVE  i = j
    <3>1. i + 1 \in 1 .. Len(q) /\ j + 1 \in 1 .. Len(q) /\ q[i + 1] = q[j + 1]
      BY <2>1, <1>2, <1>3
    <3>2. i + 1 = j + 1
      BY <3>1, <1>5, Zenon
    <3>3. QED
      BY <3>2
  <2>2. QED
    BY <2>1, Zenon
<1>9. /\ \A v \in Worker : queued'[v] = IF v = w THEN queued[v] \ {Head(q)} ELSE queued[v]
      /\ UniqueSlots'
  <2>1. /\ \A v \in Worker :
               queued'[v] = IF v = w THEN {r[i] : i \in 1 .. Len(r)} ELSE queued[v]
        /\ UniqueSlots'
    BY <1>8, ReplaceQueue, Zenon DEF r, q
  <2>2. queued[w] = {q[i] : i \in 1 .. Len(q)}
    BY Zenon DEF queued, q
  <2> DEFINE old == {q[i] : i \in 1 .. Len(q)}
             new == {r[i] : i \in 1 .. Len(r)}
  <2>3. new = old \ {Head(q)} /\ queued[w] = old
    BY <1>6, <2>2, Zenon
  <2>4. \A v \in Worker : queued'[v] = IF v = w THEN new ELSE queued[v]
    BY <2>1, Zenon
  <2> HIDE DEF old, new
  <2>5. QED
    BY <2>1, <2>3, <2>4, Zenon
<1>10. job_queue' \in [Worker -> Seq(Message)]
  BY <1>1, <1>3, Zenon DEF q, r, OnlyQueue
<1>11. \A v \in Worker : Len(job_queue'[v]) <= QueueSize
  <2>1. Len(q) <= QueueSize /\ \A v \in Worker : Len(job_queue[v]) <= QueueSize
    BY Zenon DEF TypeOK, q
  <2>2. Len(r) <= QueueSize
    BY <2>1, <1>2, <1>3, WorkerPoolAssumption
  <2>3. QED
    BY <2>1, <2>2, <1>4, Zenon
<1>12. QED
  BY <1>3, <1>7, <1>9, <1>10, <1>11, Zenon DEF q

\* What gr_queue_enqueue does to a queue with room, for a message that is in no queue.
LEMMA PutLast ==
    ASSUME TypeOK, UniqueSlots, NEW w \in Worker, NEW m \in Message, m \notin queued[w],
           Len(job_queue[w]) < QueueSize,
           OnlyQueue(w, Append(job_queue[w], m))
    PROVE  /\ \A v \in Worker : queued'[v] = IF v = w THEN queued[v] \cup {m} ELSE queued[v]
           /\ UniqueSlots'
           /\ job_queue' \in [Worker -> Seq(Message)]
           /\ \A v \in Worker : Len(job_queue'[v]) <= QueueSize
<1> DEFINE q == job_queue[w]
           a == Append(q, m)
<1>1. job_queue \in [Worker -> Seq(Message)] /\ q \in Seq(Message)
  BY Zenon DEF TypeOK
<1>2. /\ Len(q) \in Nat /\ a \in Seq(Message) /\ Len(a) = Len(q) + 1
      /\ \A i \in 1 .. Len(q) : a[i] = q[i]
      /\ a[Len(q) + 1] = m
  BY <1>1
<1>3. job_queue'[w] = a /\ \A v \in Worker : v # w => job_queue'[v] = job_queue[v]
  BY <1>1, Zenon DEF OnlyQueue
<1>4. \A i \in 1 .. Len(q) : q[i] # m
  BY Zenon DEF queued
<1>5. \A i, j \in 1 .. Len(q) : q[i] = q[j] => i = j
  BY Zenon DEF UniqueSlots
<1> HIDE DEF q, a
<1>6. \A i \in 1 .. Len(a) : i \in 1 .. Len(q) \/ i = Len(q) + 1
  BY <1>2
<1>7. {a[i] : i \in 1 .. Len(a)} = {q[i] : i \in 1 .. Len(q)} \cup {m}
  <2>1. \A i \in 1 .. Len(a) : a[i] \in {q[k] : k \in 1 .. Len(q)} \cup {m}
    BY <1>2, <1>6, Zenon
  <2>2. \A i \in 1 .. Len(q) : q[i] \in {a[k] : k \in 1 .. Len(a)}
    BY <1>2
  <2>3. m \in {a[k] : k \in 1 .. Len(a)}
    BY <1>2
  <2>4. QED
    BY <2>1, <2>2, <2>3, Zenon
<1>8. \A i, j \in 1 .. Len(a) : a[i] = a[j] => i = j
  <2>1. ASSUME NEW i \in 1 .. Len(a), NEW j \in 1 .. Len(a), a[i] = a[j]
        PROVE  i = j
    <3>1. CASE i \in 1 .. Len(q) /\ j \in 1 .. Len(q)
      BY <2>1, <3>1, <1>2, <1>5, Zenon
    <3>2. CASE i \in 1 .. Len(q) /\ j = Len(q) + 1
      BY <2>1, <3>2, <1>2, <1>4, Zenon
    <3>3. CASE i = Len(q) + 1 /\ j \in 1 .. Len(q)
      BY <2>1, <3>3, <1>2, <1>4, Zenon
    <3>4. QED
      BY <3>1, <3>2, <3>3, <1>6, Zenon
  <2>2. QED
    BY <2>1, Zenon
<1>9. /\ \A v \in Worker :
             queued'[v] = IF v = w THEN {a[i] : i \in 1 .. Len(a)} ELSE queued[v]
      /\ UniqueSlots'
  BY <1>8, ReplaceQueue, Zenon DEF a, q
<1>10. \A v \in Worker : queued'[v] = IF v = w THEN queued[v] \cup {m} ELSE queued[v]
  <2>1. queued[w] = {q[i] : i \in 1 .. Len(q)}
    BY Zenon DEF queued, q
  <2> DEFINE old == {q[i] : i \in 1 .. Len(q)}
             new == {a[i] : i \in 1 .. Len(a)}
  <2>2. new = old \cup {m} /\ queued[w] = old
    BY <1>7, <2>1, Zenon
  <2>3. \A v \in Worker : queued'[v] = IF v = w THEN new ELSE queued[v]
    BY <1>9, Zenon
  <2> HIDE DEF old, new
  <2>4. QED
    BY <2>2, <2>3, Zenon
<1>11. job_queue' \in [Worker -> Seq(Message)]
  <2>1. job_queue' = [job_queue EXCEPT ![w] = a]
    BY <1>1, Zenon DEF q, a, OnlyQueue
  <2>2. QED
    BY <1>1, <1>2, <2>1, Zenon
<1>12. \A v \in Worker : Len(job_queue'[v]) <= QueueSize
  <2>1. Len(q) < QueueSize /\ \A v \in Worker : Len(job_queue[v]) <= QueueSize
    BY Zenon DEF TypeOK, q
  <2>2. Len(a) <= QueueSize
    BY <2>1, <1>2, WorkerPoolAssumption
  <2>3. QED
    BY <2>1, <2>2, <1>3, Zenon
<1>13. QED
  BY <1>9, <1>10, <1>11, <1>12, Zenon

-----------------------------------------------------------------------------
\* Messages and workers are numbers; NULL is no message.
LEMMA Numbers ==
    /\ Message \subseteq Nat \ {0} /\ NULL \notin Message /\ NULL = 0
    /\ Worker \subseteq Nat /\ 0 \in Worker
    /\ \A w \in Worker : w < WorkerCount
BY WorkerPoolAssumption DEF Message, Worker, NULL

\* What does not touch the messages keeps them where they are.
LEMMA Untouched ==
    ASSUME UniqueSlots, OnePlace, Ledger,
           UNCHANGED <<job_queue, job, cleaned, next, dropped>>
    PROVE  UniqueSlots' /\ OnePlace' /\ Ledger'
<1>1. queued' = queued
  BY Zenon DEF queued
<1>2. UniqueSlots'
  BY Zenon DEF UniqueSlots
<1>3. OnePlace'
  BY <1>1, Zenon DEF OnePlace
<1>4. nowhere' = nowhere /\ Ledger'
  BY <1>1, Zenon DEF Ledger, nowhere
<1>5. QED
  BY <1>2, <1>3, <1>4, Zenon

\* A dispatched message was nowhere, and is now in one queue or refused.
LEMMA DispatchPreserves ==
    ASSUME PoolInv, gracht_worker_pool_dispatch
    PROVE  PoolInv'
<1> USE DEF PoolInv
<1>1. /\ next \in Message /\ next' = next + 1 /\ rr_index \in Worker /\ next \in Nat
      /\ next' \in 1 .. LastMessage + 1
  BY WorkerPoolAssumption DEF gracht_worker_pool_dispatch, TypeOK, Message
<1>2. /\ cleaned[next] = 0 /\ next \notin dropped
      /\ \A w \in Worker : job[w] # next /\ next \notin queued[w]
  BY <1>1 DEF Ledger, nowhere
<1>3. \A m \in Message : m >= next' <=> m >= next /\ m # next
  BY <1>1, Numbers
<1>4. UNCHANGED <<rr_index, pc, job, handled, cleaned, state>>
  BY Zenon DEF gracht_worker_pool_dispatch, workerVars
<1>5. main = "ready" /\ main' = "signal" /\ target' = rr_index
  BY Zenon DEF gracht_worker_pool_dispatch
<1>6. JobByPc'
  BY <1>4, Zenon DEF JobByPc
<1>7. CASE /\ Len(job_queue[rr_index]) < QueueSize
           /\ job_queue' = [job_queue EXCEPT ![rr_index] = Append(@, next)]
           /\ UNCHANGED dropped
  <2>1. /\ \A w \in Worker :
               queued'[w] = IF w = rr_index THEN queued[w] \cup {next} ELSE queued[w]
        /\ UniqueSlots'
        /\ job_queue' \in [Worker -> Seq(Message)]
        /\ \A v \in Worker : Len(job_queue'[v]) <= QueueSize
    BY <1>1, <1>2, <1>7, PutLast, Zenon DEF OnlyQueue
  <2>2. nowhere' = nowhere \ {next}
    BY <1>1, <1>2, <1>4, <2>1, Zenon DEF nowhere
  <2>3. TypeOK'
    BY <1>1, <1>4, <1>5, <1>7, <2>1, WorkerPoolAssumption DEF TypeOK, Worker
  <2>4. OnePlace'
    <3>1. ASSUME NEW w \in Worker, NEW v \in Worker, w # v
          PROVE  queued'[w] \cap queued'[v] = {}
      <4>1. queued[w] \cap queued[v] = {} /\ next \notin queued[w] /\ next \notin queued[v]
        BY <3>1, <1>2, Zenon DEF OnePlace
      <4>2. CASE w = rr_index
        BY <3>1, <4>1, <4>2, <2>1, Zenon
      <4>3. CASE w # rr_index
        BY <3>1, <4>1, <4>3, <2>1, Zenon
      <4>4. QED
        BY <4>2, <4>3, Zenon
    <3>2. ASSUME NEW w \in Worker, NEW v \in Worker, job'[w] # NULL
          PROVE  (job'[w] = job'[v] => w = v) /\ job'[w] \notin queued'[v]
      <4>1. job'[w] = job[w] /\ job'[v] = job[v]
        BY <1>4, Zenon
      <4>2. (job[w] = job[v] => w = v) /\ job[w] \notin queued[v] /\ job[w] # next
        BY <1>2, <3>2, <4>1, Zenon DEF OnePlace
      <4>3. job[w] \notin queued'[v]
        BY <2>1, <4>2, Zenon
      <4>4. QED
        BY <4>1, <4>2, <4>3, Zenon
    <3>3. QED
      BY <3>1, <3>2, Zenon DEF OnePlace
  <2>5. Ledger'
    <3> SUFFICES ASSUME NEW m \in Message
                 PROVE  (/\ cleaned[m] \in {0, 1}
                         /\ m \in dropped => cleaned[m] = 0
                         /\ m >= next => cleaned[m] = 0 /\ m \notin dropped
                         /\ m \in nowhere <=> cleaned[m] = 1 \/ m \in dropped \/ m >= next)'
      BY Zenon DEF Ledger
    <3>1. /\ cleaned[m] \in {0, 1}
          /\ m \in dropped => cleaned[m] = 0
          /\ m >= next => cleaned[m] = 0 /\ m \notin dropped
          /\ m \in nowhere <=> cleaned[m] = 1 \/ m \in dropped \/ m >= next
      BY Zenon DEF Ledger
    <3>2. cleaned'[m] = cleaned[m] /\ (m \in dropped' <=> m \in dropped) /\ (m >= next' <=> m >= next /\ m # next)
      BY <1>3, <1>4, <1>7, Zenon
    <3>3. m \in nowhere' <=> m \in nowhere /\ m # next
      BY <2>2, Zenon
    <3>4. CASE m = next
      <4>1. cleaned[m] = 0 /\ m \notin dropped /\ 0 # 1
        BY <1>2, <3>4
      <4>2. QED
        BY <3>1, <3>2, <3>3, <3>4, <4>1, Zenon
    <3>5. CASE m # next
      BY <3>1, <3>2, <3>3, <3>5, Zenon
    <3>6. QED
      BY <3>4, <3>5, Zenon
  <2>6. ExitOrder'
    BY <1>1, <1>4, <1>5, Zenon DEF ExitOrder
  <2>7. QED
    BY <1>6, <2>1, <2>3, <2>4, <2>5, <2>6, Zenon
<1>8. CASE /\ dropped' = dropped \cup {next}
           /\ UNCHANGED job_queue
  <2>1. queued' = queued /\ UniqueSlots'
    BY <1>8, Zenon DEF queued, UniqueSlots
  <2>. nowhere' = nowhere /\ next \in nowhere
    BY <1>1, <1>2, <1>4, <2>1, Zenon DEF nowhere
  <2>2. TypeOK'
    <3>1. rr_index \in 0 .. WorkerCount
      BY <1>1, WorkerPoolAssumption DEF Worker
    <3>2. QED
      BY <1>1, <1>4, <1>5, <1>8, <3>1, ZenonT(60) DEF TypeOK
  <2>3. OnePlace'
    BY <1>4, <2>1, Zenon DEF OnePlace
  <2>4. Ledger'
    BY <1>1, <1>2, <1>3, <1>4, <1>8, <2>1, Zenon DEF Ledger
  <2>5. ExitOrder'
    BY <1>1, <1>4, <1>5, <1>8, Zenon DEF ExitOrder
  <2>6. QED
    BY <1>6, <2>1, <2>2, <2>3, <2>4, <2>5, Zenon
<1>9. QED
  BY <1>7, <1>8, Zenon DEF gracht_worker_pool_dispatch

\* A message goes from the head of a queue into the hands of its worker.
LEMMA TakePreserves ==
    ASSUME PoolInv, NEW w \in Worker, job[w] = NULL, job_queue[w] # <<>>,
           job' = [job EXCEPT ![w] = Head(job_queue[w])],
           job_queue' = [job_queue EXCEPT ![w] = Tail(@)],
           UNCHANGED <<cleaned, next, dropped>>
    PROVE  /\ UniqueSlots' /\ OnePlace' /\ Ledger'
           /\ job' \in [Worker -> Message \cup {NULL}]
           /\ job_queue' \in [Worker -> Seq(Message)]
           /\ \A v \in Worker : Len(job_queue'[v]) <= QueueSize
<1> DEFINE h == Head(job_queue[w])
<1>1. /\ h \in Message /\ h \in queued[w]
      /\ \A v \in Worker : queued'[v] = IF v = w THEN queued[v] \ {h} ELSE queued[v]
      /\ UniqueSlots'
      /\ job_queue' \in [Worker -> Seq(Message)]
      /\ \A v \in Worker : Len(job_queue'[v]) <= QueueSize
  BY TakeHead, Zenon DEF PoolInv, OnlyQueue
<1>2. job' = [job EXCEPT ![w] = h] /\ job \in [Worker -> Message \cup {NULL}]
  BY Zenon DEF PoolInv, TypeOK
<1> HIDE DEF h
<1>3. \A v \in Worker : job'[v] = IF v = w THEN h ELSE job[v]
  BY <1>2, Zenon
<1>4. \A v \in Worker : h \notin queued'[v] /\ job[v] # h
  <2>1. ASSUME NEW v \in Worker PROVE h \notin queued'[v]
    BY <1>1, Zenon DEF PoolInv, OnePlace
  <2>2. ASSUME NEW v \in Worker PROVE job[v] # h
    BY <1>1, Numbers, Zenon DEF PoolInv, OnePlace
  <2>3. QED
    BY <2>1, <2>2, Zenon
<1>5. OnePlace'
  <2>1. ASSUME NEW u \in Worker, NEW v \in Worker, u # v
        PROVE  queued'[u] \cap queued'[v] = {}
    <3>1. queued[u] \cap queued[v] = {}
      BY <2>1, Zenon DEF PoolInv, OnePlace
    <3>2. queued'[u] \subseteq queued[u] /\ queued'[v] \subseteq queued[v]
      BY <1>1, Zenon
    <3>3. QED
      BY <3>1, <3>2, Zenon
  <2>2. ASSUME NEW u \in Worker, NEW v \in Worker, job'[u] # NULL
        PROVE  (job'[u] = job'[v] => u = v) /\ job'[u] \notin queued'[v]
    <3>1. CASE u = w
      BY <3>1, <1>3, <1>4, Zenon
    <3>2. CASE u # w
      <4>1. job'[u] = job[u] /\ job[u] # NULL /\ job[u] # h
        BY <2>2, <3>2, <1>3, <1>4, Zenon
      <4>2. (job[u] = job[v] => u = v) /\ job[u] \notin queued[v]
        BY <4>1, Zenon DEF PoolInv, OnePlace
      <4>3. queued'[v] \subseteq queued[v]
        BY <1>1, Zenon
      <4>4. QED
        BY <4>1, <4>2, <4>3, <1>3, Zenon
    <3>3. QED
      BY <3>1, <3>2, Zenon
  <2>3. QED
    BY <2>1, <2>2, Zenon DEF OnePlace
<1>6. Ledger'
  <2>1. nowhere' = nowhere
    <3>1. ASSUME NEW m \in Message, m \in nowhere PROVE m \in nowhere'
      BY <3>1, <1>1, <1>3, Zenon DEF nowhere
    <3>2. ASSUME NEW m \in Message, m \in nowhere' PROVE m \in nowhere
      BY <3>2, <1>1, <1>3, Numbers, Zenon DEF nowhere
    <3>3. QED
      BY <3>1, <3>2, Zenon DEF nowhere
  <2>2. QED
    BY <2>1, Zenon DEF PoolInv, Ledger
<1>7. QED
  BY <1>1, <1>2, <1>5, <1>6, ZenonT(60)

\* The first dequeue of an iteration, which finds a message or an empty queue.
LEMMA DequeuePreserves ==
    ASSUME PoolInv, NEW w \in Worker, Dequeue(w)
    PROVE  PoolInv'
<1>1. /\ pc[w] = "loop" /\ job[w] = NULL
      /\ UNCHANGED <<main, target, rr_index, next, dropped, state, handled, cleaned>>
  BY Zenon DEF Dequeue, PoolInv, JobByPc, mainVars
<1>2. CASE job_queue[w] # <<>>
  <2>1. /\ job' = [job EXCEPT ![w] = Head(job_queue[w])]
        /\ job_queue' = [job_queue EXCEPT ![w] = Tail(@)]
        /\ pc' = [pc EXCEPT ![w] = "invoke"]
    BY <1>2, Zenon DEF Dequeue
  <2>2. /\ UniqueSlots' /\ OnePlace' /\ Ledger'
        /\ job' \in [Worker -> Message \cup {NULL}]
        /\ job_queue' \in [Worker -> Seq(Message)]
        /\ \A v \in Worker : Len(job_queue'[v]) <= QueueSize
    BY <1>1, <1>2, <2>1, TakePreserves, Zenon
  <2>3. TypeOK'
    BY <1>1, <2>1, <2>2, Zenon DEF PoolInv, TypeOK
  <2>4. JobByPc'
    BY <1>1, <2>1, Zenon DEF PoolInv, TypeOK, JobByPc
  <2>5. ExitOrder'
    BY <1>1, <2>1, Zenon DEF PoolInv, TypeOK, ExitOrder
  <2>6. QED
    BY <2>2, <2>3, <2>4, <2>5, Zenon DEF PoolInv
<1>3. CASE job_queue[w] = <<>>
  <2>1. pc' = [pc EXCEPT ![w] = "empty"] /\ UNCHANGED <<job, job_queue>>
    BY <1>3, Zenon DEF Dequeue
  <2>2. UniqueSlots' /\ OnePlace' /\ Ledger'
    BY <1>1, <2>1, Untouched, Zenon DEF PoolInv
  <2>3. TypeOK' /\ JobByPc' /\ ExitOrder'
    BY <1>1, <2>1, ZenonT(60) DEF PoolInv, TypeOK, JobByPc, ExitOrder
  <2>4. QED
    BY <2>2, <2>3, Zenon DEF PoolInv
<1>4. QED
  BY <1>2, <1>3, Zenon

\* After cnd_wait the worker leaves, takes a message, or goes on with NULL.
LEMMA WokenPreserves ==
    ASSUME PoolInv, NEW w \in Worker, Woken(w)
    PROVE  PoolInv'
<1>1. /\ pc[w] = "woken" /\ job[w] = NULL
      /\ UNCHANGED <<main, target, rr_index, next, dropped, handled, cleaned>>
  BY Zenon DEF Woken, PoolInv, JobByPc, mainVars
<1>2. CASE /\ state[w] = "SHUTDOWN_REQUEST"
           /\ state' = [state EXCEPT ![w] = "SHUTDOWN"]
           /\ pc' = [pc EXCEPT ![w] = "drain"]
           /\ UNCHANGED <<job, job_queue>>
  <2>1. UniqueSlots' /\ OnePlace' /\ Ledger'
    BY <1>1, <1>2, Untouched, Zenon DEF PoolInv
  <2>2. TypeOK' /\ JobByPc'
    BY <1>1, <1>2, Zenon DEF PoolInv, TypeOK, JobByPc
  <2>3. ExitOrder'
    BY <1>1, <1>2, Zenon DEF PoolInv, TypeOK, ExitOrder
  <2>4. QED
    BY <2>1, <2>2, <2>3, Zenon DEF PoolInv
<1>3. CASE /\ job_queue[w] # <<>>
           /\ job' = [job EXCEPT ![w] = Head(job_queue[w])]
           /\ job_queue' = [job_queue EXCEPT ![w] = Tail(@)]
           /\ pc' = [pc EXCEPT ![w] = "invoke"]
           /\ UNCHANGED state
  <2>1. /\ UniqueSlots' /\ OnePlace' /\ Ledger'
        /\ job' \in [Worker -> Message \cup {NULL}]
        /\ job_queue' \in [Worker -> Seq(Message)]
        /\ \A v \in Worker : Len(job_queue'[v]) <= QueueSize
    BY <1>1, <1>3, TakePreserves, Zenon
  <2>2. TypeOK'
    BY <1>1, <1>3, <2>1, Zenon DEF PoolInv, TypeOK
  <2>3. JobByPc'
    BY <1>1, <1>3, Zenon DEF PoolInv, TypeOK, JobByPc
  <2>4. ExitOrder'
    BY <1>1, <1>3, Zenon DEF PoolInv, TypeOK, ExitOrder
  <2>5. QED
    BY <2>1, <2>2, <2>3, <2>4, Zenon DEF PoolInv
<1>4. CASE /\ job_queue[w] = <<>>
           /\ job' = [job EXCEPT ![w] = NULL]
           /\ job_queue' = [job_queue EXCEPT ![w] = @]
           /\ pc' = [pc EXCEPT ![w] = "invoke"]
           /\ UNCHANGED state
  <2>1. UNCHANGED <<job, job_queue>>
    BY <1>1, <1>4, Zenon DEF PoolInv, TypeOK
  <2>2. UniqueSlots' /\ OnePlace' /\ Ledger'
    BY <1>1, <2>1, Untouched, Zenon DEF PoolInv
  <2>3. pc' = [pc EXCEPT ![w] = "invoke"] /\ UNCHANGED state
    BY <1>4, Zenon
  <2>4. TypeOK' /\ JobByPc'
    BY <1>1, <2>1, <2>3, Zenon DEF PoolInv, TypeOK, JobByPc
  <2>5. ExitOrder'
    BY <1>1, <2>1, <2>3, ZenonT(60) DEF PoolInv, TypeOK, ExitOrder
  <2>6. QED
    BY <2>2, <2>4, <2>5, Zenon DEF PoolInv
<1>5. QED
  BY <1>2, <1>3, <1>4, Zenon DEF Woken

\* server_cleanup_message releases the message in the worker's hands for the first time.
LEMMA CleanupPreserves ==
    ASSUME PoolInv, NEW w \in Worker, server_cleanup_message(w)
    PROVE  PoolInv'
<1> DEFINE m == job[w]
<1>1. /\ pc[w] = "cleanup" /\ m \in Message
      /\ cleaned' = [cleaned EXCEPT ![m] = @ + 1]
      /\ job' = [job EXCEPT ![w] = NULL]
      /\ pc' = [pc EXCEPT ![w] = "check"]
      /\ UNCHANGED <<main, target, rr_index, next, dropped, job_queue, state, handled>>
  BY Zenon DEF server_cleanup_message, PoolInv, JobByPc, TypeOK, mainVars
<1>2. \A v \in Worker : job'[v] = IF v = w THEN NULL ELSE job[v]
  BY <1>1, Zenon DEF PoolInv, TypeOK
<1>3. queued' = queued /\ UniqueSlots'
  BY <1>1, Zenon DEF PoolInv, queued, UniqueSlots
<1>4. m \notin nowhere
  BY Zenon DEF nowhere
<1>5. cleaned[m] = 0 /\ m \notin dropped /\ ~(m >= next)
  BY <1>1, <1>4, Zenon DEF PoolInv, Ledger
<1>6. \A k \in Message : cleaned'[k] = IF k = m THEN 1 ELSE cleaned[k]
  BY <1>1, <1>5 DEF PoolInv, TypeOK
<1>7. \A v \in Worker : m \notin queued[v] /\ (job[v] = m => v = w)
  BY <1>1, Numbers, Zenon DEF PoolInv, OnePlace
<1>8. nowhere' = nowhere \cup {m}
  <2>1. ASSUME NEW k \in Message, k # m PROVE k \in nowhere <=> k \in nowhere'
    BY <2>1, <1>2, <1>3, Numbers, Zenon DEF nowhere
  <2>2. m \in nowhere'
    BY <1>1, <1>2, <1>3, <1>7, Numbers, Zenon DEF nowhere
  <2>3. QED
    BY <1>1, <2>1, <2>2 DEF nowhere
<1>9. OnePlace'
  BY <1>2, <1>3, Zenon DEF PoolInv, OnePlace
<1>10. TypeOK' /\ JobByPc'
  BY <1>1 DEF PoolInv, TypeOK, JobByPc
<1>11. ExitOrder'
  BY <1>1, Zenon DEF PoolInv, TypeOK, ExitOrder
<1> HIDE DEF m
<1>12. Ledger'
  BY <1>1, <1>5, <1>6, <1>8, Zenon DEF PoolInv, Ledger
<1>13. QED
  BY <1>3, <1>9, <1>10, <1>11, <1>12, Zenon DEF PoolInv

\* On the way out the head of the queue is released for the first time, or the queue is
\* empty and the worker exits.
LEMMA DrainPreserves ==
    ASSUME PoolInv, NEW w \in Worker, Drain(w)
    PROVE  PoolInv'
<1>1. /\ pc[w] = "drain"
      /\ UNCHANGED <<main, target, rr_index, next, dropped, state, job, handled>>
  BY Zenon DEF Drain, mainVars
<1>2. CASE job_queue[w] # <<>>
  <2> DEFINE h == Head(job_queue[w])
  <2>1. /\ cleaned' = [cleaned EXCEPT ![h] = @ + 1]
        /\ job_queue' = [job_queue EXCEPT ![w] = Tail(@)]
        /\ UNCHANGED pc
    BY <1>2, Zenon DEF Drain
  <2>2. /\ h \in Message /\ h \in queued[w]
        /\ \A v \in Worker : queued'[v] = IF v = w THEN queued[v] \ {h} ELSE queued[v]
        /\ UniqueSlots'
        /\ job_queue' \in [Worker -> Seq(Message)]
        /\ \A v \in Worker : Len(job_queue'[v]) <= QueueSize
    BY <1>2, <2>1, TakeHead, Zenon DEF PoolInv, OnlyQueue
  <2> HIDE DEF h
  <2>3. h \notin nowhere
    BY <2>2, Zenon DEF nowhere
  <2>4. cleaned[h] = 0 /\ h \notin dropped /\ ~(h >= next)
    BY <2>2, <2>3, Zenon DEF PoolInv, Ledger
  <2>5. \A k \in Message : cleaned'[k] = IF k = h THEN 1 ELSE cleaned[k]
    BY <2>1, <2>2, <2>4 DEF PoolInv, TypeOK
  <2>6. \A v \in Worker : h \notin queued'[v]
    BY <2>2, Zenon DEF PoolInv, OnePlace
  <2>7. \A v \in Worker : job[v] # h
    BY <2>2, Numbers, Zenon DEF PoolInv, OnePlace
  <2>8. nowhere' = nowhere \cup {h}
    <3>1. ASSUME NEW k \in Message, k # h PROVE k \in nowhere <=> k \in nowhere'
      BY <3>1, <1>1, <2>2, Zenon DEF nowhere
    <3>2. h \in nowhere'
      BY <1>1, <2>2, <2>6, <2>7, Zenon DEF nowhere
    <3>3. QED
      BY <2>2, <3>1, <3>2 DEF nowhere
  <2>9. OnePlace'
    <3>1. ASSUME NEW v \in Worker PROVE queued'[v] \subseteq queued[v]
      BY <2>2, Zenon
    <3>2. QED
      BY <1>1, <3>1, Zenon DEF PoolInv, OnePlace
  <2>10. Ledger'
    BY <1>1, <2>2, <2>4, <2>5, <2>8, Zenon DEF PoolInv, Ledger
  <2>11. TypeOK' /\ JobByPc'
    BY <1>1, <2>1, <2>2 DEF PoolInv, TypeOK, JobByPc
  <2>12. ExitOrder'
    BY <1>1, <2>1, Zenon DEF PoolInv, TypeOK, ExitOrder
  <2>13. QED
    BY <2>2, <2>9, <2>10, <2>11, <2>12, Zenon DEF PoolInv
<1>3. CASE job_queue[w] = <<>>
  <2>1. pc' = [pc EXCEPT ![w] = "exited"] /\ UNCHANGED <<cleaned, job_queue>>
    BY <1>3, Zenon DEF Drain
  <2>2. UniqueSlots' /\ OnePlace' /\ Ledger'
    BY <1>1, <2>1, Untouched, Zenon DEF PoolInv
  <2>3. TypeOK' /\ JobByPc'
    BY <1>1, <2>1, Zenon DEF PoolInv, TypeOK, JobByPc
  <2>4. ExitOrder'
    BY <1>1, <1>3, <2>1, Zenon DEF PoolInv, TypeOK, ExitOrder
  <2>5. QED
    BY <2>2, <2>3, <2>4, Zenon DEF PoolInv
<1>4. QED
  BY <1>2, <1>3, Zenon

\* The steps of a worker that move no message.
LEMMA QuietWorkerPreserves ==
    ASSUME PoolInv, NEW w \in Worker,
           Startup(w) \/ Wait(w) \/ SpuriousWakeUp(w) \/ CheckState(w)
    PROVE  PoolInv'
<1>1. UNCHANGED <<main, target, rr_index, next, dropped, job_queue, job, handled, cleaned>>
  BY Zenon DEF Startup, Wait, SpuriousWakeUp, CheckState, mainVars
<1>2. UniqueSlots' /\ OnePlace' /\ Ledger'
  BY <1>1, Untouched, Zenon DEF PoolInv
<1>3. TypeOK' /\ JobByPc'
  BY <1>1, Zenon DEF PoolInv, TypeOK, JobByPc, Startup, Wait, SpuriousWakeUp, CheckState
<1>4. ExitOrder'
  BY <1>1 DEF PoolInv, TypeOK, ExitOrder, Startup, Wait, SpuriousWakeUp, CheckState
<1>5. QED
  BY <1>2, <1>3, <1>4, Zenon DEF PoolInv

\* server_invoke_action leaves the message where it is, or ends the process.
LEMMA InvokePreserves ==
    ASSUME PoolInv, NEW w \in Worker, server_invoke_action(w)
    PROVE  PoolInv'
<1>1. /\ pc[w] = "invoke"
      /\ UNCHANGED <<target, rr_index, next, dropped, job_queue, state, job, cleaned>>
  BY Zenon DEF server_invoke_action
<1>2. UniqueSlots' /\ OnePlace' /\ Ledger'
  BY <1>1, Untouched, Zenon DEF PoolInv
<1>3. CASE main' = "crashed" /\ pc' = [v \in Worker |-> "crashed"] /\ UNCHANGED handled
  BY <1>1, <1>2, <1>3, Zenon DEF PoolInv, TypeOK, JobByPc, ExitOrder
<1>4. CASE /\ job[w] # NULL
           /\ handled' = [handled EXCEPT ![w] = Append(@, job[w])]
           /\ pc' = [pc EXCEPT ![w] = "cleanup"]
           /\ UNCHANGED main
  <2>1. handled' \in [Worker -> Seq(Message)]
    <3>1. handled[w] \in Seq(Message) /\ job[w] \in Message
      BY <1>4, Zenon DEF PoolInv, TypeOK
    <3>2. Append(handled[w], job[w]) \in Seq(Message)
      BY <3>1
    <3>3. QED
      BY <1>4, <3>2, Zenon DEF PoolInv, TypeOK
  <2>2. TypeOK' /\ JobByPc'
    BY <1>1, <1>4, <2>1, Zenon DEF PoolInv, TypeOK, JobByPc
  <2>3. ExitOrder'
    BY <1>1, <1>4, Zenon DEF PoolInv, TypeOK, ExitOrder
  <2>4. QED
    BY <1>2, <2>2, <2>3, Zenon DEF PoolInv
<1>5. QED
  BY <1>3, <1>4, Zenon DEF server_invoke_action

\* cnd_signal moves a sleeping worker and no other.
LEMMA SignalMoves ==
    ASSUME TypeOK, NEW w \in Worker, Signal(w)
    PROVE  /\ pc' \in [Worker -> {"startup", "loop", "empty", "waiting", "woken", "invoke",
                                  "cleanup", "check", "drain", "exited", "crashed"}]
           /\ \A v \in Worker : pc'[v] = pc[v] \/ (pc[v] = "waiting" /\ pc'[v] = "woken")
BY Zenon DEF TypeOK, Signal

\* The main thread, apart from the first half of dispatch, moves no message.
LEMMA QuietMainPreserves ==
    ASSUME PoolInv,
           DispatchSignal \/ gracht_worker_pool_destroy \/ ShutdownSignal \/ JoinWorker
    PROVE  PoolInv'
<1>1. UNCHANGED <<next, dropped, job_queue, job, handled, cleaned>>
  BY Zenon DEF DispatchSignal, gracht_worker_pool_destroy, ShutdownSignal, JoinWorker, workerVars
<1>2. UniqueSlots' /\ OnePlace' /\ Ledger'
  BY <1>1, Untouched, Zenon DEF PoolInv
<1>3. CASE DispatchSignal
  <2>1. main = "signal" /\ main' = "ready" /\ target \in Worker /\ UNCHANGED <<target, state>>
    BY <1>3, Zenon DEF PoolInv, ExitOrder, DispatchSignal
  <2>2. rr_index' \in Worker
    BY <1>3, WorkerPoolAssumption DEF PoolInv, TypeOK, DispatchSignal, Worker
  <2>3. /\ pc' \in [Worker -> {"startup", "loop", "empty", "waiting", "woken", "invoke",
                               "cleanup", "check", "drain", "exited", "crashed"}]
        /\ \A v \in Worker : pc'[v] = pc[v] \/ (pc[v] = "waiting" /\ pc'[v] = "woken")
    BY <1>3, <2>1, SignalMoves, Zenon DEF PoolInv, DispatchSignal
  <2>4. TypeOK' /\ JobByPc'
    BY <1>1, <2>1, <2>2, <2>3, Zenon DEF PoolInv, TypeOK, JobByPc
  <2>5. ExitOrder'
    BY <1>1, <2>1, <2>3, Zenon DEF PoolInv, ExitOrder
  <2>6. QED
    BY <1>2, <2>4, <2>5, Zenon DEF PoolInv
<1>4. CASE gracht_worker_pool_destroy
  <2>1. /\ main' = "wake" /\ UNCHANGED <<rr_index, pc>>
        /\ state' = [state EXCEPT ![target'] = "SHUTDOWN_REQUEST"]
    BY <1>4, Zenon DEF gracht_worker_pool_destroy, workerVars
  <2>2. /\ target' \in Worker
        /\ \A w \in Worker : w < target' => pc[w] = "exited"
    BY <1>4, Numbers DEF PoolInv, ExitOrder, gracht_worker_pool_destroy
  <2>3. target' \in 0 .. WorkerCount
    BY <2>2, WorkerPoolAssumption DEF Worker
  <2>4. TypeOK' /\ JobByPc'
    BY <1>1, <2>1, <2>2, <2>3, Zenon DEF PoolInv, TypeOK, JobByPc
  <2>5. ExitOrder'
    BY <1>1, <2>1, <2>2, Zenon DEF PoolInv, ExitOrder
  <2>6. QED
    BY <1>2, <2>4, <2>5, Zenon DEF PoolInv
<1>5. CASE ShutdownSignal
  <2>1. /\ main = "wake" /\ main' = "join" /\ target \in Worker
        /\ UNCHANGED <<target, rr_index, state>>
    BY <1>5, Zenon DEF PoolInv, ExitOrder, ShutdownSignal
  <2>2. /\ pc' \in [Worker -> {"startup", "loop", "empty", "waiting", "woken", "invoke",
                               "cleanup", "check", "drain", "exited", "crashed"}]
        /\ \A v \in Worker : pc'[v] = pc[v] \/ (pc[v] = "waiting" /\ pc'[v] = "woken")
    BY <1>5, <2>1, SignalMoves, Zenon DEF PoolInv, ShutdownSignal
  <2>3. TypeOK' /\ JobByPc'
    BY <1>1, <2>1, <2>2, Zenon DEF PoolInv, TypeOK, JobByPc
  <2>4. ExitOrder'
    BY <1>1, <2>1, <2>2, Zenon DEF PoolInv, ExitOrder
  <2>5. QED
    BY <1>2, <2>3, <2>4, Zenon DEF PoolInv
<1>6. CASE JoinWorker
  <2>1. /\ main = "join" /\ pc[target] = "exited" /\ target \in Worker /\ target' = target + 1
        /\ main' = IF target + 1 = WorkerCount THEN "destroyed" ELSE "request"
        /\ UNCHANGED <<rr_index, state, pc>>
    BY <1>6, Zenon DEF PoolInv, ExitOrder, JoinWorker, workerVars
  <2>2. /\ target' \in 0 .. WorkerCount
        /\ main' = "request" => target' \in Worker
    BY <2>1, WorkerPoolAssumption DEF Worker
  <2>3. \A w \in Worker : w < target' => pc[w] = "exited"
    <3>1. ASSUME NEW w \in Worker, w < target' PROVE w < target \/ w = target
      BY <2>1, <3>1 DEF Worker
    <3>2. QED
      BY <2>1, <3>1, Zenon DEF PoolInv, ExitOrder
  <2>4. main' = "destroyed" => \A w \in Worker : pc[w] = "exited"
    BY <2>1, <2>3, Numbers, Zenon
  <2>5. TypeOK' /\ JobByPc'
    BY <1>1, <2>1, <2>2, Zenon DEF PoolInv, TypeOK, JobByPc
  <2>6. ExitOrder'
    BY <1>1, <2>1, <2>2, <2>3, <2>4, Zenon DEF PoolInv, ExitOrder
  <2>7. QED
    BY <1>2, <2>5, <2>6, Zenon DEF PoolInv
<1>7. QED
  BY <1>3, <1>4, <1>5, <1>6, Zenon

-----------------------------------------------------------------------------
\* gracht_worker_pool_create establishes the invariant.
LEMMA InitPoolInv == Init => PoolInv
<1> SUFFICES ASSUME Init PROVE PoolInv
  BY Zenon
<1>1. \A w \in Worker : job_queue[w] = <<>> /\ job[w] = NULL /\ Len(job_queue[w]) = 0
  BY Zenon DEF Init
<1>2. \A w \in Worker : queued[w] = {}
  BY <1>1 DEF queued
<1>3. TypeOK
  BY <1>1, Numbers, WorkerPoolAssumption, EmptySeq DEF Init, TypeOK
<1>4. UniqueSlots /\ OnePlace
  BY <1>1, <1>2 DEF UniqueSlots, OnePlace
<1>5. nowhere = Message
  BY <1>1, <1>2, Numbers, Zenon DEF nowhere
<1>6. Ledger
  BY <1>5, Numbers DEF Init, Ledger, Message
<1>7. JobByPc /\ ExitOrder
  BY Zenon DEF Init, JobByPc, ExitOrder
<1>8. QED
  BY <1>3, <1>4, <1>6, <1>7, Zenon DEF PoolInv

\* Every step of the main thread and of the workers preserves it.
LEMMA NextPoolInv == PoolInv /\ [Next]_vars => PoolInv'
<1> SUFFICES ASSUME PoolInv, [Next]_vars PROVE PoolInv'
  BY Zenon
<1>1. CASE gracht_worker_pool_dispatch
  BY <1>1, DispatchPreserves, Zenon
<1>2. CASE DispatchSignal \/ gracht_worker_pool_destroy \/ ShutdownSignal \/ JoinWorker
  BY <1>2, QuietMainPreserves, Zenon
<1>3. ASSUME NEW w \in Worker, WorkerStep(w) \/ SpuriousWakeUp(w) PROVE PoolInv'
  BY Zenon, <1>3, QuietWorkerPreserves, DequeuePreserves, WokenPreserves, InvokePreserves,
     CleanupPreserves, DrainPreserves DEF WorkerStep
<1>4. CASE UNCHANGED vars
  <2>1. /\ UNCHANGED <<main, target, rr_index, next, dropped, pc, job, handled, cleaned>>
        /\ UNCHANGED <<job_queue, state>>
    BY <1>4, Zenon DEF vars, mainVars, workerVars
  <2>2. UniqueSlots' /\ OnePlace' /\ Ledger'
    BY <2>1, Untouched, Zenon DEF PoolInv
  <2>3. TypeOK' /\ JobByPc' /\ ExitOrder'
    BY <2>1, Zenon DEF PoolInv, TypeOK, JobByPc, ExitOrder
  <2>4. QED
    BY <2>2, <2>3, Zenon DEF PoolInv
<1>5. QED
  BY <1>1, <1>2, <1>3, <1>4, Zenon DEF Next, MainStep

\* The inductive invariant holds in every behaviour of dispatcher and workers.
THEOREM PoolInvariant == Spec => []PoolInv
BY InitPoolInv, NextPoolInv, PTL DEF Spec

\* The queued set is the InQueue of the properties.
LEMMA InQueueQueued == \A w \in Worker : \A m : InQueue(w, m) <=> m \in queued[w]
BY Zenon DEF InQueue, queued

\* The state of dispatcher and workers keeps its type; in particular no queue grows
\* beyond its size.
THEOREM PoolTypeCorrect == Spec => []TypeOK
<1>1. PoolInv => TypeOK
  BY Zenon DEF PoolInv
<1>2. QED
  BY <1>1, PoolInvariant, PTL

\* No message is in two places, none is released twice, and none is released while a
\* worker still uses it, whatever dispatch, worker_dowork and destroy interleave.
THEOREM MessagesHaveOneOwner == Spec => []UniqueOwner
<1>1. PoolInv => UniqueOwner
  <2> SUFFICES ASSUME PoolInv PROVE UniqueOwner
    BY Zenon
  <2>1. ASSUME NEW w \in Worker, NEW v \in Worker,
               NEW i \in 1 .. Len(job_queue[w]), NEW j \in 1 .. Len(job_queue[v]),
               job_queue[w][i] = job_queue[v][j]
        PROVE  w = v /\ i = j
    <3>1. job_queue[w][i] \in queued[w] /\ job_queue[v][j] \in queued[v]
      BY Zenon DEF queued
    <3>2. w = v
      BY <2>1, <3>1, Zenon DEF PoolInv, OnePlace
    <3>3. QED
      BY <2>1, <3>2, Zenon DEF PoolInv, UniqueSlots
  <2>2. ASSUME NEW w \in Worker, NEW v \in Worker, job[w] # NULL
        PROVE  (job[w] = job[v] => w = v) /\ ~InQueue(v, job[w])
    BY <2>2, InQueueQueued, Zenon DEF PoolInv, OnePlace
  <2>3. ASSUME NEW m \in Message
        PROVE  /\ cleaned[m] <= 1
               /\ m \in dropped => cleaned[m] = 0
    BY DEF PoolInv, Ledger
  <2>4. ASSUME NEW m \in Message, cleaned[m] = 1 \/ m \in dropped \/ m >= next, NEW w \in Worker
        PROVE  job[w] # m /\ ~InQueue(w, m)
    <3>1. m \in nowhere
      BY <2>4, Zenon DEF PoolInv, Ledger
    <3>2. QED
      BY <3>1, InQueueQueued, Zenon DEF nowhere
  <2>5. QED
    BY <2>1, <2>2, <2>3, <2>4, Zenon DEF UniqueOwner
<1>2. QED
  BY <1>1, PoolInvariant, PTL

\* A dispatched message that is neither released nor refused is somewhere.
LEMMA InvAccounts == PoolInv => Accounted
<1> SUFFICES ASSUME PoolInv, NEW m \in Message, m < next, cleaned[m] # 1, m \notin dropped
             PROVE  \E w \in Worker : job[w] = m \/ InQueue(w, m)
  BY Zenon DEF Accounted
<1>1. ~(m >= next)
  BY Numbers DEF PoolInv, TypeOK
<1>2. m \notin nowhere
  BY <1>1, Zenon DEF PoolInv, Ledger
<1>3. QED
  BY <1>2, InQueueQueued, Zenon DEF nowhere

\* A message that gracht_worker_pool_dispatch got into a queue stays in it or in the
\* hands of a worker until it is released.
THEOREM MessagesAreAccountedFor == Spec => []Accounted
BY InvAccounts, PoolInvariant, PTL

\* When gracht_worker_pool_destroy has returned, every message a queue accepted has been
\* released, also those no worker got round to.
THEOREM DestroyReleasesMessages == Spec => []OutstandingDestroyed
<1>1. PoolInv => OutstandingDestroyed
  <2> SUFFICES ASSUME PoolInv, main = "destroyed", NEW m \in Message, m < next, m \notin dropped
               PROVE  cleaned[m] = 1
    BY Zenon DEF OutstandingDestroyed
  <2>1. ASSUME NEW w \in Worker PROVE job[w] # m /\ ~InQueue(w, m)
    <3>1. pc[w] = "exited" /\ job_queue[w] = <<>> /\ job[w] = NULL
      BY Zenon DEF PoolInv, ExitOrder, JobByPc
    <3>2. Len(job_queue[w]) = 0
      BY <3>1
    <3>3. QED
      BY <3>1, <3>2, Numbers DEF InQueue
  <2>2. QED
    BY <2>1, InvAccounts, Zenon DEF Accounted
<1>2. QED
  BY <1>1, PoolInvariant, PTL

-----------------------------------------------------------------------------
(* The order of dispatch                                                   *)

\* A message dispatched before message n whose turn was that of worker w.
Mine(w, m, n) == m < n /\ (m - 1) % WorkerCount = w

\* The line of worker w at p in worker_dowork: h is handled, m in its hands, q queued.
InLine(w, h, m, q, p, n) ==
    /\ \A i \in 1 .. Len(h) : Mine(w, h[i], n)
    /\ \A i \in 1 .. Len(q) : Mine(w, q[i], n)
    /\ \A i, j \in 1 .. Len(h) : i < j => h[i] < h[j]
    /\ \A i, j \in 1 .. Len(q) : i < j => q[i] < q[j]
    /\ \A i \in 1 .. Len(h), j \in 1 .. Len(q) : h[i] < q[j]
    /\ m # NULL => /\ Mine(w, m, n)
                   /\ \A j \in 1 .. Len(q) : m < q[j]
                   /\ p = "invoke" => \A i \in 1 .. Len(h) : h[i] < m

\* The round robin stands at the worker of the next message, or of the last one as long
\* as its worker has not been signalled.
Turn ==
    /\ main = "ready" => rr_index = (next - 1) % WorkerCount
    /\ main = "signal" => next > 1 /\ rr_index = (next - 2) % WorkerCount

Lines == \A w \in Worker : InLine(w, handled[w], job[w], job_queue[w], pc[w], next)

OrderInv == Turn /\ Lines

-----------------------------------------------------------------------------
\* Lines, as values.

\* Time passes, or the worker goes on without touching a message.
LEMMA LineStays ==
    ASSUME NEW w \in Worker, NEW h \in Seq(Message), NEW m \in Message \cup {NULL},
           NEW q \in Seq(Message), NEW p, NEW n \in Nat, InLine(w, h, m, q, p, n),
           NEW p2, p2 = "invoke" => p = "invoke" \/ m = NULL, NEW n2 \in Nat, n <= n2
    PROVE  InLine(w, h, m, q, p2, n2)
<1>1. ASSUME NEW x \in Message, Mine(w, x, n) PROVE Mine(w, x, n2)
  BY <1>1, Numbers DEF Mine
<1>2. \A i \in 1 .. Len(h) : h[i] \in Message
  OBVIOUS
<1>3. \A i \in 1 .. Len(q) : q[i] \in Message
  OBVIOUS
<1>4. QED
  BY <1>1, <1>2, <1>3, Zenon DEF InLine

\* A message is queued behind all others (gr_queue_enqueue).
LEMMA LineGrows ==
    ASSUME NEW w \in Worker, NEW h \in Seq(Message), NEW m \in Message \cup {NULL},
           NEW q \in Seq(Message), NEW p, NEW n \in Message, InLine(w, h, m, q, p, n),
           (n - 1) % WorkerCount = w
    PROVE  InLine(w, h, m, Append(q, n), p, n + 1)
<1> DEFINE a == Append(q, n)
<1>1. /\ Len(q) \in Nat /\ Len(a) = Len(q) + 1
      /\ \A i \in 1 .. Len(q) : a[i] = q[i]
      /\ a[Len(q) + 1] = n
  OBVIOUS
<1> HIDE DEF a
<1>2. ASSUME NEW i \in 1 .. Len(a)
      PROVE  (i \in 1 .. Len(q) /\ a[i] = q[i]) \/ (i = Len(q) + 1 /\ a[i] = n)
  <2>1. i \in 1 .. Len(q) \/ i = Len(q) + 1
    BY <1>1
  <2>2. QED
    BY <1>1, <2>1, Zenon
<1>3. n \in Nat /\ \A x \in Message : x \in Nat
  BY Numbers, Zenon
<1>4. /\ \A i \in 1 .. Len(h) : h[i] \in Message /\ Mine(w, h[i], n)
      /\ \A i \in 1 .. Len(q) : q[i] \in Message /\ Mine(w, q[i], n)
  BY DEF InLine
<1>5. ASSUME NEW x \in Message, Mine(w, x, n) PROVE Mine(w, x, n + 1) /\ x < n
  BY <1>3, <1>5 DEF Mine
<1>6. Mine(w, n, n + 1)
  BY <1>3 DEF Mine
<1>7. /\ \A i \in 1 .. Len(h) : Mine(w, h[i], n + 1)
      /\ \A i \in 1 .. Len(a) : Mine(w, a[i], n + 1)
  BY <1>2, <1>4, <1>5, <1>6, Zenon
<1>8. \A i, j \in 1 .. Len(a) : i < j => a[i] < a[j]
  <2>1. ASSUME NEW i \in 1 .. Len(a), NEW j \in 1 .. Len(a), i < j
        PROVE  a[i] < a[j]
    <3>1. i \in 1 .. Len(q) /\ a[i] = q[i]
      BY <2>1, <1>1, <1>2
    <3>2. CASE j \in 1 .. Len(q) /\ a[j] = q[j]
      BY <2>1, <3>1, <3>2, Zenon DEF InLine
    <3>3. CASE j = Len(q) + 1 /\ a[j] = n
      BY <3>1, <3>3, <1>4, <1>5, Zenon
    <3>4. QED
      BY <3>2, <3>3, <1>2, Zenon
  <2>2. QED
    BY <2>1, Zenon
<1>9. \A i \in 1 .. Len(h), j \in 1 .. Len(a) : h[i] < a[j]
  BY <1>2, <1>4, <1>5, Zenon DEF InLine
<1>10. m # NULL => Mine(w, m, n + 1) /\ \A j \in 1 .. Len(a) : m < a[j]
  BY <1>2, <1>5, Zenon DEF InLine
<1>11. InLine(w, h, m, a, p, n + 1)
  BY <1>7, <1>8, <1>9, <1>10, Zenon DEF InLine
<1>12. QED
  BY <1>11, Zenon DEF a

\* The head of the queue leaves it: for the hands of the worker, which were empty or
\* are emptied, or to be released at once.
LEMMA LineMoves ==
    ASSUME NEW w \in Worker, NEW h \in Seq(Message), NEW m \in Message \cup {NULL},
           NEW q \in Seq(Message), NEW p, NEW n \in Nat, InLine(w, h, m, q, p, n),
           q # <<>>, NEW p2
    PROVE  /\ InLine(w, h, Head(q), Tail(q), p2, n)
           /\ InLine(w, h, m, Tail(q), p, n)
<1> DEFINE r == Tail(q)
           x == Head(q)
<1>1. /\ Len(q) \in Nat \ {0} /\ x = q[1] /\ x \in Message /\ Len(r) = Len(q) - 1
      /\ \A i \in 1 .. Len(r) : r[i] = q[i + 1]
  BY EmptySeq, HeadTailProperties
<1> HIDE DEF r, x
<1>2. \A i \in 1 .. Len(r) : i + 1 \in 1 .. Len(q) /\ r[i] = q[i + 1] /\ 1 < i + 1
  BY <1>1
<1>3. 1 \in 1 .. Len(q)
  BY <1>1
<1>4. ASSUME NEW i \in 1 .. Len(r), NEW j \in 1 .. Len(r), i < j
      PROVE  r[i] < r[j]
  <2>1. i + 1 < j + 1
    BY <1>1, <1>4
  <2>2. \A k, l \in 1 .. Len(q) : k < l => q[k] < q[l]
    BY Zenon DEF InLine
  <2>3. q[i + 1] < q[j + 1]
    BY <1>2, <2>1, <2>2, Zenon
  <2>4. QED
    BY <1>2, <2>3, Zenon
<1>5. /\ \A i \in 1 .. Len(r) : Mine(w, r[i], n) /\ x < r[i]
      /\ \A i \in 1 .. Len(h), j \in 1 .. Len(r) : h[i] < r[j]
  BY <1>1, <1>2, <1>3, Zenon DEF InLine
<1>6. Mine(w, x, n) /\ \A i \in 1 .. Len(h) : h[i] < x
  BY <1>1, <1>3, Zenon DEF InLine
<1>7. InLine(w, h, x, r, p2, n)
  BY <1>4, <1>5, <1>6, Zenon DEF InLine
<1>8. InLine(w, h, m, r, p, n)
  BY <1>2, <1>4, <1>5, Zenon DEF InLine
<1>9. QED
  BY <1>7, <1>8, Zenon DEF r, x

\* The message in the worker's hands is handled (server_invoke_action).
LEMMA LineHandled ==
    ASSUME NEW w \in Worker, NEW h \in Seq(Message), NEW m \in Message,
           NEW q \in Seq(Message), NEW n \in Nat, InLine(w, h, m, q, "invoke", n)
    PROVE  InLine(w, Append(h, m), m, q, "cleanup", n)
<1> DEFINE a == Append(h, m)
<1>1. /\ Len(h) \in Nat /\ Len(a) = Len(h) + 1
      /\ \A i \in 1 .. Len(h) : a[i] = h[i]
      /\ a[Len(h) + 1] = m
  OBVIOUS
<1> HIDE DEF a
<1>2. ASSUME NEW i \in 1 .. Len(a)
      PROVE  (i \in 1 .. Len(h) /\ a[i] = h[i]) \/ (i = Len(h) + 1 /\ a[i] = m)
  <2>1. i \in 1 .. Len(h) \/ i = Len(h) + 1
    BY <1>1
  <2>2. QED
    BY <1>1, <2>1, Zenon
<1>3. /\ m # NULL /\ Mine(w, m, n) /\ \A j \in 1 .. Len(q) : m < q[j]
      /\ \A i \in 1 .. Len(h) : h[i] < m
  BY Numbers, Zenon DEF InLine
<1>4. \A i, j \in 1 .. Len(a) : i < j => a[i] < a[j]
  <2>1. ASSUME NEW i \in 1 .. Len(a), NEW j \in 1 .. Len(a), i < j
        PROVE  a[i] < a[j]
    <3>1. i \in 1 .. Len(h) /\ a[i] = h[i]
      BY <2>1, <1>1, <1>2
    <3>2. CASE j \in 1 .. Len(h) /\ a[j] = h[j]
      BY <2>1, <3>1, <3>2, Zenon DEF InLine
    <3>3. CASE j = Len(h) + 1 /\ a[j] = m
      BY <3>1, <3>3, <1>3, Zenon
    <3>4. QED
      BY <3>2, <3>3, <1>2, Zenon
  <2>2. QED
    BY <2>1, Zenon
<1>5. /\ \A i \in 1 .. Len(a) : Mine(w, a[i], n)
      /\ \A i \in 1 .. Len(a), j \in 1 .. Len(q) : a[i] < q[j]
  BY <1>2, <1>3, Zenon DEF InLine
<1>6. InLine(w, a, m, q, "cleanup", n)
  BY <1>3, <1>4, <1>5, Zenon DEF InLine
<1>7. QED
  BY <1>6, Zenon DEF a

\* The worker has nothing in its hands any more.
LEMMA LineReleased ==
    ASSUME NEW w, NEW h, NEW m, NEW q, NEW p, NEW n, InLine(w, h, m, q, p, n), NEW p2
    PROVE  InLine(w, h, NULL, q, p2, n)
BY Zenon DEF InLine

-----------------------------------------------------------------------------
\* The round robin.

\* rr_index after the signal: the next remainder.
LEMMA NextTurn ==
    ASSUME NEW a \in Nat, NEW c \in Nat \ {0}
    PROVE  (a + 1) % c = IF (a % c) + 1 = c THEN 0 ELSE (a % c) + 1
<1> DEFINE k == a \div c
           r == a % c
<1>1. k \in Int /\ r \in 0 .. c - 1 /\ a = c * k + r
  OBVIOUS
<1> HIDE DEF k, r
<1>2. ASSUME NEW l \in Int, NEW s \in 0 .. c - 1 PROVE (c * l + s) % c = s
  OBVIOUS
<1>3. CASE r + 1 = c
  <2>1. a + 1 = c * (k + 1) + 0
    BY <1>1, <1>3
  <2>2. (c * (k + 1) + 0) % c = 0
    BY <1>1, <1>2
  <2>3. QED
    BY <2>1, <2>2, <1>3, Zenon DEF r
<1>4. CASE r + 1 # c
  <2>1. a + 1 = c * k + (r + 1) /\ r + 1 \in 0 .. c - 1
    BY <1>1, <1>4
  <2>2. (c * k + (r + 1)) % c = r + 1
    BY <1>1, <1>2, <2>1, Zenon
  <2>3. QED
    BY <2>1, <2>2, <1>4, Zenon DEF r
<1>5. QED
  BY <1>3, <1>4, Zenon

\* Only dispatch moves the round robin, and nothing is dispatched once destroy has begun.
LEMMA TurnPreserved ==
    ASSUME TypeOK, Turn, [Next]_vars
    PROVE  Turn'
<1>1. next \in Nat \ {0} /\ WorkerCount \in Nat \ {0}
  BY WorkerPoolAssumption DEF TypeOK
<1>2. CASE gracht_worker_pool_dispatch
  <2>1. /\ main = "ready" /\ main' = "signal" /\ next' = next + 1 /\ rr_index' = rr_index
        /\ rr_index = (next - 1) % WorkerCount
    BY <1>2, Zenon DEF gracht_worker_pool_dispatch, Turn
  <2>2. next' > 1 /\ next' - 2 = next - 1
    BY <1>1, <2>1
  <2>3. QED
    BY <2>1, <2>2, Zenon DEF Turn
<1>3. CASE DispatchSignal
  <2>1. /\ main' = "ready" /\ next' = next /\ next > 1 /\ rr_index = (next - 2) % WorkerCount
        /\ rr_index' = IF rr_index + 1 = WorkerCount THEN 0 ELSE rr_index + 1
    BY <1>3, Zenon DEF DispatchSignal, Turn
  <2>2. next - 2 \in Nat /\ (next - 2) + 1 = next - 1
    BY <1>1, <2>1
  <2>3. ((next - 2) + 1) % WorkerCount = rr_index'
    BY <1>1, <2>1, <2>2, NextTurn, Zenon
  <2>4. QED
    BY <2>1, <2>2, <2>3, Zenon DEF Turn
<1>4. CASE gracht_worker_pool_destroy \/ ShutdownSignal \/ JoinWorker
  BY <1>4, Zenon DEF gracht_worker_pool_destroy, ShutdownSignal, JoinWorker, Turn
<1>5. ASSUME NEW w \in Worker, WorkerStep(w) \/ SpuriousWakeUp(w)
      PROVE  Turn'
  <2>1. (main' = main \/ main' = "crashed") /\ UNCHANGED <<rr_index, next>>
    BY <1>5, Zenon DEF WorkerStep, SpuriousWakeUp, Startup, Dequeue, Wait, Woken, server_invoke_action,
                server_cleanup_message, CheckState, Drain, mainVars
  <2>2. QED
    BY <2>1, Zenon DEF Turn
<1>6. CASE UNCHANGED vars
  BY <1>6, Zenon DEF vars, mainVars, Turn
<1>7. QED
  BY <1>2, <1>3, <1>4, <1>5, <1>6, Zenon DEF Next, MainStep

-----------------------------------------------------------------------------
\* The steps.

\* What every line is made of, before and after a step.
LEMMA LineTypes ==
    ASSUME TypeOK, NEW w \in Worker
    PROVE  /\ handled[w] \in Seq(Message) /\ job[w] \in Message \cup {NULL}
           /\ job_queue[w] \in Seq(Message) /\ next \in Nat
BY WorkerPoolAssumption DEF TypeOK

\* The lines of the workers that a step leaves alone.
LEMMA OtherLines ==
    ASSUME TypeOK, Lines, NEW v \in Worker,
           handled'[v] = handled[v], job'[v] = job[v], job_queue'[v] = job_queue[v],
           pc'[v] = "invoke" => pc[v] = "invoke" \/ job[v] = NULL,
           next' \in Nat, next <= next'
    PROVE  InLine(v, handled'[v], job'[v], job_queue'[v], pc'[v], next')
<1>1. InLine(v, handled[v], job[v], job_queue[v], pc[v], next)
  BY Zenon DEF Lines
<1>2. InLine(v, handled[v], job[v], job_queue[v], pc'[v], next')
  BY <1>1, LineTypes, LineStays, Zenon
<1>3. QED
  BY <1>2, Zenon

\* A step of one worker preserves the lines if it preserves its own.
LEMMA OwnLine ==
    ASSUME TypeOK, Lines, NEW w \in Worker, next' = next,
           \A v \in Worker \ {w} : /\ handled'[v] = handled[v] /\ job'[v] = job[v]
                                   /\ job_queue'[v] = job_queue[v] /\ pc'[v] = pc[v],
           InLine(w, handled'[w], job'[w], job_queue'[w], pc'[w], next)
    PROVE  Lines'
<1>1. ASSUME NEW v \in Worker \ {w}
      PROVE  InLine(v, handled'[v], job'[v], job_queue'[v], pc'[v], next')
  BY OtherLines, LineTypes
<1>2. QED
  BY <1>1, Zenon DEF Lines

\* The main thread: a dispatched message joins the line of the worker whose turn it is.
LEMMA MainKeepsLines ==
    ASSUME TypeOK, OrderInv, MainStep
    PROVE  Lines'
<1> USE DEF OrderInv
<1>1. next \in Nat /\ next' \in Nat /\ next <= next'
  BY WorkerPoolAssumption
     DEF TypeOK, MainStep, gracht_worker_pool_dispatch, DispatchSignal,
         gracht_worker_pool_destroy, ShutdownSignal, JoinWorker
<1>2. /\ UNCHANGED <<handled, job>>
      /\ \A v \in Worker : pc'[v] = "invoke" => pc[v] = "invoke"
  BY Zenon DEF MainStep, gracht_worker_pool_dispatch, DispatchSignal, gracht_worker_pool_destroy,
         ShutdownSignal, JoinWorker, workerVars, Signal, TypeOK
<1>3. CASE UNCHANGED job_queue
  <2>1. ASSUME NEW v \in Worker
        PROVE  InLine(v, handled'[v], job'[v], job_queue'[v], pc'[v], next')
    BY <1>1, <1>2, <1>3, OtherLines, Zenon
  <2>2. QED
    BY <2>1, Zenon DEF Lines
<1>4. CASE /\ gracht_worker_pool_dispatch
           /\ job_queue' = [job_queue EXCEPT ![rr_index] = Append(@, next)]
  <2>1. /\ next \in Message /\ next' = next + 1 /\ rr_index \in Worker
        /\ (next - 1) % WorkerCount = rr_index /\ pc' = pc
    BY <1>4, WorkerPoolAssumption
       DEF gracht_worker_pool_dispatch, TypeOK, Message, Turn, workerVars
  <2>2. /\ job_queue'[rr_index] = Append(job_queue[rr_index], next)
        /\ \A v \in Worker \ {rr_index} : job_queue'[v] = job_queue[v]
    BY <1>4, <2>1, Zenon DEF TypeOK
  <2>3. ASSUME NEW v \in Worker \ {rr_index}
        PROVE  InLine(v, handled'[v], job'[v], job_queue'[v], pc'[v], next')
    BY <1>1, <1>2, <2>1, <2>2, OtherLines, Zenon
  <2>4. InLine(rr_index, handled[rr_index], job[rr_index], Append(job_queue[rr_index], next),
               pc[rr_index], next + 1)
    BY <2>1, LineTypes, LineGrows, Zenon DEF Lines
  <2>5. QED
    BY <1>2, <2>1, <2>2, <2>3, <2>4, Zenon DEF Lines
<1>5. QED
  BY <1>3, <1>4, Zenon DEF MainStep, gracht_worker_pool_dispatch, DispatchSignal,
                    gracht_worker_pool_destroy, ShutdownSignal, JoinWorker

\* A worker: what leaves the queue is the oldest message in it, and what is handled
\* comes after all that was.
LEMMA WorkerKeepsLines ==
    ASSUME TypeOK, Lines, NEW w \in Worker, WorkerStep(w) \/ SpuriousWakeUp(w)
    PROVE  Lines'
<1> DEFINE h == handled[w]
           m == job[w]
           q == job_queue[w]
<1>1. /\ h \in Seq(Message) /\ m \in Message \cup {NULL} /\ q \in Seq(Message) /\ next \in Nat
      /\ InLine(w, h, m, q, pc[w], next)
  BY LineTypes, Zenon DEF Lines
<1>0. pc'[w] # "invoke" => InLine(w, h, m, q, pc'[w], next)
  <2>1. next <= next
    BY <1>1
  <2>2. \A p : p # "invoke" => InLine(w, h, m, q, p, next)
    BY <1>1, <2>1, LineStays, Zenon
  <2>3. QED
    BY <2>2, Zenon
<1>2. CASE Startup(w) \/ Wait(w) \/ SpuriousWakeUp(w) \/ CheckState(w)
  <2>1. /\ UNCHANGED <<handled, job, job_queue, next>> /\ pc'[w] # "invoke"
        /\ \A v \in Worker \ {w} : pc'[v] = pc[v]
    BY <1>2, Zenon DEF Startup, Wait, SpuriousWakeUp, CheckState, mainVars, TypeOK
  <2>2. InLine(w, h, m, q, pc'[w], next)
    BY <1>0, <2>1, Zenon
  <2>3. QED
    BY <2>1, <2>2, OwnLine, Zenon
<1>3. CASE (Dequeue(w) \/ Woken(w)) /\ UNCHANGED <<job, job_queue>> /\ pc'[w] # "invoke"
  <2>1. /\ UNCHANGED <<handled, job, job_queue, next>> /\ pc'[w] # "invoke"
        /\ \A v \in Worker \ {w} : pc'[v] = pc[v]
    BY <1>3, Zenon DEF Dequeue, Woken, mainVars, TypeOK
  <2>2. InLine(w, h, m, q, pc'[w], next)
    BY <1>0, <2>1, Zenon
  <2>3. QED
    BY <2>1, <2>2, OwnLine, Zenon
<1>4. CASE /\ Dequeue(w) \/ Woken(w)
           /\ q # <<>> /\ job' = [job EXCEPT ![w] = Head(q)]
           /\ job_queue' = [job_queue EXCEPT ![w] = Tail(q)]
  <2>1. /\ UNCHANGED <<handled, next>> /\ job'[w] = Head(q) /\ job_queue'[w] = Tail(q)
        /\ \A v \in Worker \ {w} : /\ job'[v] = job[v] /\ job_queue'[v] = job_queue[v]
                                  /\ pc'[v] = pc[v]
    BY <1>4, Zenon DEF Dequeue, Woken, mainVars, TypeOK
  <2>2. InLine(w, h, Head(q), Tail(q), pc'[w], next)
    BY <1>1, <1>4, LineMoves, Zenon
  <2>3. QED
    BY <2>1, <2>2, OwnLine, Zenon
<1>5. CASE Woken(w) /\ job' = [job EXCEPT ![w] = NULL] /\ UNCHANGED job_queue
  <2>1. /\ UNCHANGED <<handled, job_queue, next>> /\ job'[w] = NULL
        /\ \A v \in Worker \ {w} : job'[v] = job[v] /\ pc'[v] = pc[v]
    BY <1>5, Zenon DEF Woken, mainVars, TypeOK
  <2>2. InLine(w, h, NULL, q, pc'[w], next)
    BY <1>1, LineReleased, Zenon
  <2>3. QED
    BY <2>1, <2>2, OwnLine, Zenon
<1>6. CASE server_invoke_action(w) /\ m = NULL
  <2>1. /\ UNCHANGED <<handled, job, job_queue, next>>
        /\ \A v \in Worker : pc'[v] = "crashed"
    BY <1>6, Zenon DEF server_invoke_action
  <2>2. ASSUME NEW v \in Worker
        PROVE  InLine(v, handled'[v], job'[v], job_queue'[v], pc'[v], next')
    BY <1>1, <2>1, OtherLines
  <2>3. QED
    BY <2>2, Zenon DEF Lines
<1>7. CASE server_invoke_action(w) /\ m # NULL
  <2>1. /\ UNCHANGED <<job, job_queue, next>> /\ pc[w] = "invoke" /\ pc'[w] = "cleanup"
        /\ handled'[w] = Append(h, m)
        /\ \A v \in Worker \ {w} : handled'[v] = handled[v] /\ pc'[v] = pc[v]
    BY <1>7, Zenon DEF server_invoke_action, TypeOK
  <2>2. InLine(w, Append(h, m), m, q, "cleanup", next)
    BY <1>1, <1>7, <2>1, LineHandled, Zenon
  <2>3. QED
    BY <2>1, <2>2, OwnLine, Zenon
<1>8. CASE server_cleanup_message(w)
  <2>1. /\ UNCHANGED <<handled, job_queue, next>> /\ job'[w] = NULL
        /\ \A v \in Worker \ {w} : job'[v] = job[v] /\ pc'[v] = pc[v]
    BY <1>8, Zenon DEF server_cleanup_message, mainVars, TypeOK
  <2>2. InLine(w, h, NULL, q, pc'[w], next)
    BY <1>1, LineReleased, Zenon
  <2>3. QED
    BY <2>1, <2>2, OwnLine, Zenon
<1>9. CASE Drain(w) /\ q # <<>>
  <2>1. /\ UNCHANGED <<handled, job, next, pc>> /\ job_queue'[w] = Tail(q)
        /\ \A v \in Worker \ {w} : job_queue'[v] = job_queue[v]
    BY <1>9, Zenon DEF Drain, mainVars, TypeOK
  <2>2. InLine(w, h, m, Tail(q), pc[w], next)
    BY <1>1, <1>9, LineMoves, Zenon
  <2>3. QED
    BY <2>1, <2>2, OwnLine, Zenon
<1>10. CASE Drain(w) /\ q = <<>>
  <2>1. /\ UNCHANGED <<handled, job, job_queue, next>> /\ pc'[w] # "invoke"
        /\ \A v \in Worker \ {w} : pc'[v] = pc[v]
    BY <1>10, Zenon DEF Drain, mainVars, TypeOK
  <2>2. InLine(w, h, m, q, pc'[w], next)
    BY <1>0, <2>1, Zenon
  <2>3. QED
    BY <2>1, <2>2, OwnLine, Zenon
<1>11. CASE Dequeue(w)
  <2>1. CASE q # <<>>
    BY <1>4, <1>11, <2>1, Zenon DEF Dequeue
  <2>2. CASE q = <<>>
    BY <1>3, <1>11, <2>2, Zenon DEF Dequeue, TypeOK
  <2>3. QED
    BY <2>1, <2>2, Zenon
<1>12. CASE Woken(w)
  <2>1. CASE state[w] = "SHUTDOWN_REQUEST"
    BY <1>3, <1>12, <2>1, Zenon DEF Woken, TypeOK
  <2>2. CASE state[w] # "SHUTDOWN_REQUEST" /\ q # <<>>
    BY <1>4, <1>12, <2>2, Zenon DEF Woken
  <2>3. CASE state[w] # "SHUTDOWN_REQUEST" /\ q = <<>>
    BY <1>5, <1>12, <2>3, Zenon DEF Woken, TypeOK
  <2>4. QED
    BY <2>1, <2>2, <2>3, Zenon
<1>13. QED
  BY <1>2, <1>6, <1>7, <1>8, <1>9, <1>10, <1>11, <1>12, Zenon DEF WorkerStep

\* A worker of gracht_worker_pool_dispatch invokes the messages that were its turn, each
\* once and in the order of dispatch: HandledInOrder, for every pool.
THEOREM MessagesAreHandledInOrder == Spec => []HandledInOrder
<1>1. Init => OrderInv
  <2> SUFFICES ASSUME Init PROVE OrderInv
    BY Zenon
  <2>1. Turn
    BY WorkerPoolAssumption DEF Init, Turn
  <2>2. ASSUME NEW w \in Worker
        PROVE  InLine(w, handled[w], job[w], job_queue[w], pc[w], next)
    <3>1. Len(handled[w]) = 0 /\ Len(job_queue[w]) = 0 /\ job[w] = NULL
      BY Zenon DEF Init
    <3>2. QED
      BY <3>1 DEF InLine
  <2>3. QED
    BY <2>1, <2>2, Zenon DEF OrderInv, Lines
<1>2. TypeOK /\ OrderInv /\ [Next]_vars => OrderInv'
  <2> SUFFICES ASSUME TypeOK, OrderInv, [Next]_vars PROVE OrderInv'
    BY Zenon
  <2>1. Turn'
    BY TurnPreserved, Zenon DEF OrderInv
  <2>2. CASE UNCHANGED vars
    BY <2>1, <2>2, Zenon DEF OrderInv, Lines, vars, mainVars, workerVars
  <2>3. CASE Next
    BY <2>1, <2>3, MainKeepsLines, WorkerKeepsLines, Zenon DEF OrderInv, Next
  <2>4. QED
    BY <2>2, <2>3, Zenon
<1>3. OrderInv => HandledInOrder
  BY Zenon DEF OrderInv, Lines, InLine, Mine, HandledInOrder
<1>4. QED
  BY <1>1, <1>2, <1>3, PoolTypeCorrect, PTL DEF Spec

-----------------------------------------------------------------------------
(* The rings                                                               *)

-----------------------------------------------------------------------------
\* Remainders: the index arithmetic of gr_queue on unsigned integers.

\* A slot number or a wrapped index is in range.
LEMMA ModRange ==
    ASSUME NEW a \in Int, NEW b \in Nat \ {0}
    PROVE  a % b \in 0 .. b - 1
OBVIOUS

\* Division with remainder.
LEMMA ModDiv ==
    ASSUME NEW a \in Int, NEW b \in Nat \ {0}
    PROVE  a \div b \in Int /\ a = b * (a \div b) + (a % b)
OBVIOUS

\* The remainder is determined by its range.
LEMMA ModUnique ==
    ASSUME NEW b \in Nat \ {0}, NEW k \in Int, NEW r \in 0 .. b - 1
    PROVE  (b * k + r) % b = r
OBVIOUS

\* Adding a multiple of the divisor, such as the range of an index to the
\* capacity of the ring, does not change the slot.
LEMMA ModMultiple ==
    ASSUME NEW a \in Int, NEW b \in Nat \ {0}, NEW m \in Int, m % b = 0
    PROVE  (a + m) % b = a % b
<1> DEFINE ka == a \div b
           km == m \div b
           r == a % b
<1>1. ka \in Int /\ a = b * ka + r /\ r \in 0 .. b - 1
  BY ModDiv, ModRange, Zenon
<1>2. km \in Int /\ m = b * km + 0
  BY ModDiv, Zenon
<1> HIDE DEF ka, km, r
<1>3. a + m = b * (ka + km) + r
  BY <1>1, <1>2
<1>4. (b * (ka + km) + r) % b = r
  BY <1>1, <1>2, ModUnique
<1>5. QED
  BY <1>3, <1>4, Zenon DEF r

\* The difference of two indices, and the successor of one, without remainders.
LEMMA Closed ==
    ASSUME NEW q \in 0 .. Wrap - 1, NEW d \in 0 .. Wrap - 1, Wrap \in Nat
    PROVE  /\ (q - d) % Wrap = IF d <= q THEN q - d ELSE (q - d) + Wrap
           /\ (q + 1) % Wrap = IF q + 1 = Wrap THEN 0 ELSE q + 1
OBVIOUS

\* Fewer than capacity consecutive positions lie in different slots.
LEMMA Distinct ==
    ASSUME NEW d \in Nat, NEW c \in Nat \ {0}, NEW i \in 0 .. c - 1, NEW j \in 0 .. c - 1,
           i # j
    PROVE  (d + i) % c # (d + j) % c
<1> SUFFICES ASSUME (d + i) % c = (d + j) % c PROVE FALSE
  BY Zenon
<1> DEFINE ki == (d + i) \div c
           kj == (d + j) \div c
           r == (d + i) % c
<1>1. /\ ki \in Int /\ kj \in Int /\ r \in 0 .. c - 1
      /\ d + i = c * ki + r
      /\ d + j = c * kj + r
  <2>1. d + i \in Int /\ d + j \in Int
    OBVIOUS
  <2>2. ki \in Int /\ d + i = c * ki + ((d + i) % c)
    BY <2>1, ModDiv, Zenon
  <2>3. kj \in Int /\ d + j = c * kj + ((d + j) % c)
    BY <2>1, ModDiv, Zenon
  <2>4. r \in 0 .. c - 1
    BY <2>1, ModRange, Zenon
  <2>5. QED
    BY <2>2, <2>3, <2>4, Zenon
<1> HIDE DEF ki, kj, r
<1>2. i - j = c * (ki - kj)
  BY <1>1
<1>3. CASE ki - kj = 0
  BY <1>2, <1>3
<1>4. CASE ki - kj >= 1
  BY <1>1, <1>2, <1>4
<1>5. CASE ki - kj <= -1
  BY <1>1, <1>2, <1>5
<1>6. QED
  BY <1>1, <1>3, <1>4, <1>5

-----------------------------------------------------------------------------
\* Types of the fields of struct gr_queue.
RingType ==
    /\ queue_index \in [Worker -> 0 .. Wrap - 1]
    /\ dequeue_index \in [Worker -> 0 .. Wrap - 1]
    /\ elements \in [Worker -> [0 .. QueueSize - 1 -> Message \cup {Garbage}]]

\* The slots from dequeue_index up to queue_index hold the queued messages.
Mirrors(w) ==
    /\ Ring!Queued(w) = Len(job_queue[w])
    /\ \A i \in 1 .. Len(job_queue[w]) :
          job_queue[w][i] = elements[w][(dequeue_index[w] + (i - 1)) % QueueSize]

\* The inductive invariant of the rings.
RingInv == RingType /\ \A w \in Worker : Mirrors(w)

\* The capacity divides the range of the indices and is smaller.
LEMMA Sizes ==
    /\ QueueSize \in Nat \ {0} /\ Wrap \in Nat \ {0} /\ Wrap > QueueSize
    /\ Wrap % QueueSize = 0
BY RingAssumption, WorkerPoolAssumption DEF Ring!QueueAssumption

\* What the ring holds is what WorkerPool believes to be queued.
LEMMA ItemsAreJobs ==
    ASSUME TypeOK, RingInv
    PROVE  Ring!Items = job_queue
<1>1. ASSUME NEW w \in Worker
      PROVE  Ring!Items[w] = job_queue[w]
  <2> DEFINE q == job_queue[w]
  <2>1. q \in Seq(Message)
    BY Zenon DEF TypeOK
  <2>2. Len(q) \in Nat /\ q = [i \in 1 .. Len(q) |-> q[i]]
    BY <2>1, LenProperties, Zenon
  <2>3. Ring!Queued(w) = Len(q)
    BY Zenon DEF RingInv, Mirrors
  <2>4. \A i \in 1 .. Len(q) : q[i] = elements[w][(dequeue_index[w] + (i - 1)) % QueueSize]
    BY Zenon DEF RingInv, Mirrors
  <2>5. Ring!Items[w]
          = [i \in 1 .. Len(q) |-> elements[w][(dequeue_index[w] + (i - 1)) % QueueSize]]
    BY <2>3, Zenon DEF Ring!Items
  <2> HIDE DEF q
  <2>6. QED
    BY <2>2, <2>4, <2>5, Zenon DEF q
<1>2. job_queue = [w \in Worker |-> job_queue[w]]
  BY Zenon DEF TypeOK
<1>3. Ring!Items = [w \in Worker |-> Ring!Items[w]]
  BY Zenon DEF Ring!Items
<1>4. QED
  BY <1>1, <1>2, <1>3, Zenon

\* gr_queue_enqueue refuses exactly when the pool sees a full queue, and
\* gr_queue_dequeue finds nothing exactly when the pool sees an empty one.
LEMMA QueueBounds ==
    ASSUME TypeOK, RingInv, NEW w \in Worker
    PROVE  /\ Ring!capacity_remaining(w) # 0 <=> Len(job_queue[w]) < QueueSize
           /\ dequeue_index[w] = queue_index[w] <=> job_queue[w] = <<>>
<1> DEFINE n == Len(job_queue[w])
           q == queue_index[w]
           d == dequeue_index[w]
<1>1. job_queue[w] \in Seq(Message) /\ n \in Nat /\ n <= QueueSize
  BY DEF TypeOK
<1>2. (q - d) % Wrap = n
  BY Zenon DEF RingInv, Mirrors, Ring!Queued
<1>3. q \in 0 .. Wrap - 1 /\ d \in 0 .. Wrap - 1
  BY Zenon DEF RingInv, RingType
<1>4. Ring!capacity_remaining(w) = QueueSize - n
  BY <1>2, Zenon DEF Ring!capacity_remaining, Ring!Queued
<1>5. n = 0 <=> job_queue[w] = <<>>
  BY <1>1, EmptySeq, Zenon
<1> HIDE DEF n, q, d
<1>6. d = q <=> n = 0
  BY <1>2, <1>3, Closed, Sizes
<1>7. Ring!capacity_remaining(w) # 0 <=> n < QueueSize
  BY <1>1, <1>4, Sizes
<1>8. QED
  BY <1>5, <1>6, <1>7, Zenon DEF n, q, d

\* A queue that a step does not touch keeps its relation to the ring.
LEMMA MirrorSame ==
    ASSUME NEW v \in Worker, Mirrors(v), job_queue'[v] = job_queue[v],
           elements'[v] = elements[v], queue_index'[v] = queue_index[v],
           dequeue_index'[v] = dequeue_index[v]
    PROVE  Mirrors(v)'
BY Zenon DEF Mirrors, Ring!Queued

\* Both indices may wrap around: advancing queue_index adds one element, at the
\* slot behind the last one; advancing dequeue_index removes one, and the others
\* keep their slots.
LEMMA Advance ==
    ASSUME NEW q \in 0 .. Wrap - 1, NEW d \in 0 .. Wrap - 1, NEW n \in 0 .. QueueSize,
           (q - d) % Wrap = n
    PROVE  /\ (q + 1) % Wrap \in 0 .. Wrap - 1
           /\ n < QueueSize => (((q + 1) % Wrap) - d) % Wrap = n + 1
           /\ q % QueueSize = (d + n) % QueueSize
           /\ n > 0 => (q - ((d + 1) % Wrap)) % Wrap = n - 1
           /\ \A i \in Nat : (((d + 1) % Wrap) + i) % QueueSize = (d + (i + 1)) % QueueSize
<1> USE Sizes
<1>1. n = IF d <= q THEN q - d ELSE (q - d) + Wrap
  BY Closed, Zenon
<1>2. (q + 1) % Wrap = IF q + 1 = Wrap THEN 0 ELSE q + 1
  BY Closed, Zenon
<1>3. (d + 1) % Wrap = IF d + 1 = Wrap THEN 0 ELSE d + 1
  BY Closed, Zenon
<1> DEFINE q1 == (q + 1) % Wrap
           d1 == (d + 1) % Wrap
<1>4. q1 \in 0 .. Wrap - 1 /\ d1 \in 0 .. Wrap - 1
  BY <1>2, <1>3
<1>5. ASSUME n < QueueSize PROVE (q1 - d) % Wrap = n + 1
  <2>1. (q1 - d) % Wrap = IF d <= q1 THEN q1 - d ELSE (q1 - d) + Wrap
    BY <1>4, Closed, Zenon
  <2>2. QED
    BY <2>1, <1>1, <1>2, <1>5
<1>6. ASSUME n > 0 PROVE (q - d1) % Wrap = n - 1
  <2>1. (q - d1) % Wrap = IF d1 <= q THEN q - d1 ELSE (q - d1) + Wrap
    BY <1>4, Closed, Zenon
  <2>2. QED
    BY <2>1, <1>1, <1>3, <1>6
<1>7. q % QueueSize = (d + n) % QueueSize
  <2>1. d + n = q \/ d + n = q + Wrap
    BY <1>1
  <2>2. (q + Wrap) % QueueSize = q % QueueSize
    <3>1. q \in Int /\ Wrap \in Int
      OBVIOUS
    <3>2. QED
      BY <3>1, ModMultiple, Zenon
  <2>3. QED
    BY <2>1, <2>2, Zenon
<1>8. ASSUME NEW i \in Nat PROVE (d1 + i) % QueueSize = (d + (i + 1)) % QueueSize
  <2>1. d + (i + 1) = d1 + i \/ d + (i + 1) = (d1 + i) + Wrap
    BY <1>3
  <2>2. d1 + i \in Int /\ Wrap \in Int
    BY <1>4
  <2>3. ((d1 + i) + Wrap) % QueueSize = (d1 + i) % QueueSize
    BY <2>2, ModMultiple, Zenon
  <2>4. QED
    BY <2>1, <2>3, Zenon
<1>9. QED
  BY <1>4, <1>5, <1>6, <1>7, <1>8, Zenon

\* gr_queue_enqueue with space left appends to the queue.
LEMMA Stored ==
    ASSUME TypeOK, RingInv, NEW w \in Worker, NEW m \in Message,
           Ring!EnqueueStores(w, m), OnlyQueue(w, Append(job_queue[w], m))
    PROVE  RingInv'
<1> DEFINE s == job_queue[w]
           n == Len(s)
           q == queue_index[w]
           d == dequeue_index[w]
           slot == q % QueueSize
<1>1. /\ s \in Seq(Message) /\ n \in 0 .. QueueSize
      /\ q \in 0 .. Wrap - 1 /\ d \in 0 .. Wrap - 1
      /\ (q - d) % Wrap = n
      /\ \A i \in 1 .. n : s[i] = elements[w][(d + (i - 1)) % QueueSize]
  BY DEF TypeOK, RingInv, RingType, Mirrors, Ring!Queued
<1>2. n < QueueSize
  BY QueueBounds, Zenon DEF Ring!EnqueueStores
<1>3. slot \in 0 .. QueueSize - 1
  <2>1. q \in Int
    BY <1>1, Sizes
  <2>2. QED
    BY <2>1, Sizes, ModRange, Zenon
<1>4. /\ job_queue'[w] = Append(s, m)
      /\ \A v \in Worker : v # w => job_queue'[v] = job_queue[v]
  BY Zenon DEF OnlyQueue, TypeOK
<1>5. /\ queue_index'[w] = (q + 1) % Wrap
      /\ dequeue_index' = dequeue_index
      /\ \A v \in Worker : v # w => queue_index'[v] = queue_index[v]
  BY Zenon DEF Ring!EnqueueStores, RingInv, RingType
<1>6. elements' = [elements EXCEPT ![w][slot] = m]
  BY Zenon DEF Ring!EnqueueStores
<1>7. /\ elements'[w] = [elements[w] EXCEPT ![slot] = m]
      /\ \A v \in Worker : v # w => elements'[v] = elements[v]
  BY <1>6, Zenon DEF RingInv, RingType
<1>8. elements[w] \in [0 .. QueueSize - 1 -> Message \cup {Garbage}]
  BY Zenon DEF RingInv, RingType
<1>9. /\ elements'[w][slot] = m
      /\ \A k \in 0 .. QueueSize - 1 : k # slot => elements'[w][k] = elements[w][k]
  BY <1>3, <1>7, <1>8, Zenon
<1>10. RingType'
  <2>1. queue_index' \in [Worker -> 0 .. Wrap - 1]
    <3>1. (q + 1) % Wrap \in 0 .. Wrap - 1
      BY <1>1, Advance, Zenon
    <3>2. QED
      BY <3>1, Zenon DEF RingInv, RingType, Ring!EnqueueStores
  <2>2. elements' \in [Worker -> [0 .. QueueSize - 1 -> Message \cup {Garbage}]]
    <3>1. [elements[w] EXCEPT ![slot] = m] \in [0 .. QueueSize - 1 -> Message \cup {Garbage}]
      BY <1>8, Zenon
    <3>2. elements' = [elements EXCEPT ![w] = [elements[w] EXCEPT ![slot] = m]]
      BY <1>6, Zenon
    <3>3. QED
      BY <3>1, <3>2, Zenon DEF RingInv, RingType
  <2>3. QED
    BY <2>1, <2>2, <1>5, Zenon DEF RingInv, RingType
<1>11. ASSUME NEW v \in Worker, v # w PROVE Mirrors(v)'
  BY <1>11, <1>4, <1>5, <1>7, MirrorSame, Zenon DEF RingInv
<1> HIDE DEF slot
<1>12. Mirrors(w)'
  <2>1. /\ Len(Append(s, m)) = n + 1
        /\ \A i \in 1 .. n : Append(s, m)[i] = s[i]
        /\ Append(s, m)[n + 1] = m
    BY <1>1
  <2>2. (queue_index'[w] - dequeue_index'[w]) % Wrap = n + 1
    BY <1>1, <1>2, <1>5, Advance
  <2>3. slot = (d + n) % QueueSize
    BY <1>1, Advance DEF slot
  <2>4. ASSUME NEW i \in 1 .. n + 1
        PROVE  Append(s, m)[i] = elements'[w][(d + (i - 1)) % QueueSize]
    <3>1. CASE i = n + 1
      <4>1. i - 1 = n
        BY <3>1, <1>1
      <4>2. QED
        BY <3>1, <4>1, <2>1, <2>3, <1>9, Zenon
    <3>2. CASE i \in 1 .. n
      <4>1. i - 1 \in 0 .. QueueSize - 1 /\ n \in 0 .. QueueSize - 1 /\ i - 1 # n /\ d \in Nat
        <5> HIDE DEF n, d
        <5> QED
          BY <3>2, <1>1, <1>2, Sizes
      <4>2. (d + (i - 1)) % QueueSize # slot
        BY <4>1, <2>3, Sizes, Distinct, Zenon
      <4>3. (d + (i - 1)) % QueueSize \in 0 .. QueueSize - 1
        <5>1. d + (i - 1) \in Int
          BY <4>1
        <5>2. QED
          BY <5>1, Sizes, ModRange, Zenon
      <4>4. QED
        BY <3>2, <4>2, <4>3, <2>1, <1>1, <1>9, Zenon
    <3>3. QED
      BY <3>1, <3>2, <1>1
  <2>5. QED
    BY <2>1, <2>2, <2>4, <1>4, <1>5, Zenon DEF Mirrors, Ring!Queued
<1>13. QED
  BY <1>10, <1>11, <1>12, Zenon DEF RingInv

\* gr_queue_dequeue of a queue that is not empty removes its first element and
\* returns it.
LEMMA Taken ==
    ASSUME TypeOK, RingInv, NEW w \in Worker, job_queue[w] # <<>>,
           Ring!DequeueTakes(w), OnlyQueue(w, Tail(job_queue[w]))
    PROVE  /\ RingInv'
           /\ elements[w][dequeue_index[w] % QueueSize] = Head(job_queue[w])
<1> DEFINE s == job_queue[w]
           n == Len(s)
           q == queue_index[w]
           d == dequeue_index[w]
           d1 == (d + 1) % Wrap
<1>1. /\ s \in Seq(Message) /\ n \in 0 .. QueueSize
      /\ q \in 0 .. Wrap - 1 /\ d \in 0 .. Wrap - 1
      /\ (q - d) % Wrap = n
      /\ \A i \in 1 .. n : s[i] = elements[w][(d + (i - 1)) % QueueSize]
  BY DEF TypeOK, RingInv, RingType, Mirrors, Ring!Queued
<1>2. n > 0 /\ Head(s) = s[1]
  BY <1>1, EmptySeq
<1>3. /\ job_queue'[w] = Tail(s)
      /\ \A v \in Worker : v # w => job_queue'[v] = job_queue[v]
  BY Zenon DEF OnlyQueue, TypeOK
<1>4. /\ dequeue_index'[w] = d1
      /\ elements' = elements /\ queue_index' = queue_index
      /\ \A v \in Worker : v # w => dequeue_index'[v] = dequeue_index[v]
  BY Zenon DEF Ring!DequeueTakes, RingInv, RingType
<1>5. RingType'
  <2>0. d + 1 \in Int /\ Wrap \in Nat \ {0}
    BY <1>1, Sizes
  <2>1. d1 \in 0 .. Wrap - 1
    BY <2>0, ModRange, Zenon
  <2>2. dequeue_index' \in [Worker -> 0 .. Wrap - 1]
    BY <2>1, Zenon DEF RingInv, RingType, Ring!DequeueTakes
  <2>3. QED
    BY <2>2, <1>4, Zenon DEF RingInv, RingType
<1>6. ASSUME NEW v \in Worker, v # w PROVE Mirrors(v)'
  BY <1>6, <1>3, <1>4, MirrorSame, Zenon DEF RingInv
<1>7. Len(Tail(s)) = n - 1 /\ \A i \in 1 .. n - 1 : Tail(s)[i] = s[i + 1]
  BY <1>1, <1>2, HeadTailProperties, Zenon
<1>8. (queue_index'[w] - dequeue_index'[w]) % Wrap = n - 1
  <2>1. (q - d1) % Wrap = n - 1
    BY <1>1, <1>2, Advance
  <2>2. QED
    BY <2>1, <1>4, Zenon
<1>9. ASSUME NEW i \in 1 .. n - 1
      PROVE  Tail(s)[i] = elements'[w][(d1 + (i - 1)) % QueueSize]
  <2>1. i \in Nat /\ i + 1 \in 1 .. n /\ (i + 1) - 1 = i /\ i - 1 \in Nat /\ (i - 1) + 1 = i
    BY <1>1
  <2>2. s[i + 1] = elements[w][(d + i) % QueueSize]
    BY <2>1, <1>1, Zenon
  <2>3. (d1 + (i - 1)) % QueueSize = (d + ((i - 1) + 1)) % QueueSize
    BY <2>1, <1>1, Advance, Zenon
  <2>4. QED
    BY <2>1, <2>2, <2>3, <1>4, <1>7, Zenon
<1>10. Mirrors(w)'
  <2> HIDE DEF s, n, d1
  <2> QED
    BY <1>3, <1>4, <1>7, <1>8, <1>9, Zenon DEF Mirrors, Ring!Queued
<1>11. elements[w][d % QueueSize] = Head(s)
  <2>1. 1 \in 1 .. n /\ d + (1 - 1) = d
    BY <1>1, <1>2, Sizes
  <2>2. QED
    BY <2>1, <1>1, <1>2, Zenon
<1>12. QED
  BY <1>5, <1>6, <1>10, <1>11, Zenon DEF RingInv

\* gr_queue_destroy frees the elements of a queue that holds nothing.
LEMMA Destroyed ==
    ASSUME TypeOK, RingInv, NEW w \in Worker, job_queue[w] = <<>>,
           Ring!gr_queue_destroy(w), UNCHANGED job_queue
    PROVE  RingInv'
<1>1. /\ queue_index' = queue_index /\ dequeue_index' = dequeue_index
      /\ elements' = [elements EXCEPT ![w] = [i \in 0 .. QueueSize - 1 |-> Garbage]]
  BY Zenon DEF Ring!gr_queue_destroy, Ring!Slot
<1>2. RingType'
  BY <1>1, Zenon DEF RingInv, RingType
<1>3. \A v \in Worker : v # w => elements'[v] = elements[v]
  BY <1>1, Zenon DEF RingInv, RingType
<1>4. ASSUME NEW v \in Worker, v # w PROVE Mirrors(v)'
  BY <1>1, <1>3, <1>4, MirrorSame, Zenon DEF RingInv
<1>5. Mirrors(w)'
  <2>1. Len(job_queue[w]) = 0
    OBVIOUS
  <2>2. Ring!Queued(w)' = Ring!Queued(w)
    BY <1>1, Zenon DEF Ring!Queued
  <2>3. Ring!Queued(w) = Len(job_queue[w])
    BY Zenon DEF RingInv, Mirrors
  <2>4. QED
    BY <2>1, <2>2, <2>3 DEF Mirrors
<1>6. QED
  BY <1>2, <1>4, <1>5, Zenon DEF RingInv

-----------------------------------------------------------------------------
\* Every step of the pool is a step of the bounded queue, here on job_queue.
Abstract == <<job_queue, result>>

\* A call on the queue of w leaves s in it and returns r.
AbsChange(w, s, r) ==
    OnlyQueue(w, s) /\ result' = [result EXCEPT ![w] = r]

\* A dequeue, an enqueue or neither, in terms of job_queue.
AbsStep ==
    \/ \E w \in Worker :
          \/ job_queue[w] # <<>> /\ AbsChange(w, Tail(job_queue[w]), Head(job_queue[w]))
          \/ job_queue[w] = <<>> /\ AbsChange(w, <<>>, NULL)
          \/ \E m \in Message :
                \/ Len(job_queue[w]) < QueueSize /\ AbsChange(w, Append(job_queue[w], m), 0)
                \/ Len(job_queue[w]) = QueueSize /\ AbsChange(w, job_queue[w], -1)
    \/ UNCHANGED Abstract

\* A step that touches neither side preserves the relation.
LEMMA RingUnchanged ==
    ASSUME RingInv, UNCHANGED <<job_queue, elements, queue_index, dequeue_index>>
    PROVE  RingInv'
BY Zenon DEF RingInv, RingType, Mirrors, Ring!Queued

\* A call that changes nothing puts back what was there.
LEMMA SameQueue ==
    ASSUME TypeOK, NEW w \in Worker, UNCHANGED job_queue
    PROVE  OnlyQueue(w, job_queue[w])
BY Zenon DEF OnlyQueue, TypeOK

\* gracht_worker_pool_dispatch stores the message or drops it on both sides.
LEMMA DispatchStep ==
    ASSUME PoolInv, RingInv, DispatchQueues
    PROVE  RingInv' /\ AbsStep
<1> DEFINE w == rr_index
<1>1. TypeOK /\ w \in Worker /\ next \in Message
  BY Numbers DEF PoolInv, TypeOK, DispatchQueues, gracht_worker_pool_dispatch, Message
<1>2. /\ Ring!capacity_remaining(w) # 0 <=> Len(job_queue[w]) < QueueSize
  BY <1>1, QueueBounds, Zenon
<1>3. Len(job_queue[w]) \in Nat /\ QueueSize \in Nat
  BY <1>1, Sizes DEF TypeOK
<1>4. CASE Ring!EnqueueStores(w, next)
  <2>1. Len(job_queue[w]) < QueueSize
    BY <1>2, <1>4, Zenon DEF Ring!EnqueueStores
  <2>2. OnlyQueue(w, Append(job_queue[w], next))
    BY <2>1, <1>3 DEF DispatchQueues, gracht_worker_pool_dispatch, OnlyQueue
  <2>3. RingInv'
    BY <1>1, <1>4, <2>2, Stored, Zenon
  <2>4. AbsChange(w, Append(job_queue[w], next), 0)
    BY <2>2, <1>4, Zenon DEF AbsChange, Ring!EnqueueStores, Ring!Returns
  <2>5. QED
    BY <2>1, <2>3, <2>4, <1>1, Zenon DEF AbsStep
<1>5. CASE Ring!EnqueueFull(w)
  <2>1. ~(Len(job_queue[w]) < QueueSize)
    BY <1>2, <1>5, Zenon DEF Ring!EnqueueFull
  <2>2. Len(job_queue[w]) = QueueSize /\ UNCHANGED job_queue
    BY <2>1, <1>3, Zenon DEF DispatchQueues, gracht_worker_pool_dispatch
  <2>3. RingInv'
    BY <2>2, <1>5, RingUnchanged, Zenon DEF Ring!EnqueueFull
  <2>4. AbsChange(w, job_queue[w], -1)
    BY <2>2, <1>1, <1>5, SameQueue, Zenon DEF AbsChange, Ring!EnqueueFull, Ring!Returns
  <2>5. QED
    BY <2>2, <2>3, <2>4, <1>1, Zenon DEF AbsStep
<1>6. QED
  BY <1>4, <1>5, Zenon DEF DispatchQueues, Ring!gr_queue_enqueue

\* The three places where worker_dowork dequeues take the head, if there is one.
LEMMA WorkerTakes ==
    ASSUME TypeOK, NEW w \in Worker, WorkerDequeues(w)
    PROVE  /\ job_queue[w] # <<>> => OnlyQueue(w, Tail(job_queue[w]))
           /\ job_queue[w] = <<>> => UNCHANGED job_queue
<1>1. job_queue = [job_queue EXCEPT ![w] = job_queue[w]]
  BY Zenon DEF TypeOK
<1>2. CASE Dequeue(w)
  BY <1>2, Zenon DEF Dequeue, OnlyQueue
<1>3. CASE Woken(w) /\ state[w] # "SHUTDOWN_REQUEST"
  BY <1>1, <1>3, Zenon DEF Woken, OnlyQueue
<1>4. CASE Drain(w)
  BY <1>4, Zenon DEF Drain, OnlyQueue
<1>5. QED
  BY <1>2, <1>3, <1>4, Zenon DEF WorkerDequeues

\* A dequeue in worker_dowork returns the message that the pool takes.
LEMMA DequeueStep ==
    ASSUME PoolInv, RingInv, NEW w \in Worker, WorkerDequeues(w)
    PROVE  RingInv' /\ AbsStep
<1>1. TypeOK
  BY Zenon DEF PoolInv
<1>2. dequeue_index[w] = queue_index[w] <=> job_queue[w] = <<>>
  BY <1>1, QueueBounds, Zenon
<1>3. CASE Ring!DequeueTakes(w)
  <2>1. job_queue[w] # <<>>
    BY <1>2, <1>3, Zenon DEF Ring!DequeueTakes
  <2>2. OnlyQueue(w, Tail(job_queue[w]))
    BY <1>1, <2>1, WorkerTakes, Zenon
  <2>3. RingInv' /\ elements[w][dequeue_index[w] % QueueSize] = Head(job_queue[w])
    BY <1>1, <1>3, <2>1, <2>2, Taken, Zenon
  <2>4. AbsChange(w, Tail(job_queue[w]), Head(job_queue[w]))
    BY <1>3, <2>2, <2>3, Zenon DEF AbsChange, Ring!DequeueTakes, Ring!Returns
  <2>5. QED
    BY <2>1, <2>3, <2>4, Zenon DEF AbsStep
<1>4. CASE Ring!DequeueEmpty(w)
  <2>1. job_queue[w] = <<>>
    BY <1>2, <1>4, Zenon DEF Ring!DequeueEmpty
  <2>2. UNCHANGED job_queue
    BY <1>1, <2>1, WorkerTakes, Zenon
  <2>3. RingInv'
    BY <2>2, <1>4, RingUnchanged, Zenon DEF Ring!DequeueEmpty
  <2>4. AbsChange(w, <<>>, NULL)
    BY <1>1, <1>4, <2>1, <2>2, SameQueue, Zenon DEF AbsChange, Ring!DequeueEmpty, Ring!Returns
  <2>5. QED
    BY <2>1, <2>3, <2>4, Zenon DEF AbsStep
<1>5. QED
  BY <1>3, <1>4, Zenon DEF WorkerDequeues, Ring!gr_queue_dequeue

\* cleanup_worker destroys the queue of a joined worker, which is empty.
LEMMA JoinStep ==
    ASSUME PoolInv, RingInv, JoinCleansUp
    PROVE  RingInv' /\ AbsStep
<1>1. TypeOK /\ target \in Worker /\ job_queue[target] = <<>> /\ UNCHANGED job_queue
  BY Zenon DEF PoolInv, ExitOrder, JoinCleansUp, JoinWorker
<1>2. RingInv'
  BY <1>1, Destroyed, Zenon DEF JoinCleansUp
<1>3. UNCHANGED Abstract
  BY <1>1, Zenon DEF JoinCleansUp, Ring!gr_queue_destroy, Abstract
<1>4. QED
  BY <1>2, <1>3, Zenon DEF AbsStep

\* The other steps leave rings and queues alone.
LEMMA OtherStep ==
    ASSUME RingInv, UNCHANGED job_queue, UNCHANGED ringVars
    PROVE  RingInv' /\ AbsStep
<1>1. UNCHANGED <<elements, queue_index, dequeue_index, result>>
  BY Zenon DEF ringVars
<1>2. QED
  BY <1>1, RingUnchanged, Zenon DEF AbsStep, Abstract

\* A step of the pool over its rings is a step of the pool.
LEMMA PoolNextIsNext == [PoolNext]_allVars => [Next]_vars
<1>1. CASE UNCHANGED allVars
  BY <1>1, Zenon DEF allVars
<1>2. CASE PoolNext
  BY <1>2, Zenon DEF PoolNext, DispatchQueues, Signals, Destroys, JoinCleansUp, WorkerDequeues,
              WorkerElsewhere, Next, MainStep, WorkerStep
<1>3. QED
  BY <1>1, <1>2, Zenon

\* Every step of dispatcher and workers over the rings preserves the relation and
\* is a step of the bounded queue.
LEMMA PoolStep ==
    ASSUME PoolInv, RingInv, [PoolNext]_allVars
    PROVE  PoolInv' /\ RingInv' /\ AbsStep
<1>2. PoolInv'
  BY PoolNextIsNext, NextPoolInv, Zenon
<1>3. CASE DispatchQueues
  BY <1>2, <1>3, DispatchStep, Zenon
<1>4. CASE JoinCleansUp
  BY <1>2, <1>4, JoinStep, Zenon
<1>5. CASE Signals \/ Destroys
  <2>1. UNCHANGED job_queue /\ UNCHANGED ringVars
    BY <1>5, Zenon DEF Signals, Destroys, DispatchSignal, ShutdownSignal, gracht_worker_pool_destroy
  <2>2. QED
    BY <1>2, <2>1, OtherStep, Zenon
<1>6. ASSUME NEW w \in Worker, WorkerDequeues(w) PROVE RingInv' /\ AbsStep
  BY <1>6, DequeueStep, Zenon
<1>7. ASSUME NEW w \in Worker,
             WorkerElsewhere(w) \/ (SpuriousWakeUp(w) /\ UNCHANGED ringVars)
      PROVE  RingInv' /\ AbsStep
  <2>1. UNCHANGED job_queue /\ UNCHANGED ringVars
    BY <1>7, Zenon DEF WorkerElsewhere, Startup, Wait, server_invoke_action, server_cleanup_message,
                CheckState, Woken, SpuriousWakeUp
  <2>2. QED
    BY <1>2, <2>1, OtherStep, Zenon
<1>8. CASE UNCHANGED allVars
  <2>1. UNCHANGED job_queue /\ UNCHANGED ringVars
    BY <1>8, Zenon DEF allVars, vars
  <2>2. QED
    BY <1>2, <2>1, OtherStep, Zenon
<1>9. QED
  BY <1>2, <1>3, <1>4, <1>5, <1>6, <1>7, <1>8, Zenon DEF PoolNext

\* gr_queue_construct establishes the relation.
LEMMA RingInit ==
    ASSUME PoolInit
    PROVE  RingInv
<1>1. /\ job_queue = [w \in Worker |-> <<>>]
      /\ elements = [w \in Worker |-> [i \in 0 .. QueueSize - 1 |-> Garbage]]
      /\ queue_index = [w \in Worker |-> 0] /\ dequeue_index = [w \in Worker |-> 0]
  BY Zenon DEF PoolInit, Init, Ring!Init, Ring!Slot
<1>2. 0 \in 0 .. Wrap - 1 /\ (0 - 0) % Wrap = 0
  BY Sizes
<1>3. RingType
  BY <1>1, <1>2, Zenon DEF RingType
<1>4. ASSUME NEW w \in Worker PROVE Mirrors(w)
  <2>1. job_queue[w] = <<>> /\ Len(job_queue[w]) = 0 /\ queue_index[w] = 0 /\ dequeue_index[w] = 0
    BY <1>1, Zenon
  <2>2. Ring!Queued(w) = 0
    BY <2>1, <1>2, Zenon DEF Ring!Queued
  <2>3. QED
    BY <2>1, <2>2 DEF Mirrors
<1>5. QED
  BY <1>3, <1>4, Zenon DEF RingInv

\* A step of the bounded queue on job_queue is one on the contents of the ring.
LEMMA StepRefines ==
    ASSUME AbsStep, Ring!Items = job_queue, (Ring!Items = job_queue)'
    PROVE  [Ring!F!Next]_<<Ring!Items, result>>
<1>1. Ring!Items' = job_queue'
  BY Zenon
<1>2. CASE UNCHANGED Abstract
  BY <1>1, <1>2, Zenon DEF Abstract
<1>3. ASSUME NEW w \in Worker,
             \/ job_queue[w] # <<>> /\ AbsChange(w, Tail(job_queue[w]), Head(job_queue[w]))
             \/ job_queue[w] = <<>> /\ AbsChange(w, <<>>, NULL)
      PROVE  Ring!F!Dequeue(w)
  <2> HIDE DEF Ring!Items
  <2> QED
    BY <1>1, <1>3, Zenon DEF Ring!F!Dequeue, Ring!F!Change, AbsChange, OnlyQueue
<1>4. ASSUME NEW w \in Worker, NEW m \in Message,
             \/ Len(job_queue[w]) < QueueSize /\ AbsChange(w, Append(job_queue[w], m), 0)
             \/ Len(job_queue[w]) = QueueSize /\ AbsChange(w, job_queue[w], -1)
      PROVE  Ring!F!Enqueue(w, m)
  BY <1>1, <1>4, Zenon DEF Ring!F!Enqueue, Ring!F!Change, AbsChange, OnlyQueue
<1>5. QED
  BY <1>2, <1>3, <1>4, Zenon DEF AbsStep, Ring!F!Next

\* The rings behave as bounded first-in first-out queues and hold the messages
\* that the dispatcher believes to be queued, in every behaviour of the pool.
THEOREM RingsAreQueues == PoolSpec => RingIsJobQueue
<1>1. PoolInit => PoolInv /\ RingInv
  BY InitPoolInv, RingInit, Zenon DEF PoolInit
<1>2. PoolInv /\ RingInv /\ [PoolNext]_allVars => PoolInv' /\ RingInv'
  BY PoolStep, Zenon
<1>3. PoolInv /\ RingInv => Ring!Items = job_queue
  BY ItemsAreJobs, Zenon DEF PoolInv
<1>4. PoolInit => Ring!F!Init
  BY <1>1, <1>3, Zenon DEF PoolInit, Init, Ring!Init, Ring!F!Init
<1>5. PoolInv /\ RingInv /\ PoolInv' /\ RingInv' /\ [PoolNext]_allVars
      => [Ring!F!Next]_<<Ring!Items, result>>
  <2> SUFFICES ASSUME PoolInv, RingInv, PoolInv', RingInv', [PoolNext]_allVars
               PROVE  [Ring!F!Next]_<<Ring!Items, result>>
    BY Zenon
  <2>1. Ring!Items = job_queue
    BY <1>3, Zenon
  <2>2. (Ring!Items = job_queue)'
    BY <1>3, PTL
  <2>3. AbsStep
    BY PoolStep, Zenon
  <2>4. QED
    BY <2>1, <2>2, <2>3, StepRefines, Zenon
<1>6. QED
  BY <1>1, <1>2, <1>3, <1>4, <1>5, PTL DEF PoolSpec, RingIsJobQueue, Ring!F!Spec

\* The pool over its rings implements WorkerPool, so what WorkerPoolProofs shows
\* for dispatcher and workers holds for them over the real queues too.
THEOREM RingPoolIsPool == PoolSpec => Spec
<1>1. PoolInit => Init
  BY Zenon DEF PoolInit
<1>2. QED
  BY <1>1, PoolNextIsNext, PTL DEF PoolSpec, Spec

=============================================================================
