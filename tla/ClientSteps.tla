---------------------------- MODULE ClientSteps -----------------------------
(***************************************************************************)
(* The steps of the client (runtime/client.c) that preserve its invariant  *)
(* without counting messages, and what each step is to RemoteCalls.        *)
(***************************************************************************)
EXTENDS ClientState, TLAPS

\* Zenon proves a leaf unless it says SMT or PTL.
USE ZenonT(60)

----------------------------------------------------------------------------
(* What a step of one thread leaves alone                                  *)

\* A thread goes on: nothing but its place changes.
LEMMA LocalAt ==
    ASSUME NEW l \in Local, NEW p \in Pc, NEW r, r = [l EXCEPT !.pc = p]
    PROVE  /\ r \in Local /\ r.pc = p /\ r.ctx = l.ctx /\ r.ids = l.ids /\ r.all = l.all /\ r.async = l.async
           /\ r.buf = l.buf /\ r.stale = l.stale /\ r.ret = l.ret
  BY DEF Local

\* A thread enters the receive loop, and comes back to the recount of its await.
LEMMA LocalReceives ==
    ASSUME NEW l \in Local, NEW r, r = Receiving(l)
    PROVE  /\ r \in Local /\ r.pc = "lock" /\ r.ctx = l.ctx /\ r.ids = l.ids /\ r.all = l.all
           /\ r.async = l.async /\ r.buf = l.buf /\ r.stale = l.stale /\ r.ret = "recount"
<1>1. "lock" \in Pc
  BY DEF Pc
<1>2. QED
  BY <1>1 DEF Local, Receiving

\* A thread that is not sending takes no identifier.
LEMMA IdsKept ==
    ASSUME Ids, NEW t \in Thread, Moves(t), UNCHANGED current_message_id,
           DOMAIN messages' \subseteq DOMAIN messages,
           local'[t].pc \notin SendPc,
           local'[t].pc \in ReadPc => local[t].pc \in ReadPc /\ local'[t].ctx = local[t].ctx
    PROVE  Ids'
<1>1. \A u \in Thread : local'[u].pc \in SendPc => local'[u] = local[u]
  BY DEF Moves
<1>2. \A id : Spent(id) => Spent(id)'
  BY <1>1 DEF Spent, SendPc
<1>3. \A u \in Thread : local'[u].pc \in ReadPc => local[u].pc \in ReadPc /\ local'[u].ctx = local[u].ctx
  BY DEF Moves
<1>4. (\A id \in DOMAIN messages : Spent(id))'
  BY <1>2 DEF Ids
<1>5. (\A u \in Thread : local[u].pc \in ReadPc => Spent(local[u].ctx))'
  <2> SUFFICES ASSUME NEW u \in Thread, local'[u].pc \in ReadPc PROVE Spent(local[u].ctx)'
    OBVIOUS
  <2>1. PICK id : id = local[u].ctx
    OBVIOUS
  <2>2. Spent(id)'
    BY <1>2, <1>3, <2>1 DEF Ids
  <2>3. QED
    BY <1>3, <2>1, <2>2
<1>6. (\A u \in Thread :
          /\ local[u].pc \in {"id_load", "id_store"} => current_message_id \in 1 .. MaxId
          /\ local[u].pc = "id_store" => local[u].ctx = current_message_id
          /\ local[u].pc = "send" => local[u].ctx \in 1 .. MaxId /\ local[u].ctx < current_message_id)'
  BY <1>1 DEF Ids, SendPc
<1>7. QED
  BY <1>4, <1>5, <1>6 DEF Ids

\* A descriptor that was decided stays so, and nobody gets a context.
LEMMA ContextsKept ==
    ASSUME Contexts, NEW t \in Thread, Moves(t), UNCHANGED owned, DOMAIN messages' = DOMAIN messages,
           \A u \in Thread : ready'[u] \subseteq owned[u] /\ \A id \in ready'[u] : Decided(id)',
           InAwait(t)' => local'[t].ids \subseteq owned[t],
           local'[t].pc \in WaitPc /\ local'[t].ctx # 0 => local'[t].ctx \in owned[t],
           local'[t].pc \in ReadPc => local[t].pc \in ReadPc /\ local'[t].ctx = local[t].ctx
    PROVE  Contexts'
<1>1. \A u \in Thread : InAwait(u)' => local'[u].ids \subseteq owned[u]
  <2> SUFFICES ASSUME NEW u \in Thread, u # t, InAwait(u)' PROVE local'[u].ids \subseteq owned[u]
    OBVIOUS
  <2>1. local'[u] = local[u]
    BY DEF Moves
  <2>2. QED
    BY <2>1 DEF Contexts, InAwait
<1>2. \A u \in Thread : local'[u].pc \in WaitPc /\ local'[u].ctx # 0 => local'[u].ctx \in owned[u]
  BY DEF Moves, Contexts
<1>3. \A u \in Thread : local'[u].pc \in ReadPc => local[u].pc \in ReadPc /\ local'[u].ctx = local[u].ctx
  BY DEF Moves
<1>4. \A u \in Thread : local'[u].pc \in ReadPc => local'[u].ctx \notin DOMAIN messages
  BY <1>3 DEF Contexts
<1>5. \A u, v \in Thread :
         {local'[u].pc, local'[v].pc} \subseteq ReadPc /\ local'[u].ctx = local'[v].ctx => u = v
  BY <1>3, SMTT(30) DEF Contexts
<1>6. \A u \in Thread : owned[u] \subseteq DOMAIN messages
  BY DEF Contexts
<1>7. \A u, v \in Thread : owned[u] \cap owned[v] # {} => u = v
  BY DEF Contexts
<1>8. (\A u \in Thread :
          /\ ready[u] \subseteq owned[u] /\ owned[u] \subseteq DOMAIN messages
          /\ \A id \in ready[u] : Decided(id)
          /\ InAwait(u) => local[u].ids \subseteq owned[u]
          /\ local[u].pc \in WaitPc /\ local[u].ctx # 0 => local[u].ctx \in owned[u]
          /\ local[u].pc \in ReadPc => local[u].ctx \notin DOMAIN messages)'
  BY <1>1, <1>2, <1>4, <1>6
<1>9. QED
  BY <1>5, <1>7, <1>8 DEF Contexts

\* The answer that thread t handles, if any, is the only one to its request.
LEMMA AnswersKept ==
    ASSUME Answers, NEW t \in Thread, Moves(t), UNCHANGED <<pending, incoming>>,
           local'[t].pc # "handle",
           \A u \in Thread : Handles(u) => content'[local[u].buf] = content[local[u].buf],
           \A id : InProgress(id) =>
               \/ InProgress(id)'
               \/ Handles(t) /\ Decides(content[local[t].buf]) /\ id = content[local[t].buf].id
    PROVE  Answers'
<1>1. \A u \in Thread : Handles(u)' =>
         u # t /\ Handles(u) /\ local'[u].buf = local[u].buf /\ content'[local'[u].buf] = content[local[u].buf]
  BY DEF Moves, Handles
<1>2. (\A id \in pending : InProgress(id))'
  BY DEF Answers
<1>3. (\A i \in DOMAIN incoming : Decides(incoming[i]) =>
          InProgress(incoming[i].id) /\ incoming[i].id \notin pending)'
  <2> SUFFICES ASSUME NEW i \in DOMAIN incoming, Decides(incoming[i])
               PROVE  InProgress(incoming[i].id)' /\ incoming[i].id \notin pending
    BY DEF Decides
  <2>1. PICK id : id = incoming[i].id
    OBVIOUS
  <2>2. InProgress(id)' /\ id \notin pending
    BY <2>1 DEF Answers
  <2>3. QED
    BY <2>1, <2>2
<1>4. (\A i, j \in DOMAIN incoming :
          Decides(incoming[i]) /\ Decides(incoming[j]) /\ incoming[i].id = incoming[j].id => i = j)'
  BY DEF Answers, Decides
<1>5. (\A u \in Thread : Handles(u) /\ Decides(content[local[u].buf]) =>
          /\ InProgress(content[local[u].buf].id) /\ content[local[u].buf].id \notin pending
          /\ \A i \in DOMAIN incoming :
                Decides(incoming[i]) => incoming[i].id # content[local[u].buf].id)'
  <2> SUFFICES ASSUME NEW u \in Thread, Handles(u)', Decides(content[local[u].buf])'
               PROVE  (/\ InProgress(content[local[u].buf].id) /\ content[local[u].buf].id \notin pending
                       /\ \A i \in DOMAIN incoming :
                             Decides(incoming[i]) => incoming[i].id # content[local[u].buf].id)'
    OBVIOUS
  <2>1. PICK id : id = content[local[u].buf].id
    OBVIOUS
  <2>2. Handles(u) /\ Decides(content[local[u].buf]) /\ content'[local'[u].buf].id = id /\ u # t
    BY <1>1, <2>1 DEF Decides
  <2>3. /\ InProgress(id) /\ id \notin pending
        /\ \A i \in DOMAIN incoming : Decides(incoming[i]) => incoming[i].id # id
        /\ ~(Handles(t) /\ Decides(content[local[t].buf]) /\ id = content[local[t].buf].id)
    BY <2>1, <2>2 DEF Answers
  <2>4. InProgress(id)'
    BY <2>3
  <2>5. QED
    BY <2>2, <2>3, <2>4 DEF Decides
<1>6. (\A u, v \in Thread :
          /\ Handles(u) /\ Handles(v)
          /\ Decides(content[local[u].buf]) /\ Decides(content[local[v].buf])
          /\ content[local[u].buf].id = content[local[v].buf].id
          => u = v)'
  BY <1>1 DEF Answers, Decides
<1>7. QED
  BY <1>2, <1>3, <1>4, <1>5, <1>6 DEF Answers

\* Nothing arrives.
LEMMA ArrivalsKept ==
    ASSUME Arrivals, NEW t \in Thread, Moves(t), UNCHANGED <<scenario, open, incoming>>,
           local'[t].pc # "handle",
           \A u \in Thread : Handles(u) => content'[local[u].buf] = content[local[u].buf]
    PROVE  Arrivals'
<1>1. \A u \in Thread : Handles(u)' =>
         Handles(u) /\ content'[local'[u].buf] = content[local[u].buf]
  BY DEF Moves, Handles
<1>2. \A m : Expected(m) => Expected(m)'
  BY DEF Expected
<1>3. (\A u \in Thread : Handles(u) => Expected(content[local[u].buf]))'
  <2> SUFFICES ASSUME NEW u \in Thread, Handles(u)' PROVE Expected(content[local[u].buf])'
    OBVIOUS
  <2>1. PICK m : m = content[local[u].buf]
    OBVIOUS
  <2>2. Expected(m)' /\ m = content'[local'[u].buf]
    BY <1>1, <1>2, <2>1 DEF Arrivals
  <2>3. QED
    BY <2>2
<1>4. (\A i \in DOMAIN incoming : Expected(incoming[i]))'
  BY <1>2 DEF Arrivals
<1>5. QED
  BY <1>3, <1>4 DEF Arrivals

\* Only free buffers are written to, and no result is collected.
LEMMA DescriptorsKept ==
    ASSUME Typed, Descriptors, Buffers, NEW t \in Thread, Moves(t), UNCHANGED <<scenario, swap>>, SameSlots,
           \A b \in Buffer \ pool : content'[b] = content[b],
           local'[t].pc \in ReadPc =>
               /\ local[t].pc \in ReadPc /\ local'[t].ctx = local[t].ctx
               /\ local'[t].result = local[t].result /\ local'[t].buf = local[t].buf,
           local'[t].pc = "swap_buffer" => swap.buffer = NULL /\ scenario.errors # 0
    PROVE  Descriptors'
<1>1. \A u \in Thread : local'[u].pc \in ReadPc =>
               /\ local[u].pc \in ReadPc /\ local'[u].ctx = local[u].ctx
               /\ local'[u].result = local[u].result /\ local'[u].buf = local[u].buf
  BY DEF Moves
<1>2. (\A id \in DOMAIN messages :
          /\ messages[id].status = "completed" =>
                messages[id].buffer \in Buffer /\ content[messages[id].buffer].id = id
          /\ messages[id].status # "completed" => messages[id].buffer = NULL
          /\ messages[id].status = "error" => scenario.errors # 0)'
  BY SMTT(30) DEF Descriptors, Buffers, SameSlots
<1>3. (\A u \in Thread : local[u].pc \in ReadPc =>
          \/ local[u].result = "completed" /\ local[u].buf \in Buffer /\ content[local[u].buf].id = local[u].ctx
          \/ local[u].result = "error" /\ local[u].buf = NULL)'
  BY <1>1, SMTT(30) DEF Descriptors, Buffers
<1>4. (\A u \in Thread : local[u].pc = "swap_buffer" => swap.buffer = NULL /\ scenario.errors # 0)'
  BY DEF Descriptors, Moves
<1>5. QED
  BY <1>2, <1>3, <1>4 DEF Descriptors

\* No buffer changes hands.
LEMMA BuffersSame ==
    ASSUME Buffers, UNCHANGED pool, DOMAIN messages' = DOMAIN messages,
           \A id \in DOMAIN messages : messages'[id].buffer = messages[id].buffer,
           \A u \in Thread : local'[u].buf = local[u].buf
    PROVE  Buffers'
  BY SMTT(30) DEF Buffers

\* A thread that keeps its buffer moves.
LEMMA BuffersKept ==
    ASSUME Buffers, NEW t \in Thread, Moves(t), UNCHANGED pool, SameSlots, local'[t].buf = local[t].buf
    PROVE  Buffers'
<1>1. \A u \in Thread : local'[u].buf = local[u].buf
  BY DEF Moves
<1>2. QED
  BY <1>1, BuffersSame DEF SameSlots

\* A thread gives a buffer back that it holds.
LEMMA BuffersReleased ==
    ASSUME Typed, Buffers, NEW t \in Thread, Moves(t), SameSlots, local'[t].buf = NULL,
           pool' = IF local[t].buf = NULL THEN pool ELSE pool \cup {local[t].buf}
    PROVE  Buffers'
<1> NULL \notin Buffer /\ NULL \notin pool /\ NULL \notin pool'
  BY ClientAssumption DEF Typed
<1>1. \A u \in Thread : local'[u].buf = local[u].buf \/ (u = t /\ local'[u].buf = NULL)
  BY DEF Moves
<1>2. (\A b \in Buffer :
          \/ b \in pool
          \/ \E id \in DOMAIN messages : messages[id].buffer = b
          \/ \E u \in Thread : local[u].buf = b)'
  <2> SUFFICES ASSUME NEW b \in Buffer
               PROVE  (\/ b \in pool
                       \/ \E id \in DOMAIN messages : messages[id].buffer = b
                       \/ \E u \in Thread : local[u].buf = b)'
    OBVIOUS
  <2>1. CASE b = local[t].buf
    BY <2>1
  <2>2. CASE b # local[t].buf
    BY <1>1, <2>2, SMTT(30) DEF Buffers, SameSlots
  <2>3. QED
    BY <2>1, <2>2
<1>3. (\A id \in DOMAIN messages : messages[id].buffer \notin pool)'
  BY SMTT(30) DEF Buffers, SameSlots
<1>4. (\A u \in Thread : local[u].buf \notin pool)'
  BY <1>1, SMTT(30) DEF Buffers
<1>5. (\A id \in DOMAIN messages, u \in Thread :
          messages[id].buffer = local[u].buf => local[u].buf = NULL)'
  BY <1>1, SMTT(30) DEF Buffers, SameSlots
<1>6. (\A i, j \in DOMAIN messages :
          messages[i].buffer = messages[j].buffer => i = j \/ messages[i].buffer = NULL)'
  BY DEF Buffers, SameSlots
<1>7. (\A u, v \in Thread : local[u].buf = local[v].buf => u = v \/ local[u].buf = NULL)'
  BY <1>1, SMTT(30) DEF Buffers
<1>8. QED
  BY <1>2, <1>3, <1>4, <1>5, <1>6, <1>7 DEF Buffers

\* A thread acquires a buffer.
LEMMA BuffersAcquired ==
    ASSUME Typed, Buffers, NEW t \in Thread, Moves(t), SameSlots, local[t].buf = NULL,
           NEW b \in pool, local'[t].buf = b, pool' = pool \ {b}
    PROVE  Buffers'
<1>1. NULL \notin Buffer /\ b # NULL /\ b \in Buffer
  BY ClientAssumption DEF Typed
<1>2. \A u \in Thread : local'[u].buf = local[u].buf \/ (u = t /\ local'[u].buf = b)
  BY DEF Moves
<1>3. \A u \in Thread : u # t => local'[u].buf = local[u].buf /\ local'[u].buf # b
  BY DEF Moves, Buffers
<1>4. \A id \in DOMAIN messages : messages[id].buffer # b
  BY DEF Buffers
<1>5. (\A c \in Buffer :
          \/ c \in pool
          \/ \E id \in DOMAIN messages : messages[id].buffer = c
          \/ \E u \in Thread : local[u].buf = c)'
  <2> SUFFICES ASSUME NEW c \in Buffer
               PROVE  (\/ c \in pool
                       \/ \E id \in DOMAIN messages : messages[id].buffer = c
                       \/ \E u \in Thread : local[u].buf = c)'
    OBVIOUS
  <2>1. CASE c = b
    BY <2>1
  <2>2. CASE c # b
    <3>1. CASE c \in pool
      BY <2>2, <3>1
    <3>2. CASE \E id \in DOMAIN messages : messages[id].buffer = c
      BY <3>2 DEF SameSlots
    <3>3. CASE \E u \in Thread : local[u].buf = c
      <4>1. PICK u \in Thread : local[u].buf = c
        BY <3>3
      <4>2. c # NULL
        BY <1>1
      <4>3. local'[u].buf = c
        BY <1>3, <4>1, <4>2
      <4>4. QED
        BY <4>3
    <3>4. QED
      BY <3>1, <3>2, <3>3 DEF Buffers
  <2>3. QED
    BY <2>1, <2>2
<1>6. (\A id \in DOMAIN messages : messages[id].buffer \notin pool)'
  BY DEF Buffers, SameSlots
<1>7. (\A u \in Thread : local[u].buf \notin pool)'
  BY <1>2 DEF Buffers
<1>8. (\A id \in DOMAIN messages, u \in Thread :
          messages[id].buffer = local[u].buf => local[u].buf = NULL)'
  BY <1>2, <1>4, SMTT(30) DEF Buffers, SameSlots
<1>9. (\A i, j \in DOMAIN messages :
          messages[i].buffer = messages[j].buffer => i = j \/ messages[i].buffer = NULL)'
  BY DEF Buffers, SameSlots
<1>10. (\A u, v \in Thread : local[u].buf = local[v].buf => u = v \/ local[u].buf = NULL)'
  BY <1>3, SMTT(30) DEF Buffers
<1>11. QED
  BY <1>5, <1>6, <1>7, <1>8, <1>9, <1>10 DEF Buffers

\* No awaiter comes or goes.
LEMMA AwaitsKept ==
    ASSUME Awaits, NEW t \in Thread, Moves(t), UNCHANGED <<current_awaiter_id, awaiters>>,
           \A u \in Thread : awaiter'[u].id = awaiter[u].id,
           \A id \in DOMAIN messages' : messages'[id].awaiter < current_awaiter_id,
           InAwait(t)' <=> InAwait(t),
           local'[t].pc \in {"scan", "cleanup"} <=> local[t].pc \in {"scan", "cleanup"},
           local'[t].pc \in {"mark", "touch"} => local'[t].mark < current_awaiter_id,
           local'[t].pc = "touch" =>
               local'[t].mark # 0 /\ local'[t].ptr \in Thread /\ awaiter[local'[t].ptr].id = local'[t].mark,
           \A k \in DOMAIN awaiters : awaiters[k] \in Thread
    PROVE  Awaits'
<1>1. \A u \in Thread : u # t => local'[u] = local[u]
  BY DEF Moves
<1>2. \A u \in Thread : InAwait(u)' <=> InAwait(u)
  <2> SUFFICES ASSUME NEW u \in Thread, u # t PROVE InAwait(u)' <=> InAwait(u)
    OBVIOUS
  <2>1. QED
    BY <1>1 DEF InAwait
<1>3. \A u \in Thread : local'[u].pc \in {"scan", "cleanup"} <=> local[u].pc \in {"scan", "cleanup"}
  BY <1>1
<1>4. (\A u \in Thread :
          /\ awaiter[u].id < current_awaiter_id
          /\ awaiter[u].id # 0 <=> InAwait(u)
          /\ local[u].pc \in {"mark", "touch"} => local[u].mark < current_awaiter_id)'
  <2>1. \A u \in Thread : awaiter[u].id < current_awaiter_id /\ (awaiter[u].id # 0 <=> InAwait(u))
    BY DEF Awaits
  <2>2. \A u \in Thread : u # t /\ local[u].pc \in {"mark", "touch"} => local[u].mark < current_awaiter_id
    BY DEF Awaits
  <2>3. \A u \in Thread : awaiter'[u].id < current_awaiter_id /\ (awaiter'[u].id # 0 <=> InAwait(u)')
    BY <1>2, <2>1
  <2>4. \A u \in Thread : local'[u].pc \in {"mark", "touch"} => local'[u].mark < current_awaiter_id
    BY <1>1, <2>2
  <2>5. QED
    BY <2>3, <2>4
<1>5. (\A u, v \in Thread : awaiter[u].id = awaiter[v].id => u = v \/ awaiter[u].id = 0)'
  BY SMTT(30) DEF Awaits
<1>6. (\A id \in DOMAIN messages : messages[id].awaiter < current_awaiter_id)'
  OBVIOUS
<1>7. (\A k \in DOMAIN awaiters :
          awaiter[awaiters[k]].id = k /\ local[awaiters[k]].pc \notin {"scan", "cleanup"} /\ k # 0)'
  BY <1>3, SMTT(30) DEF Awaits
<1>8. (\A u \in Thread : InAwait(u) /\ local[u].pc \notin {"scan", "cleanup"} =>
          awaiter[u].id \in DOMAIN awaiters)'
  BY <1>2, <1>3 DEF Awaits
<1>9. (\A u \in Thread : local[u].pc = "touch" =>
          local[u].mark # 0 /\ local[u].ptr \in Thread /\ awaiter[local[u].ptr].id = local[u].mark)'
  <2>1. \A u \in Thread : u # t /\ local[u].pc = "touch" =>
           local[u].mark # 0 /\ local[u].ptr \in Thread /\ awaiter[local[u].ptr].id = local[u].mark
    BY DEF Awaits
  <2>2. QED
    BY <1>1, <2>1, SMTT(30)
<1>10. QED
  BY <1>4, <1>5, <1>6, <1>7, <1>8, <1>9 DEF Awaits

\* The locals of a thread that does not move.
LEMMA OtherKept ==
    ASSUME ClientInv, NEW u \in Thread, local'[u] = local[u], UNCHANGED scenario,
           send_lock' = send_lock \/ send_lock # u,
           \A id \in owned[u] : Decided(id) => Decided(id)'
    PROVE  Role(u)' /\ Locals(u)'
<1> Role(u) /\ Locals(u) /\ Contexts
  BY DEF ClientInv
<1>1. Role(u)'
  <2>1. InAwait(u)' <=> InAwait(u)
    BY DEF InAwait
  <2>2. QED
    BY <2>1 DEF Role, Uses
<1>2. local[u].pc \in WaitPc /\ local[u].ctx # 0 /\ Decided(local[u].ctx) => Decided(local[u].ctx)'
  <2>1. PICK id : id = local[u].ctx
    OBVIOUS
  <2>2. local[u].pc \in WaitPc /\ id # 0 /\ Decided(id) => Decided(id)'
    BY <2>1 DEF Contexts
  <2>3. local'[u].ctx = id
    BY <2>1
  <2>4. QED
    BY <2>1, <2>2, <2>3
<1>3. Locals(u)'
  BY <1>2 DEF Locals
<1>4. QED
  BY <1>1, <1>3

\* The threads that are about to count a message for the awaiter k.
LEMMA MarkingKept ==
    ASSUME NEW t \in Thread, Moves(t), NEW k,
           (local'[t].pc \in {"mark", "touch"} /\ local'[t].mark = k)
               <=> (local[t].pc \in {"mark", "touch"} /\ local[t].mark = k)
    PROVE  Marking(k)' = Marking(k)
<1>1. \A u \in Thread : u # t => local'[u] = local[u]
  BY DEF Moves
<1>2. \A u \in Thread : (local'[u].pc \in {"mark", "touch"} /\ local'[u].mark = k)
               <=> (local[u].pc \in {"mark", "touch"} /\ local[u].mark = k)
  BY <1>1
<1>3. QED
  BY <1>2 DEF Marking

\* The awaiter of a thread that does not move.
LEMMA AwaitingFor ==
    ASSUME ClientInv, NEW u \in Thread, local'[u] = local[u], awaiter'[u] = awaiter[u],
           \A id \in local[u].ids : Decided(id)' <=> Decided(id),
           InAwait(u) => Marking(awaiter[u].id)' = Marking(awaiter[u].id),
           InAwait(u) => \A id \in DOMAIN messages' :
               \/ id \in DOMAIN messages /\ (messages'[id].awaiter = awaiter[u].id <=> messages[id].awaiter = awaiter[u].id)
               \/ id \notin DOMAIN messages /\ messages'[id].awaiter = 0
    PROVE  Awaiting(u)'
<1> Awaiting(u) /\ Contexts /\ Awaits
  BY DEF ClientInv
<1>1. InAwait(u)' <=> InAwait(u)
  BY DEF InAwait
<1> DoneOf(u)' = DoneOf(u)
  BY DEF DoneOf
<1>2. local[u].pc \in AwaitPc => InAwait(u)
  BY DEF InAwait
<1>3. ASSUME InAwait(u), NEW id \in DOMAIN messages', id \notin DOMAIN messages
      PROVE  messages'[id].awaiter # awaiter[u].id /\ id \notin local[u].ids
  <2>1. awaiter[u].id # 0 /\ local[u].ids \subseteq DOMAIN messages
    BY <1>3 DEF Contexts, Awaits
  <2>2. QED
    BY <1>3, <2>1
<1>4. (local[u].pc = "scan" =>
          /\ \A id \in DOMAIN messages : messages[id].awaiter # awaiter[u].id
          /\ Marking(awaiter[u].id) = {})'
  <2>1. local[u].pc = "scan" => InAwait(u)
    BY <1>2 DEF AwaitPc
  <2>2. QED
    BY <1>3, <2>1 DEF Awaiting
<1>5. (InAwait(u) /\ local[u].pc # "scan" =>
          \A id \in DOMAIN messages : messages[id].awaiter = awaiter[u].id <=> id \in local[u].ids)'
  BY <1>1, <1>3 DEF Awaiting
<1>6. (InAwait(u) => awaiter[u].count = Cardinality(local[u].ids) /\ awaiter[u].all = local[u].all)'
  BY <1>1 DEF Awaiting
<1>7. (local[u].pc \in {"cnd_wait", "asleep"} =>
          awaiter[u].current + Cardinality(Marking(awaiter[u].id)) = Cardinality(DoneOf(u)))'
  <2>1. local[u].pc \in {"cnd_wait", "asleep"} => InAwait(u)
    BY <1>2 DEF AwaitPc
  <2>2. QED
    BY <2>1 DEF Awaiting
<1>8. (local[u].pc = "loop" => awaiter[u].current = Cardinality(DoneOf(u)))'
  <2>1. local[u].pc = "loop" => InAwait(u)
    BY <1>2 DEF AwaitPc
  <2>2. QED
    BY <2>1 DEF Awaiting
<1>9. (local[u].pc \in {"remove", "cleanup"} =>
         /\ local[u].all => DoneOf(u) = local[u].ids
         /\ Marking(awaiter[u].id) = {})'
  <2>1. local[u].pc \in {"remove", "cleanup"} => InAwait(u)
    BY <1>2 DEF AwaitPc
  <2>2. QED
    BY <2>1 DEF Awaiting
<1>10. QED
  BY <1>4, <1>5, <1>6, <1>7, <1>8, <1>9 DEF Awaiting

\* The same, when no descriptor gets another awaiter.
LEMMA AwaitingKept ==
    ASSUME ClientInv, NEW u \in Thread, local'[u] = local[u], awaiter'[u] = awaiter[u],
           \A id \in local[u].ids : Decided(id)' <=> Decided(id),
           InAwait(u) => Marking(awaiter[u].id)' = Marking(awaiter[u].id),
           \A id \in DOMAIN messages' :
               \/ id \in DOMAIN messages /\ messages'[id].awaiter = messages[id].awaiter
               \/ id \notin DOMAIN messages /\ messages'[id].awaiter = 0
    PROVE  Awaiting(u)'
<1>1. \A id \in DOMAIN messages' :
         \/ id \in DOMAIN messages /\ (messages'[id].awaiter = awaiter[u].id <=> messages[id].awaiter = awaiter[u].id)
         \/ id \notin DOMAIN messages /\ messages'[id].awaiter = 0
  OBVIOUS
<1>2. QED
  BY <1>1, AwaitingFor

----------------------------------------------------------------------------
(* Steps that only change the locals of a thread                           *)

\* The locals of thread t become r.
LEMMA Moved ==
    ASSUME Typed, NEW t \in Thread, NEW r \in Local, local' = [local EXCEPT ![t] = r]
    PROVE  Moves(t) /\ local'[t] = r
  BY DEF Moves, Typed

\* What a step of thread t has to keep is the invariant.
LEMMA Together ==
    ASSUME NEW t \in Thread, Rest(t)', Own(t)'
    PROVE  ClientInv'
  BY DEF Rest, Own, ClientInv

\* Nothing is reported and nothing decided is lost.
LEMMA ReadySame ==
    ASSUME ClientInv, UNCHANGED <<ready, owned>>, \A id : Decided(id) => Decided(id)'
    PROVE  ReadyOK'
<1>1. Contexts /\ Typed
  BY DEF ClientInv
<1>2. QED
  BY <1>1 DEF Contexts, Typed, ReadyOK

\* A step that neither counts, sends, handles nor collects.
LEMMA QuietStep ==
    ASSUME ClientInv, NEW t \in Thread, NEW r \in Local, local' = [local EXCEPT ![t] = r],
           UNCHANGED <<current_message_id, current_awaiter_id, messages, swap, awaiters, awaiter, send_lock,
                       content, owned, pending, incoming, open, scenario, events, errors>>,
           ReadyOK', Buffers', pool' \subseteq Buffer,
           r.pc \notin SendPc \cup ReadPc \cup {"handle", "mark", "touch"},
           local[t].pc \notin {"mark", "touch"},
           r.pc \in AwaitPc \/ r.ret = "recount" <=> InAwait(t),
           InAwait(t) => r.ids = local[t].ids,
           r.pc \in {"scan", "cleanup"} <=> local[t].pc \in {"scan", "cleanup"},
           r.pc \in WaitPc /\ r.ctx # 0 => r.ctx \in owned[t]
    PROVE  Rest(t)' /\ Moves(t) /\ local'[t] = r /\ (InAwait(t)' <=> InAwait(t)) /\ \A k : Marking(k)' = Marking(k)
<1> Typed /\ Ids /\ Contexts /\ Answers /\ Arrivals /\ Descriptors /\ Buffers /\ Awaits
  BY DEF ClientInv
<1> Moves(t) /\ local'[t] = r
  BY Moved
<1>1. InAwait(t)' <=> InAwait(t)
  BY DEF InAwait
<1>2. SameSlots
  BY DEF SameSlots
<1>3. \A id : (Decided(id)' <=> Decided(id)) /\ (InProgress(id)' <=> InProgress(id))
  BY DEF Decided, InProgress
<1>4. Typed'
  BY DEF Typed, Moves, ReadyOK
<1>5. Ids'
  BY IdsKept
<1>6. Contexts'
  <2>1. \A u \in Thread : ready'[u] \subseteq owned[u] /\ \A id \in ready'[u] : Decided(id)'
    BY DEF ReadyOK
  <2>2. InAwait(t)' => local'[t].ids \subseteq owned[t]
    BY <1>1 DEF Contexts
  <2>3. QED
    BY <2>1, <2>2, ContextsKept
<1>7. Answers'
  BY <1>3, AnswersKept
<1>8. Arrivals'
  BY ArrivalsKept
<1>9. Descriptors'
  BY <1>2, DescriptorsKept DEF ReadPc
<1>10. Awaits'
  <2>1. /\ \A id \in DOMAIN messages' : messages'[id].awaiter < current_awaiter_id
        /\ \A k \in DOMAIN awaiters : awaiters[k] \in Thread
    BY DEF Awaits, Typed
  <2>2. QED
    BY <1>1, <2>1, AwaitsKept
<1>11. \A k : Marking(k)' = Marking(k)
  BY MarkingKept
<1>12. ASSUME NEW u \in Thread \ {t} PROVE Role(u)' /\ Locals(u)' /\ Awaiting(u)'
  <2>1. local'[u] = local[u] /\ u \in Thread
    BY DEF Moves
  <2>2. Role(u)' /\ Locals(u)'
    BY <1>3, <2>1, OtherKept
  <2>3. Awaiting(u)'
    BY <1>3, <1>11, <2>1, AwaitingKept
  <2>4. QED
    BY <2>2, <2>3
<1>13. Rest(t)'
  BY <1>4, <1>5, <1>6, <1>7, <1>8, <1>9, <1>10, <1>12 DEF Rest
<1>14. QED
  BY <1>1, <1>11, <1>13

----------------------------------------------------------------------------
(* gracht_client_wait_message                                              *)

\* The awaiter of a thread that is not at a step which reads it.
LEMMA AwaitingPlain ==
    ASSUME ClientInv, NEW t \in Thread,
           local'[t].pc \notin {"scan", "cnd_wait", "asleep", "loop", "remove", "cleanup"},
           InAwait(t)' =>
               /\ InAwait(t) /\ local[t].pc # "scan" /\ local'[t].ids = local[t].ids
               /\ awaiter'[t].id = awaiter[t].id /\ awaiter'[t].count = awaiter[t].count
               /\ awaiter'[t].all = awaiter[t].all /\ local'[t].all = local[t].all,
           DOMAIN messages' = DOMAIN messages,
           \A id \in DOMAIN messages : messages'[id].awaiter = messages[id].awaiter
    PROVE  Awaiting(t)'
<1>1. Awaiting(t)
  BY DEF ClientInv
<1>2. (InAwait(t) /\ local[t].pc # "scan" =>
          \A id \in DOMAIN messages : messages[id].awaiter = awaiter[t].id <=> id \in local[t].ids)'
  BY <1>1 DEF Awaiting
<1>3. (InAwait(t) => awaiter[t].count = Cardinality(local[t].ids) /\ awaiter[t].all = local[t].all)'
  BY <1>1 DEF Awaiting
<1>4. QED
  BY <1>2, <1>3 DEF Awaiting

\* A thread in gracht_client_wait_message keeps its role and its awaiter.
LEMMA WaitOn ==
    ASSUME ClientInv, NEW t \in Thread, local[t].pc \in WaitPc, local'[t].pc \in WaitPc,
           local'[t].ctx = local[t].ctx, local'[t].ret = local[t].ret, local'[t].ids = local[t].ids,
           local'[t].all = local[t].all, local'[t].async = local[t].async, UNCHANGED scenario,
           awaiter'[t].id = awaiter[t].id, awaiter'[t].count = awaiter[t].count,
           awaiter'[t].all = awaiter[t].all,
           DOMAIN messages' = DOMAIN messages,
           \A id \in DOMAIN messages : messages'[id].awaiter = messages[id].awaiter
    PROVE  Role(t)' /\ Awaiting(t)' /\ (InAwait(t)' <=> InAwait(t))
<1> Role(t) /\ Awaiting(t)
  BY DEF ClientInv
<1> /\ local[t].pc \notin AwaitPc \cup SendPc \cup ReadPc
    /\ local'[t].pc \notin AwaitPc \cup SendPc \cup ReadPc
  BY DEF WaitPc, AwaitPc, SendPc, ReadPc
<1>1. InAwait(t)' <=> InAwait(t)
  BY DEF InAwait
<1>2. ~(InAwait(t) /\ local[t].async)
  BY DEF Role, AwaitPc
<1>3. Role(t)'
  <2>1. InAwait(t)' /\ ~local'[t].async =>
          /\ local'[t].pc \notin {"cnd_wait", "asleep"}
          /\ Syncs(scenario, t)
    BY <1>1 DEF Role, AwaitPc
  <2>2. QED
    BY <1>1, <1>2, <2>1 DEF Role
<1>4. Awaiting(t)'
  BY <1>1, AwaitingPlain DEF AwaitPc
<1>5. QED
  BY <1>1, <1>3, <1>4

\* gracht_client_wait_message returns: with 0 for a context that is decided.
LEMMA Returned ==
    ASSUME ClientInv, NEW t \in Thread, local[t].pc \in WaitPc, local[t].pc \notin {"mark", "touch"},
           NEW status, Return(t, status),
           UNCHANGED <<current_message_id, current_awaiter_id, messages, swap, awaiters, awaiter, send_lock,
                       content, pending, incoming, open, scenario, events, errors>>,
           pool' = IF local[t].buf = NULL THEN pool ELSE pool \cup {local[t].buf},
           local[t].ctx # 0 /\ status = 0 => Decided(local[t].ctx)
    PROVE  ClientInv'
<1> Typed /\ Role(t) /\ Locals(t) /\ Awaiting(t) /\ Contexts /\ Buffers
  BY DEF ClientInv
<1> local[t] \in Local /\ local[t].ids \in SUBSET Nat /\ local[t].all \in BOOLEAN
    /\ local[t].ret \in {"idle", "recount"} /\ local[t].buf \in Buffer \cup {NULL}
  <2>1. local[t] \in Local
    BY DEF Typed
  <2>2. QED
    BY <2>1 DEF Local
<1>1. PICK r : r = IF local[t].ret = "idle" THEN Idle
                   ELSE [Idle EXCEPT !.pc = local[t].ret, !.ids = local[t].ids, !.all = local[t].all]
  OBVIOUS
<1> /\ r \in Local /\ r.buf = NULL /\ r.ctx = 0 /\ r.stale = FALSE /\ r.ret = "idle" /\ r.async = FALSE
    /\ \/ local[t].ret = "idle" /\ r.pc = "idle"
       \/ local[t].ret = "recount" /\ r.pc = "recount" /\ r.ids = local[t].ids /\ r.all = local[t].all
  <2>1. CASE local[t].ret = "idle"
    BY <1>1, <2>1 DEF Idle, Local, Pc, Status
  <2>2. CASE local[t].ret = "recount"
    BY <1>1, <2>2 DEF Idle, Local, Pc, Status
  <2>3. QED
    BY <2>1, <2>2
<1>2. local' = [local EXCEPT ![t] = r] /\ UNCHANGED owned
  BY <1>1 DEF Return
<1>3. ReadyOK'
  <2>1. \A id : Decided(id)' <=> Decided(id)
    BY DEF Decided
  <2>2. CASE ready' = ready
    BY <1>2, <2>1, <2>2, ReadySame
  <2>3. CASE local[t].ctx # 0 /\ status = 0 /\ ready' = [ready EXCEPT ![t] = @ \cup {local[t].ctx}]
    <3>1. PICK c : c = local[t].ctx
      OBVIOUS
    <3>2. c \in owned[t] /\ Decided(c) /\ c \in Nat
      <4>1. c \in owned[t] /\ Decided(c)
        BY <2>3, <3>1 DEF Contexts
      <4>2. c \in Nat
        BY <3>1 DEF Local
      <4>3. QED
        BY <4>1, <4>2
    <3>3. ready \in [Thread -> SUBSET Nat] /\ ready' = [ready EXCEPT ![t] = @ \cup {c}]
      BY <2>3, <3>1 DEF Typed
    <3>4. ready' \in [Thread -> SUBSET Nat] /\ ready'[t] = ready[t] \cup {c}
          /\ \A u \in Thread \ {t} : ready'[u] = ready[u]
      BY <3>2, <3>3, SMTT(30)
    <3>5. \A u \in Thread : ready'[u] \subseteq owned[u] /\ \A id \in ready'[u] : Decided(id)
      BY <3>2, <3>4, SMTT(30) DEF Contexts
    <3>6. QED
      BY <1>2, <2>1, <3>4, <3>5 DEF ReadyOK
  <2>4. QED
    BY <2>2, <2>3 DEF Return
<1> Moves(t) /\ local'[t] = r
  BY <1>2, Moved
<1>4. Buffers' /\ pool' \subseteq Buffer
  <2>1. SameSlots
    BY DEF SameSlots
  <2>2. pool' \subseteq Buffer
    BY DEF Typed
  <2>3. QED
    BY <2>1, <2>2, BuffersReleased
<1>5. local[t].pc \notin AwaitPc /\ (InAwait(t) <=> local[t].ret = "recount")
  BY DEF WaitPc, AwaitPc, InAwait
<1> /\ r.pc \notin SendPc \cup ReadPc \cup WaitPc \cup {"handle", "mark", "touch", "scan", "cleanup"}
    /\ local[t].pc \notin {"scan", "cleanup"}
  BY DEF WaitPc, SendPc, ReadPc
<1>6. /\ r.pc \in AwaitPc \/ r.ret = "recount" <=> InAwait(t)
      /\ InAwait(t) => r.ids = local[t].ids
  BY <1>5 DEF AwaitPc
<1>7. Rest(t)' /\ (InAwait(t)' <=> InAwait(t))
  BY <1>2, <1>3, <1>4, <1>6, QuietStep
<1>8. Own(t)'
  <2>1. ~(InAwait(t) /\ local[t].async)
    BY <1>5 DEF Role, AwaitPc
  <2>2. Role(t)'
    BY <1>5, <1>7, <2>1 DEF Role, AwaitPc
  <2>3. Locals(t)'
    BY DEF Locals
  <2>4. Awaiting(t)'
    BY <1>5, <1>7, AwaitingPlain DEF AwaitPc
  <2>5. QED
    BY <2>2, <2>3, <2>4 DEF Own
<1>9. QED
  BY <1>7, <1>8, Together

\* A step inside gracht_client_wait_message that handles no message.
LEMMA WaitStep ==
    ASSUME ClientInv, NEW t \in Thread, local[t].pc \in WaitPc, local[t].pc \notin {"mark", "touch"},
           NEW r \in Local, local' = [local EXCEPT ![t] = r],
           r.pc \in WaitPc, r.pc \notin {"handle", "mark", "touch"},
           r.ctx = local[t].ctx, r.ret = local[t].ret, r.ids = local[t].ids, r.all = local[t].all,
           r.async = local[t].async,
           r.pc # "exit" \/ r.ctx # 0 \/ r.stale => r.buf = NULL,
           r.ctx # 0 /\ r.handled = r.ctx => r.pc = "exit" /\ Decided(r.ctx),
           r.ctx # 0 /\ r.handled = 0 /\ r.pc = "exit" => r.status = -1,
           r.buf = local[t].buf,
           UNCHANGED <<current_message_id, current_awaiter_id, messages, swap, awaiters, awaiter, send_lock,
                       pool, content, owned, ready, pending, incoming, open, scenario, events, errors>>
    PROVE  ClientInv'
<1> Typed /\ Contexts /\ Buffers
  BY DEF ClientInv
<1> Moves(t) /\ local'[t] = r
  BY Moved
<1>1. Role(t)' /\ Awaiting(t)' /\ (InAwait(t)' <=> InAwait(t))
  BY WaitOn
<1>2. \A id : Decided(id)' <=> Decided(id)
  BY DEF Decided
<1>3. ReadyOK'
  BY <1>2, ReadySame
<1>4. Buffers' /\ pool' \subseteq Buffer
  <2>1. SameSlots
    BY DEF SameSlots
  <2>2. QED
    BY <2>1, BuffersKept DEF Typed
<1>5. /\ r.pc \notin SendPc \cup ReadPc \cup {"handle", "mark", "touch"}
      /\ r.pc \notin {"scan", "cleanup"} /\ local[t].pc \notin {"scan", "cleanup"}
  BY DEF WaitPc, SendPc, ReadPc
<1>6. r.pc \in AwaitPc \/ r.ret = "recount" <=> InAwait(t)
  BY <1>1 DEF InAwait
<1>7. r.pc \in WaitPc /\ r.ctx # 0 => r.ctx \in owned[t]
  BY DEF Contexts
<1>8. Rest(t)'
  BY <1>3, <1>4, <1>5, <1>6, <1>7, QuietStep
<1>9. Locals(t)'
  <2>1. r.pc \notin ReadPc /\ (r.pc # "exit" => r.buf = NULL)
    BY <1>5
  <2>2. r.ctx # 0 /\ r.handled = r.ctx => Decided(r.ctx)'
    BY <1>2
  <2>3. (local[t].ctx # 0 /\ local[t].handled = local[t].ctx => Decided(local[t].ctx))'
    BY <2>2
  <2>4. QED
    BY <2>1, <2>3 DEF Locals
<1>10. QED
  BY <1>1, <1>8, <1>9, Together DEF Own

\* listenForMessage looks at the descriptor of its context.
LEMMA CheckStatusKeeps ==
    ASSUME ClientInv, NEW t \in Thread, CheckStatus(t)
    PROVE  ClientInv'
<1> Typed /\ Locals(t) /\ Contexts /\ local[t] \in Local
  BY DEF ClientInv, Typed
<1> local[t].pc = "check" /\ local[t].pc \in WaitPc /\ local[t].buf = NULL
  BY DEF CheckStatus, At, Locals, WaitPc, ReadPc
<1> UNCHANGED <<clientVars, envVars>>
  BY DEF CheckStatus
<1>1. CASE Goto(t, "lock") /\ UNCHANGED <<owned, ready>>
  <2>1. PICK r : r = [local[t] EXCEPT !.pc = "lock"]
    OBVIOUS
  <2>2. /\ r \in Local /\ r.pc = "lock" /\ r.ctx = local[t].ctx /\ r.ret = local[t].ret /\ r.ids = local[t].ids
        /\ r.all = local[t].all /\ r.async = local[t].async /\ r.buf = local[t].buf
        /\ r.handled = local[t].handled
    BY <2>1 DEF Local, Pc
  <2>3. local' = [local EXCEPT ![t] = r]
    BY <1>1, <2>1 DEF Goto
  <2>4. r.ctx # 0 => r.handled # r.ctx
    BY <2>2 DEF Locals
  <2>5. QED
    BY <1>1, <2>2, <2>3, <2>4, WaitStep DEF WaitPc, clientVars, envVars
<1>2. CASE Return(t, -1) /\ local[t].ctx \notin DOMAIN messages
  BY <1>2, Returned, SMTT(30) DEF clientVars, envVars
<1>3. CASE Return(t, 0) /\ local[t].ctx \in DOMAIN messages /\ messages[local[t].ctx].status # "inprogress"
  <2>1. Decided(local[t].ctx)
    BY <1>3 DEF Decided
  <2>2. QED
    BY <1>3, <2>1, Returned, SMTT(30) DEF clientVars, envVars
<1>4. QED
  BY <1>1, <1>2, <1>3 DEF CheckStatus

\* The lock around the receive.
LEMMA LockWaitKeeps ==
    ASSUME ClientInv, NEW t \in Thread, LockWait(t)
    PROVE  ClientInv'
<1> Typed /\ Locals(t) /\ Contexts /\ local[t] \in Local
  BY DEF ClientInv, Typed
<1> local[t].pc = "lock" /\ local[t].pc \in WaitPc /\ local[t].buf = NULL
  BY DEF LockWait, At, Locals, WaitPc, ReadPc
<1>1. UNCHANGED <<current_message_id, current_awaiter_id, messages, swap, awaiters, awaiter,
                  send_lock, pool, content, pending, incoming, open, scenario, events, errors>>
  BY DEF LockWait, envVars
<1>2. CASE Goto(t, "recv") /\ UNCHANGED <<owned, ready>>
  <2>1. PICK r : r = [local[t] EXCEPT !.pc = "recv"]
    OBVIOUS
  <2>2. /\ r \in Local /\ r.pc = "recv" /\ r.ctx = local[t].ctx /\ r.ret = local[t].ret /\ r.ids = local[t].ids
        /\ r.all = local[t].all /\ r.async = local[t].async /\ r.buf = local[t].buf
        /\ r.handled = local[t].handled
    BY <2>1 DEF Local, Pc
  <2>3. local' = [local EXCEPT ![t] = r]
    BY <1>2, <2>1 DEF Goto
  <2>4. r.ctx # 0 => r.handled # r.ctx
    BY <2>2 DEF Locals
  <2>5. QED
    BY <1>1, <1>2, <2>2, <2>3, <2>4, WaitStep DEF WaitPc
<1>3. CASE Return(t, -1)
  BY <1>1, <1>3, Returned, SMTT(30)
<1>4. QED
  BY <1>2, <1>3 DEF LockWait

\* Only responses arrive at a client with a thread that waits for a context.
LEMMA WaiterIsCalm ==
    ASSUME ClientInv, NEW t \in Thread, local[t].pc \in WaitPc, local[t].ctx # 0
    PROVE  Calm(scenario) /\ open
<1>1. Typed /\ Role(t) /\ Arrivals
  BY DEF ClientInv
<1>2. Waits(scenario, t) /\ Disciplined(scenario)
  BY <1>1 DEF Role, Typed
<1>3. Calm(scenario)
  BY <1>2 DEF Disciplined
<1>4. QED
  BY <1>1, <1>3 DEF Arrivals

\* The peek, or the search for a buffer, fails.
LEMMA PeekFailsKeeps ==
    ASSUME ClientInv, NEW t \in Thread, PeekFails(t) \/ NoBuffer(t)
    PROVE  ClientInv'
<1>1. Typed /\ Locals(t) /\ local[t] \in Local
  BY DEF ClientInv, Typed
<1>2. local[t].pc = "recv" /\ local[t].pc \in WaitPc /\ local[t].buf = NULL
  BY <1>1 DEF PeekFails, NoBuffer, At, Locals, WaitPc, ReadPc
<1>3. UNCHANGED <<current_message_id, current_awaiter_id, messages, swap, awaiters, awaiter, send_lock, pool,
                  content, owned, ready, pending, incoming, open, scenario, events, errors>>
  BY DEF PeekFails, NoBuffer, envVars
<1>4. \E stale \in BOOLEAN : FailWait(t, NULL, stale)
  <2>1. local[t].stale \in BOOLEAN
    BY <1>1 DEF Local
  <2>2. QED
    BY <1>2, <2>1 DEF PeekFails, NoBuffer
<1>5. PICK stale \in BOOLEAN : FailWait(t, NULL, stale)
  BY <1>4
<1>6. PICK r : r = [local[t] EXCEPT !.pc = "exit", !.status = -1, !.buf = NULL, !.stale = stale]
  OBVIOUS
<1>7. /\ r \in Local /\ r.pc = "exit" /\ r.ctx = local[t].ctx /\ r.ret = local[t].ret /\ r.ids = local[t].ids
      /\ r.all = local[t].all /\ r.async = local[t].async /\ r.buf = NULL
      /\ r.handled = local[t].handled /\ r.status = -1
  BY <1>1, <1>6 DEF Local, Pc
<1>8. local' = [local EXCEPT ![t] = r]
  BY <1>5, <1>6 DEF FailWait
<1>9. r.ctx # 0 => r.handled # r.ctx
  BY <1>1, <1>2, <1>7 DEF Locals
<1>10. QED
  BY <1>2, <1>3, <1>7, <1>8, <1>9, WaitStep DEF WaitPc

\* An event is handled.
LEMMA HandleEventKeeps ==
    ASSUME ClientInv, NEW t \in Thread, HandleEvent(t)
    PROVE  ClientInv'
<1> Typed /\ Locals(t) /\ Arrivals /\ local[t] \in Local
  BY DEF ClientInv, Typed
<1> local[t].pc = "handle" /\ local[t].pc \in WaitPc /\ content[local[t].buf].type = "event"
  BY DEF HandleEvent, At, WaitPc
<1>1. local[t].ctx = 0
  <2>1. ~Calm(scenario)
    BY DEF Arrivals, Expected, Handles
  <2>2. QED
    BY <2>1, WaiterIsCalm
<1>2. UNCHANGED <<clientVars, owned, ready, envVars>>
  BY DEF HandleEvent
<1>3. PICK status \in {0, -1} : local' = [local EXCEPT ![t].pc = "exit", ![t].status = status]
  BY DEF HandleEvent
<1>4. PICK r : r = [local[t] EXCEPT !.pc = "exit", !.status = status]
  OBVIOUS
<1>5. /\ r \in Local /\ r.pc = "exit" /\ r.ctx = local[t].ctx /\ r.ret = local[t].ret /\ r.ids = local[t].ids
      /\ r.all = local[t].all /\ r.async = local[t].async /\ r.buf = local[t].buf /\ r.stale = local[t].stale
  BY <1>4 DEF Local, Pc
<1>6. local' = [local EXCEPT ![t] = r]
  BY <1>3, <1>4
<1>7. r.stale => r.buf = NULL
  BY <1>5 DEF Locals
<1>8. QED
  BY <1>1, <1>2, <1>5, <1>6, <1>7, WaitStep DEF WaitPc, clientVars, envVars

\* listenOrExit releases the buffer, and returns or listens again.
LEMMA ListenOrExitKeeps ==
    ASSUME ClientInv, NEW t \in Thread, ListenOrExit(t)
    PROVE  ClientInv'
<1> Typed /\ Locals(t) /\ local[t] \in Local
  BY DEF ClientInv, Typed
<1> local[t].pc = "exit" /\ local[t].pc \in WaitPc
  BY DEF ListenOrExit, At, WaitPc
<1> /\ UNCHANGED <<current_message_id, current_awaiter_id, messages, swap, awaiters, awaiter, send_lock,
                   content, pending, incoming, open, scenario, events, errors>>
    /\ pool' = IF local[t].buf = NULL THEN pool ELSE pool \cup {local[t].buf}
  BY DEF ListenOrExit, envVars
<1>1. CASE local[t].ctx # 0 /\ local[t].handled \notin {0, local[t].ctx}
  <2>1. /\ local' = [local EXCEPT ![t].pc = "check", ![t].stale = TRUE] /\ UNCHANGED <<owned, ready>>
    BY <1>1 DEF ListenOrExit
  <2>2. local[t].buf = NULL /\ pool' = pool
    BY <1>1 DEF Locals
  <2>3. PICK r : r = [local[t] EXCEPT !.pc = "check", !.stale = TRUE]
    OBVIOUS
  <2>4. /\ r \in Local /\ r.pc = "check" /\ r.ctx = local[t].ctx /\ r.ret = local[t].ret /\ r.ids = local[t].ids
        /\ r.all = local[t].all /\ r.async = local[t].async /\ r.buf = local[t].buf
        /\ r.handled = local[t].handled
    BY <2>3 DEF Local, Pc
  <2>5. local' = [local EXCEPT ![t] = r]
    BY <2>1, <2>3
  <2>6. QED
    BY <1>1, <2>1, <2>2, <2>4, <2>5, WaitStep DEF WaitPc
<1>2. CASE ~(local[t].ctx # 0 /\ local[t].handled \notin {0, local[t].ctx})
  <2>1. Return(t, local[t].status)
    BY <1>2 DEF ListenOrExit
  <2>2. local[t].ctx # 0 /\ local[t].status = 0 => Decided(local[t].ctx)
    BY <1>2, SMTT(30) DEF Locals
  <2>3. QED
    BY <2>1, <2>2, Returned
<1>3. QED
  BY <1>1, <1>2

\* What follows the first message of a connection.
LEMMA Following ==
    ASSUME NEW s \in Seq(Letter), s # <<>>
    PROVE  /\ 1 \in DOMAIN s /\ Head(s) = s[1] /\ s[1] \in Letter /\ Tail(s) \in Seq(Letter)
           /\ \E h \in [DOMAIN Tail(s) -> DOMAIN s] :
                 /\ \A i \in DOMAIN Tail(s) : Tail(s)[i] = s[h[i]] /\ h[i] # 1
                 /\ \A i, j \in DOMAIN Tail(s) : h[i] = h[j] => i = j
<1> DEFINE h == [i \in DOMAIN Tail(s) |-> i + 1]
<1>1. 1 \in DOMAIN s /\ Head(s) = s[1] /\ s[1] \in Letter /\ Tail(s) \in Seq(Letter)
  BY SMTT(30)
<1>2. h \in [DOMAIN Tail(s) -> DOMAIN s]
  BY SMTT(30)
<1>3. \A i \in DOMAIN Tail(s) : Tail(s)[i] = s[h[i]] /\ h[i] # 1
  BY SMTT(30)
<1>4. \A i, j \in DOMAIN Tail(s) : h[i] = h[j] => i = j
  BY SMTT(30)
<1>5. QED
  BY <1>1, <1>2, <1>3, <1>4

\* Messages leave the connection; thread t has the first of them, or none.
LEMMA AnswersRead ==
    ASSUME Answers, Arrivals, NEW t \in Thread, Moves(t), UNCHANGED <<pending, messages, scenario, open>>,
           ~Handles(t),
           NEW h \in [DOMAIN incoming' -> DOMAIN incoming],
           \A i \in DOMAIN incoming' : incoming'[i] = incoming[h[i]] /\ h[i] # 1,
           \A i, j \in DOMAIN incoming' : h[i] = h[j] => i = j,
           \A u \in Thread : Handles(u) => content'[local[u].buf] = content[local[u].buf],
           Handles(t)' => 1 \in DOMAIN incoming /\ content'[local'[t].buf] = incoming[1]
    PROVE  Answers' /\ Arrivals'
<1>1. \A u \in Thread : Handles(u)' /\ u # t =>
         Handles(u) /\ local'[u].buf = local[u].buf /\ content'[local'[u].buf] = content[local[u].buf]
  BY DEF Moves, Handles
<1>2. \A id : InProgress(id)' <=> InProgress(id)
  BY DEF InProgress
<1>3. \A i \in DOMAIN incoming' : h[i] \in DOMAIN incoming
  OBVIOUS
<1>4. (\A id \in pending : InProgress(id))'
  BY <1>2 DEF Answers
<1>5. (\A i \in DOMAIN incoming : Decides(incoming[i]) =>
          InProgress(incoming[i].id) /\ incoming[i].id \notin pending)'
  <2> SUFFICES ASSUME NEW i \in DOMAIN incoming', Decides(incoming[i])'
               PROVE  InProgress(incoming[i].id)' /\ incoming'[i].id \notin pending
    OBVIOUS
  <2>1. PICK id : id = incoming[h[i]].id
    OBVIOUS
  <2>2. incoming'[i].id = id /\ Decides(incoming[h[i]])
    BY <2>1 DEF Decides
  <2>3. InProgress(id) /\ id \notin pending
    <3>1. PICK k \in DOMAIN incoming : k = h[i]
      BY <1>3
    <3>2. Decides(incoming[k]) /\ incoming[k].id = id
      BY <2>1, <2>2, <3>1
    <3>3. QED
      BY <3>2 DEF Answers
  <2>4. InProgress(id)'
    BY <1>2, <2>3
  <2>5. QED
    BY <2>2, <2>3, <2>4
<1>6. (\A i, j \in DOMAIN incoming :
          Decides(incoming[i]) /\ Decides(incoming[j]) /\ incoming[i].id = incoming[j].id => i = j)'
  <2> SUFFICES ASSUME NEW i \in DOMAIN incoming', NEW j \in DOMAIN incoming',
                      Decides(incoming[i])', Decides(incoming[j])', incoming'[i].id = incoming'[j].id
               PROVE  i = j
    OBVIOUS
  <2>1. Decides(incoming[h[i]]) /\ Decides(incoming[h[j]]) /\ incoming[h[i]].id = incoming[h[j]].id
    BY DEF Decides
  <2>2. h[i] = h[j]
    BY <1>3, <2>1 DEF Answers
  <2>3. QED
    BY <2>2
<1>7. ASSUME NEW u \in Thread, Handles(u)', Decides(content[local[u].buf])', NEW id, id = content'[local'[u].buf].id
      PROVE  /\ InProgress(id) /\ id \notin pending
             /\ \A i \in DOMAIN incoming' : Decides(incoming[i])' => incoming'[i].id # id
  <2>1. CASE u # t
    <3>1. Handles(u) /\ Decides(content[local[u].buf]) /\ id = content[local[u].buf].id
      BY <1>1, <1>7, <2>1 DEF Decides
    <3>2. /\ InProgress(id) /\ id \notin pending
          /\ \A i \in DOMAIN incoming : Decides(incoming[i]) => incoming[i].id # id
      BY <3>1 DEF Answers
    <3>3. \A i \in DOMAIN incoming' : Decides(incoming[i])' => incoming'[i].id # id
      <4> SUFFICES ASSUME NEW i \in DOMAIN incoming', Decides(incoming[i])' PROVE incoming'[i].id # id
        OBVIOUS
      <4>1. h[i] \in DOMAIN incoming /\ Decides(incoming[h[i]]) /\ incoming'[i] = incoming[h[i]]
        BY <1>3 DEF Decides
      <4>2. QED
        BY <3>2, <4>1
    <3>4. QED
      BY <3>2, <3>3
  <2>2. CASE u = t
    <3>1. 1 \in DOMAIN incoming /\ Decides(incoming[1]) /\ id = incoming[1].id
      BY <1>7, <2>2 DEF Decides
    <3>2. InProgress(id) /\ id \notin pending
      BY <3>1 DEF Answers
    <3>3. \A i \in DOMAIN incoming' : Decides(incoming[i])' => incoming'[i].id # id
      <4> SUFFICES ASSUME NEW i \in DOMAIN incoming', Decides(incoming[i])', incoming'[i].id = id PROVE FALSE
        OBVIOUS
      <4>1. Decides(incoming[h[i]]) /\ incoming[h[i]].id = incoming[1].id
        BY <3>1 DEF Decides
      <4>2. h[i] = 1
        BY <1>3, <3>1, <4>1 DEF Answers
      <4>3. QED
        BY <4>2
    <3>4. QED
      BY <3>2, <3>3
  <2>3. QED
    BY <2>1, <2>2
<1>8. (\A u \in Thread : Handles(u) /\ Decides(content[local[u].buf]) =>
          /\ InProgress(content[local[u].buf].id) /\ content[local[u].buf].id \notin pending
          /\ \A i \in DOMAIN incoming :
                Decides(incoming[i]) => incoming[i].id # content[local[u].buf].id)'
  <2> SUFFICES ASSUME NEW u \in Thread, Handles(u)', Decides(content[local[u].buf])'
               PROVE  (/\ InProgress(content[local[u].buf].id) /\ content[local[u].buf].id \notin pending
                       /\ \A i \in DOMAIN incoming :
                             Decides(incoming[i]) => incoming[i].id # content[local[u].buf].id)'
    OBVIOUS
  <2>1. PICK id : id = content'[local'[u].buf].id
    OBVIOUS
  <2>2. /\ InProgress(id) /\ id \notin pending
        /\ \A i \in DOMAIN incoming' : Decides(incoming[i])' => incoming'[i].id # id
    BY <1>7, <2>1, SMTT(30)
  <2>3. InProgress(id)'
    BY <1>2, <2>2
  <2>4. QED
    BY <2>1, <2>2, <2>3
<1>9. (\A u, v \in Thread :
          /\ Handles(u) /\ Handles(v)
          /\ Decides(content[local[u].buf]) /\ Decides(content[local[v].buf])
          /\ content[local[u].buf].id = content[local[v].buf].id
          => u = v)'
  <2>1. ASSUME NEW u \in Thread, u # t, Handles(u)', Handles(t)',
               Decides(content[local[u].buf])', Decides(content[local[t].buf])',
               content'[local'[u].buf].id = content'[local'[t].buf].id
        PROVE  FALSE
    <3>1. Handles(u) /\ Decides(content[local[u].buf]) /\ content'[local'[u].buf] = content[local[u].buf]
      BY <1>1, <2>1 DEF Decides
    <3>2. 1 \in DOMAIN incoming /\ Decides(incoming[1]) /\ incoming[1].id = content[local[u].buf].id
      BY <2>1, <3>1 DEF Decides
    <3>3. QED
      BY <3>1, <3>2 DEF Answers
  <2>2. ASSUME NEW u \in Thread, NEW v \in Thread, u # t, v # t, Handles(u)', Handles(v)',
               Decides(content[local[u].buf])', Decides(content[local[v].buf])',
               content'[local'[u].buf].id = content'[local'[v].buf].id
        PROVE  u = v
    <3>1. /\ Handles(u) /\ Decides(content[local[u].buf])
          /\ Handles(v) /\ Decides(content[local[v].buf])
          /\ content[local[u].buf].id = content[local[v].buf].id
      BY <1>1, <2>2 DEF Decides
    <3>2. QED
      BY <3>1 DEF Answers
  <2>3. ASSUME NEW u \in Thread, NEW v \in Thread, Handles(u)', Handles(v)',
               Decides(content[local[u].buf])', Decides(content[local[v].buf])',
               content'[local'[u].buf].id = content'[local'[v].buf].id
        PROVE  u = v
    <3>1. CASE u = t \/ v = t
      BY <2>1, <2>3, <3>1
    <3>2. CASE u # t /\ v # t
      BY <2>2, <2>3, <3>2
    <3>3. QED
      BY <3>1, <3>2
  <2>4. QED
    BY <2>3
<1>10. Answers'
  BY <1>4, <1>5, <1>6, <1>8, <1>9 DEF Answers
<1>11. \A m : Expected(m) => Expected(m)'
  BY DEF Expected
<1>12. (\A i \in DOMAIN incoming : Expected(incoming[i]))'
  <2>1. \A i \in DOMAIN incoming' : Expected(incoming[h[i]])
    BY <1>3 DEF Arrivals
  <2>2. QED
    <3> SUFFICES ASSUME NEW i \in DOMAIN incoming' PROVE Expected(incoming[i])'
      OBVIOUS
    <3>1. PICK m : m = incoming[h[i]]
      OBVIOUS
    <3>2. Expected(m)' /\ incoming'[i] = m
      BY <1>11, <2>1, <3>1
    <3>3. QED
      BY <3>2
<1>13. (\A u \in Thread : Handles(u) => Expected(content[local[u].buf]))'
  <2> SUFFICES ASSUME NEW u \in Thread, Handles(u)' PROVE Expected(content[local[u].buf])'
    OBVIOUS
  <2>1. PICK m : m = content'[local'[u].buf]
    OBVIOUS
  <2>2. Expected(m)
    BY <1>1, <2>1 DEF Arrivals
  <2>3. QED
    BY <1>11, <2>1, <2>2
<1>14. QED
  BY <1>10, <1>12, <1>13 DEF Arrivals

\* A thread that reads the connection has acquired a buffer.
LEMMA ReadStep ==
    ASSUME ClientInv, NEW t \in Thread, At(t, "recv"), NEW b \in pool, NEW r \in Local,
           local' = [local EXCEPT ![t] = r], pool' = pool \ {b},
           r.pc \in {"handle", "exit"}, r.buf = b, r.stale = FALSE,
           r.ctx = local[t].ctx, r.ret = local[t].ret, r.ids = local[t].ids, r.all = local[t].all,
           r.async = local[t].async, r.handled = local[t].handled,
           r.pc = "exit" => r.ctx = 0,
           content' \in [Buffer -> Letter], \A c \in Buffer \ {b} : content'[c] = content[c],
           incoming' \in Seq(Letter), Answers', Arrivals',
           UNCHANGED <<current_message_id, current_awaiter_id, messages, swap, awaiters, awaiter, send_lock,
                       owned, ready, pending, open, scenario, events, errors>>
    PROVE  ClientInv'
<1> Typed /\ Ids /\ Contexts /\ Descriptors /\ Buffers /\ Awaits /\ Locals(t)
  BY DEF ClientInv
<1> Moves(t) /\ local'[t] = r
  BY Moved
<1> /\ local[t].pc = "recv" /\ local[t].pc \in WaitPc /\ local[t].buf = NULL /\ r.pc \in WaitPc
    /\ r.pc \notin SendPc \cup ReadPc \cup {"mark", "touch", "scan", "cleanup"}
  BY DEF At, WaitPc, Locals, ReadPc, SendPc
<1>1. Role(t)' /\ Awaiting(t)' /\ (InAwait(t)' <=> InAwait(t))
  BY WaitOn
<1>2. \A id : Decided(id)' <=> Decided(id)
  BY DEF Decided
<1>3. SameSlots
  BY DEF SameSlots
<1>4. Typed'
  BY DEF Typed, Moves
<1>5. Ids'
  BY IdsKept
<1>6. Contexts'
  <2>1. \A u \in Thread : ready'[u] \subseteq owned[u] /\ \A id \in ready'[u] : Decided(id)'
    BY <1>2 DEF Contexts
  <2>2. InAwait(t)' => local'[t].ids \subseteq owned[t]
    BY <1>1 DEF Contexts
  <2>3. local'[t].pc \in WaitPc /\ local'[t].ctx # 0 => local'[t].ctx \in owned[t]
    BY DEF Contexts
  <2>4. QED
    BY <2>1, <2>2, <2>3, ContextsKept
<1>7. Descriptors'
  BY <1>3, DescriptorsKept DEF ReadPc
<1>8. Buffers'
  BY <1>3, BuffersAcquired
<1>9. Awaits'
  <2>1. /\ \A id \in DOMAIN messages' : messages'[id].awaiter < current_awaiter_id
        /\ \A k \in DOMAIN awaiters : awaiters[k] \in Thread
    BY DEF Awaits, Typed
  <2>2. QED
    BY <1>1, <2>1, AwaitsKept
<1>10. \A k : Marking(k)' = Marking(k)
  BY MarkingKept
<1>11. ASSUME NEW u \in Thread \ {t} PROVE Role(u)' /\ Locals(u)' /\ Awaiting(u)'
  <2>1. local'[u] = local[u] /\ u \in Thread
    BY DEF Moves
  <2>2. Role(u)' /\ Locals(u)'
    BY <1>2, <2>1, OtherKept
  <2>3. Awaiting(u)'
    BY <1>2, <1>10, <2>1, AwaitingKept
  <2>4. QED
    BY <2>2, <2>3
<1>12. Locals(t)'
  <2>1. local'[t].ctx # 0 => local'[t].handled # local'[t].ctx
    BY DEF Locals
  <2>2. r.buf \in Buffer
    BY DEF Typed
  <2>3. QED
    BY <2>1, <2>2 DEF Locals
<1>13. QED
  BY <1>1, <1>4, <1>5, <1>6, <1>7, <1>8, <1>9, <1>11, <1>12, Together DEF Rest, Own

\* peek, acquire and recv of a message.
LEMMA ReceiveKeeps ==
    ASSUME ClientInv, NEW t \in Thread, Receive(t)
    PROVE  ClientInv'
<1>1. Typed /\ Answers /\ Arrivals /\ Buffers /\ local[t] \in Local
  BY DEF ClientInv, Typed
<1>2. /\ At(t, "recv") /\ incoming # <<>> /\ incoming' = Tail(incoming) /\ ~Handles(t)
      /\ UNCHANGED <<current_message_id, current_awaiter_id, messages, swap, awaiters, awaiter, send_lock,
                     owned, ready, pending, open, scenario, events, errors>>
  BY DEF Receive, At, Handles
<1>3. PICK b \in pool :
         /\ pool' = pool \ {b} /\ content' = [content EXCEPT ![b] = Head(incoming)]
         /\ local' = [local EXCEPT ![t].pc = "handle", ![t].buf = b, ![t].stale = FALSE]
  BY DEF Receive
<1>4. b \in Buffer /\ incoming \in Seq(Letter) /\ content \in [Buffer -> Letter]
  BY <1>1 DEF Typed
<1>5. PICK r : r = [local[t] EXCEPT !.pc = "handle", !.buf = b, !.stale = FALSE]
  OBVIOUS
<1>6. /\ r \in Local /\ r.pc = "handle" /\ r.ctx = local[t].ctx /\ r.ret = local[t].ret /\ r.ids = local[t].ids
      /\ r.all = local[t].all /\ r.async = local[t].async /\ r.buf = b /\ r.stale = FALSE
      /\ r.handled = local[t].handled
  BY <1>1, <1>4, <1>5 DEF Local, Pc
<1>7. local' = [local EXCEPT ![t] = r]
  BY <1>3, <1>5
<1>8. Moves(t) /\ local'[t] = r
  BY <1>1, <1>6, <1>7, Moved
<1>9. /\ 1 \in DOMAIN incoming /\ Head(incoming) = incoming[1] /\ incoming[1] \in Letter
      /\ incoming' \in Seq(Letter)
      /\ \E h \in [DOMAIN incoming' -> DOMAIN incoming] :
            /\ \A i \in DOMAIN incoming' : incoming'[i] = incoming[h[i]] /\ h[i] # 1
            /\ \A i, j \in DOMAIN incoming' : h[i] = h[j] => i = j
  <2>1. /\ 1 \in DOMAIN incoming /\ Head(incoming) = incoming[1] /\ incoming[1] \in Letter
        /\ Tail(incoming) \in Seq(Letter)
        /\ \E h \in [DOMAIN Tail(incoming) -> DOMAIN incoming] :
              /\ \A i \in DOMAIN Tail(incoming) : Tail(incoming)[i] = incoming[h[i]] /\ h[i] # 1
              /\ \A i, j \in DOMAIN Tail(incoming) : h[i] = h[j] => i = j
    BY <1>2, <1>4, Following
  <2>2. QED
    BY <1>2, <2>1, SMTT(30)
<1>10. /\ content' \in [Buffer -> Letter] /\ content'[b] = incoming[1]
       /\ \A c \in Buffer \ {b} : content'[c] = content[c]
  BY <1>3, <1>4, <1>9
<1>11. PICK h \in [DOMAIN incoming' -> DOMAIN incoming] :
          /\ \A i \in DOMAIN incoming' : incoming'[i] = incoming[h[i]] /\ h[i] # 1
          /\ \A i, j \in DOMAIN incoming' : h[i] = h[j] => i = j
  BY <1>9
<1>12. \A u \in Thread : Handles(u) => content'[local[u].buf] = content[local[u].buf]
  <2> SUFFICES ASSUME NEW u \in Thread, Handles(u) PROVE local[u].buf \in Buffer \ {b}
    BY <1>10
  <2>1. Locals(u) /\ local[u].buf \notin pool
    BY <1>1 DEF ClientInv, Buffers
  <2>2. QED
    BY <2>1 DEF Locals, Handles
<1>13. content'[local'[t].buf] = incoming[1]
  BY <1>6, <1>8, <1>10
<1>14. Answers' /\ Arrivals'
  BY <1>1, <1>2, <1>8, <1>9, <1>11, <1>12, <1>13, AnswersRead
<1>15. r.pc \in {"handle", "exit"} /\ (r.pc = "exit" => r.ctx = 0) /\ incoming' \in Seq(Letter)
  BY <1>6, <1>9
<1>16. QED
  BY <1>2, <1>3, <1>6, <1>7, <1>10, <1>14, <1>15, ReadStep

\* The recv fails.
LEMMA ReceiveFailsKeeps ==
    ASSUME ClientInv, NEW t \in Thread, ReceiveFails(t)
    PROVE  ClientInv'
<1> Typed /\ Answers /\ Arrivals /\ local[t] \in Local
  BY DEF ClientInv, Typed
<1> /\ At(t, "recv") /\ ~open /\ incoming' = <<>> /\ ~Handles(t)
    /\ UNCHANGED <<current_message_id, current_awaiter_id, messages, swap, awaiters, awaiter, send_lock,
                   content, owned, ready, pending, open, scenario, events, errors>>
  BY DEF ReceiveFails, At, Handles
<1>1. local[t].ctx = 0
  BY WaiterIsCalm DEF At, WaitPc
<1>2. PICK b \in pool : pool' = pool \ {b} /\ FailWait(t, b, FALSE)
  BY DEF ReceiveFails
<1>3. b \in Buffer /\ content \in [Buffer -> Letter]
  BY DEF Typed
<1>4. PICK r : r = [local[t] EXCEPT !.pc = "exit", !.status = -1, !.buf = b, !.stale = FALSE]
  OBVIOUS
<1> /\ r \in Local /\ r.pc = "exit" /\ r.ctx = local[t].ctx /\ r.ret = local[t].ret /\ r.ids = local[t].ids
    /\ r.all = local[t].all /\ r.async = local[t].async /\ r.buf = b /\ r.stale = FALSE
    /\ r.handled = local[t].handled
  BY <1>3, <1>4 DEF Local, Pc
<1>5. local' = [local EXCEPT ![t] = r]
  BY <1>2, <1>4 DEF FailWait
<1>6. Moves(t) /\ local'[t] = r
  BY <1>5, Moved
<1> incoming' \in Seq(Letter) /\ DOMAIN incoming' = {}
  BY SMTT(30)
<1>7. PICK h : h = [i \in DOMAIN incoming' |-> i]
  OBVIOUS
<1>8. h \in [DOMAIN incoming' -> DOMAIN incoming]
  BY <1>7, SMTT(30)
<1>9. ~Handles(t)'
  BY <1>6 DEF Handles
<1>10. Answers' /\ Arrivals'
  BY <1>6, <1>8, <1>9, AnswersRead
<1>11. QED
  BY <1>1, <1>2, <1>3, <1>5, <1>10, ReadStep

----------------------------------------------------------------------------
(* An answer is handled                                                    *)

\* The request of an answer is one in progress, and the buffer of its descriptor is unset.
LEMMA AnswerInHand ==
    ASSUME ClientInv, NEW t \in Thread, Handles(t), Decides(content[local[t].buf]),
           NEW id, id = content[local[t].buf].id
    PROVE  /\ InProgress(id) /\ id \in DOMAIN messages /\ messages[id] \in Slot
           /\ messages[id].buffer = NULL /\ id # 0
<1> Typed /\ Answers /\ Descriptors
  BY DEF ClientInv
<1>1. InProgress(id)
  BY DEF Answers
<1> id \in DOMAIN messages /\ messages[id].status = "inprogress"
  BY <1>1 DEF InProgress
<1>2. messages[id] \in Slot /\ id \in 1 .. MaxId
  BY DEF Typed
<1>3. messages[id].buffer = NULL
  BY DEF Descriptors
<1>4. QED
  BY <1>1, <1>2, <1>3, SMTT(30)

\* The buffer of thread t goes to the descriptor id.
LEMMA BuffersFiled ==
    ASSUME Typed, Buffers, NEW t \in Thread, NEW id \in DOMAIN messages, NEW b \in Buffer,
           local[t].buf = b, local'[t].buf = NULL, \A u \in Thread \ {t} : local'[u].buf = local[u].buf,
           DOMAIN messages' = DOMAIN messages, messages[id].buffer = NULL, messages'[id].buffer = b,
           \A i \in DOMAIN messages : i # id => messages'[i].buffer = messages[i].buffer,
           UNCHANGED pool
    PROVE  Buffers'
<1> NULL \notin Buffer /\ NULL \notin pool /\ b # NULL
  BY ClientAssumption DEF Typed
<1>1. \A u \in Thread : u # t => local'[u].buf = local[u].buf /\ local[u].buf # b
  BY SMTT(30) DEF Buffers
<1>2. \A i \in DOMAIN messages : messages[i].buffer # b
  BY SMTT(30) DEF Buffers
<1>3. (\A c \in Buffer :
          \/ c \in pool
          \/ \E i \in DOMAIN messages : messages[i].buffer = c
          \/ \E u \in Thread : local[u].buf = c)'
  <2> SUFFICES ASSUME NEW c \in Buffer
               PROVE  (\/ c \in pool
                       \/ \E i \in DOMAIN messages : messages[i].buffer = c
                       \/ \E u \in Thread : local[u].buf = c)'
    OBVIOUS
  <2>1. CASE c = b
    BY <2>1
  <2>2. CASE c # b
    <3>1. CASE c \in pool
      BY <3>1
    <3>2. CASE \E i \in DOMAIN messages : messages[i].buffer = c
      <4>1. PICK i \in DOMAIN messages : messages[i].buffer = c
        BY <3>2
      <4>2. messages'[i].buffer = c
        BY <4>1
      <4>3. QED
        BY <4>2
    <3>3. CASE \E u \in Thread : local[u].buf = c
      <4>1. PICK u \in Thread : local[u].buf = c
        BY <3>3
      <4>2. local'[u].buf = c
        BY <1>1, <2>2, <4>1
      <4>3. QED
        BY <4>2
    <3>4. QED
      BY <3>1, <3>2, <3>3 DEF Buffers
  <2>3. QED
    BY <2>1, <2>2
<1>4. \A i \in DOMAIN messages : messages'[i].buffer = messages[i].buffer \/ (i = id /\ messages'[i].buffer = b)
  OBVIOUS
<1>5. \A u \in Thread : (local'[u].buf = local[u].buf /\ local'[u].buf # b) \/ local'[u].buf = NULL
  BY <1>1
<1>6. b \notin pool
  BY DEF Buffers
<1>7. (\A i \in DOMAIN messages : messages[i].buffer \notin pool)'
  BY <1>4, <1>6 DEF Buffers
<1>8. (\A u \in Thread : local[u].buf \notin pool)'
  BY <1>5 DEF Buffers
<1>9. (\A i \in DOMAIN messages, u \in Thread :
         messages[i].buffer = local[u].buf => local[u].buf = NULL)'
  BY <1>4, <1>5, SMTT(30) DEF Buffers
<1>10. (\A i, j \in DOMAIN messages :
          messages[i].buffer = messages[j].buffer => i = j \/ messages[i].buffer = NULL)'
  BY <1>2, <1>4, SMTT(30) DEF Buffers
<1>11. (\A u, v \in Thread : local[u].buf = local[v].buf => u = v \/ local[u].buf = NULL)'
  BY <1>1, SMTT(30) DEF Buffers
<1>12. QED
  BY <1>3, <1>7, <1>8, <1>9, <1>10, <1>11 DEF Buffers

\* mark_awaiters looks the awaiter up, or finds that it is gone.
LEMMA MarkAwaitersKeeps ==
    ASSUME ClientInv, NEW t \in Thread, mark_awaiters(t)
    PROVE  ClientInv'
<1> /\ Typed /\ Ids /\ Contexts /\ Answers /\ Arrivals /\ Descriptors /\ Buffers /\ Awaits
    /\ Locals(t) /\ local[t] \in Local
  BY DEF ClientInv, Typed
<1> local[t].pc = "mark" /\ UNCHANGED <<clientVars, owned, ready, envVars>>
  BY DEF mark_awaiters, At
<1> UNCHANGED <<current_message_id, current_awaiter_id, messages, swap, awaiters, awaiter, send_lock, pool,
                content, owned, ready, pending, incoming, open, scenario, events, errors>>
  BY DEF clientVars, envVars
<1>1. PICK k : k = local[t].mark
  OBVIOUS
<1>2. k < current_awaiter_id
  BY <1>1 DEF Awaits
<1>3. \E r \in Local :
         /\ local' = [local EXCEPT ![t] = r]
         /\ r.ctx = local[t].ctx /\ r.ret = local[t].ret /\ r.ids = local[t].ids
         /\ r.all = local[t].all /\ r.async = local[t].async /\ r.buf = local[t].buf
         /\ r.stale = local[t].stale /\ r.handled = local[t].handled /\ r.status = local[t].status
         /\ \/ r.pc = "touch" /\ k \in DOMAIN awaiters /\ r.ptr = awaiters[k] /\ r.mark = k
            \/ r.pc = "exit" /\ k \notin DOMAIN awaiters
  <2>1. CASE k \in DOMAIN awaiters
    <3>1. PICK r : r = [local[t] EXCEPT !.pc = "touch", !.ptr = awaiters[k]]
      OBVIOUS
    <3>2. local' = [local EXCEPT ![t] = r]
      BY <1>1, <2>1, <3>1 DEF mark_awaiters
    <3>3. awaiters[k] \in Thread
      BY <2>1 DEF Typed
    <3>4. /\ r \in Local /\ r.pc = "touch" /\ r.ctx = local[t].ctx /\ r.ret = local[t].ret
          /\ r.ids = local[t].ids /\ r.all = local[t].all /\ r.async = local[t].async /\ r.buf = local[t].buf
          /\ r.stale = local[t].stale /\ r.handled = local[t].handled /\ r.status = local[t].status
          /\ r.ptr = awaiters[k] /\ r.mark = k
      BY <1>1, <3>1, <3>3 DEF Local, Pc
    <3>5. QED
      BY <2>1, <3>2, <3>4
  <2>2. CASE k \notin DOMAIN awaiters
    <3>1. PICK r : r = [local[t] EXCEPT !.pc = "exit", !.mark = 0]
      OBVIOUS
    <3>2. local' = [local EXCEPT ![t] = r]
      BY <1>1, <2>2, <3>1 DEF mark_awaiters
    <3>3. /\ r \in Local /\ r.pc = "exit" /\ r.ctx = local[t].ctx /\ r.ret = local[t].ret
          /\ r.ids = local[t].ids /\ r.all = local[t].all /\ r.async = local[t].async /\ r.buf = local[t].buf
          /\ r.stale = local[t].stale /\ r.handled = local[t].handled /\ r.status = local[t].status
      <4>1. 0 \in Nat
        BY SMTT(30)
      <4>2. QED
        BY <3>1, <4>1 DEF Local, Pc
    <3>4. QED
      BY <2>2, <3>2, <3>3
  <2>3. QED
    BY <2>1, <2>2
<1>4. PICK r \in Local :
         /\ local' = [local EXCEPT ![t] = r]
         /\ r.ctx = local[t].ctx /\ r.ret = local[t].ret /\ r.ids = local[t].ids
         /\ r.all = local[t].all /\ r.async = local[t].async /\ r.buf = local[t].buf
         /\ r.stale = local[t].stale /\ r.handled = local[t].handled /\ r.status = local[t].status
         /\ \/ r.pc = "touch" /\ k \in DOMAIN awaiters /\ r.ptr = awaiters[k] /\ r.mark = k
            \/ r.pc = "exit" /\ k \notin DOMAIN awaiters
  BY <1>3
<1> Moves(t) /\ local'[t] = r
  BY <1>4, Moved
<1> /\ local[t].pc \in WaitPc /\ local[t].pc \notin {"scan", "cleanup"} /\ r.pc \in WaitPc
    /\ r.pc \notin SendPc \cup ReadPc \cup {"scan", "cleanup", "handle", "mark"}
  BY <1>4 DEF WaitPc, SendPc, ReadPc
<1>5. Role(t)' /\ Awaiting(t)' /\ (InAwait(t)' <=> InAwait(t))
  BY <1>4, WaitOn
<1>6. SameSlots
  BY DEF SameSlots
<1>7. \A i : (Decided(i)' <=> Decided(i)) /\ (InProgress(i)' <=> InProgress(i))
  BY DEF Decided, InProgress
<1>8. Typed'
  BY DEF Typed, Moves
<1>9. Ids'
  BY IdsKept
<1>10. Contexts'
  <2>1. \A u \in Thread : ready'[u] \subseteq owned[u] /\ \A i \in ready'[u] : Decided(i)'
    BY <1>7 DEF Contexts
  <2>2. InAwait(t)' => local'[t].ids \subseteq owned[t]
    BY <1>4, <1>5 DEF Contexts
  <2>3. local'[t].pc \in WaitPc /\ local'[t].ctx # 0 => local'[t].ctx \in owned[t]
    BY <1>4 DEF Contexts
  <2>4. QED
    BY <2>1, <2>2, <2>3, ContextsKept
<1>11. Answers'
  BY <1>7, AnswersKept
<1>12. Arrivals'
  BY ArrivalsKept
<1>13. Descriptors'
  BY <1>6, DescriptorsKept DEF ReadPc
<1>14. Buffers'
  BY <1>4, <1>6, BuffersKept
<1>15. Awaits'
  <2>1. /\ \A i \in DOMAIN messages' : messages'[i].awaiter < current_awaiter_id
        /\ \A j \in DOMAIN awaiters : awaiters[j] \in Thread
    BY DEF Awaits, Typed
  <2>2. k \in DOMAIN awaiters => k # 0 /\ awaiters[k] \in Thread /\ awaiter[awaiters[k]].id = k
    BY DEF Awaits, Typed
  <2>3. local'[t].pc \in {"mark", "touch"} => local'[t].mark < current_awaiter_id
    BY <1>2, <1>4
  <2>4. local'[t].pc = "touch" =>
           local'[t].mark # 0 /\ local'[t].ptr \in Thread /\ awaiter[local'[t].ptr].id = local'[t].mark
    BY <1>4, <2>2
  <2>5. QED
    BY <1>5, <2>1, <2>3, <2>4, AwaitsKept
<1>16. ASSUME NEW u \in Thread \ {t} PROVE Role(u)' /\ Locals(u)' /\ Awaiting(u)'
  <2>1. local'[u] = local[u] /\ u \in Thread /\ Awaiting(u)
    BY DEF Moves, ClientInv
  <2>2. Role(u)' /\ Locals(u)'
    BY <1>7, <2>1, OtherKept
  <2>3. InAwait(u) => Marking(awaiter[u].id)' = Marking(awaiter[u].id)
    <3> SUFFICES ASSUME InAwait(u), NEW j, j = awaiter[u].id PROVE Marking(j)' = Marking(j)
      OBVIOUS
    <3>1. CASE r.pc = "touch"
      <4>1. /\ local'[t].pc \in {"mark", "touch"} /\ local'[t].mark = k
            /\ local[t].pc \in {"mark", "touch"} /\ local[t].mark = k
        BY <1>1, <1>4, <3>1
      <4>2. QED
        BY <4>1, MarkingKept
    <3>2. CASE r.pc = "exit"
      <4>1. k \notin DOMAIN awaiters
        BY <1>4, <3>2
      <4>2. t \in Marking(k)
        BY <1>1 DEF Marking
      <4>3. j # k
        <5>1. CASE local[u].pc \in {"scan", "cleanup"}
          BY <2>1, <4>2, <5>1 DEF Awaiting
        <5>2. CASE local[u].pc \notin {"scan", "cleanup"}
          BY <2>1, <4>1, <5>2 DEF Awaits
        <5>3. QED
          BY <5>1, <5>2
      <4>4. QED
        BY <1>1, <3>2, <4>3, MarkingKept
    <3>3. QED
      BY <1>4, <3>1, <3>2
  <2>4. Awaiting(u)'
    BY <1>7, <2>1, <2>3, AwaitingKept
  <2>5. QED
    BY <2>2, <2>4
<1>17. Locals(t)'
  <2>1. /\ local[t].ctx # 0 => local[t].buf = NULL
        /\ local[t].stale => local[t].buf = NULL
        /\ local[t].ctx # 0 => local[t].handled # 0 /\ (local[t].handled = local[t].ctx => Decided(local[t].ctx))
    BY DEF Locals
  <2>2. (local[t].ctx # 0 /\ local[t].handled = local[t].ctx => Decided(local[t].ctx))'
    <3>1. PICK c : c = local[t].ctx
      OBVIOUS
    <3>2. c # 0 /\ local'[t].handled = c => Decided(c)'
      BY <1>4, <1>7, <2>1, <3>1
    <3>3. local'[t].ctx = c
      BY <1>4, <3>1
    <3>4. QED
      BY <3>2, <3>3
  <2>3. /\ local'[t].ctx # 0 => local'[t].buf = NULL /\ local'[t].handled # 0
        /\ local'[t].stale => local'[t].buf = NULL
        /\ local'[t].pc \in {"touch", "exit"}
    BY <1>4, <2>1
  <2>4. QED
    BY <2>2, <2>3 DEF Locals
<1>18. QED
  BY <1>5, <1>8, <1>9, <1>10, <1>11, <1>12, <1>13, <1>14, <1>15, <1>16, <1>17, Together DEF Rest, Own

\* The second half of mark_awaiters counts for an awaiter that is still there, and wakes it
\* up with the last message.
LEMMA TouchCounts ==
    ASSUME ClientInv, NEW t \in Thread, TouchAwaiter(t)
    PROVE  \E u \in Thread, woken \in BOOLEAN : Counts(t, u, woken)
<1> Typed /\ Awaits /\ local[t] \in Local
  BY DEF ClientInv, Typed
<1> local[t].pc = "touch" /\ local[t].mark # 0 /\ local[t].ptr \in Thread /\ awaiter[local[t].ptr].id = local[t].mark
  BY DEF TouchAwaiter, At, Awaits
<1>1. PICK u \in Thread : u = local[t].ptr
  OBVIOUS
<1>2. PICK n : n = awaiter[u].current + 1
  OBVIOUS
<1>3. PICK r : r = [local[t] EXCEPT !.pc = "exit", !.mark = 0, !.ptr = NULL]
  OBVIOUS
<1>4. PICK q : q = [local[u] EXCEPT !.pc = "remove"]
  OBVIOUS
<1>5. PICK woken \in BOOLEAN : woken <=> (awaiter[u].all => n = awaiter[u].count) /\ local[u].pc = "asleep"
  OBVIOUS
<1>6. /\ awaiter' = [awaiter EXCEPT ![u].current = n]
      /\ local' = [v \in Thread |-> IF v = t THEN r ELSE IF v = u /\ woken THEN q ELSE local[v]]
      /\ UNCHANGED <<current_message_id, current_awaiter_id, messages, swap, awaiters, send_lock, pool, content,
                     owned, ready, pending, incoming, open, scenario, events, errors>>
  <2>1. awaiter' = [awaiter EXCEPT ![u].current = n]
    <3>1. awaiter' = IF awaiter[local[t].ptr].id = local[t].mark
                     THEN [awaiter EXCEPT ![local[t].ptr].current = awaiter[local[t].ptr].current + 1]
                     ELSE awaiter
      BY DEF TouchAwaiter
    <3>2. QED
      BY <1>1, <1>2, <3>1
  <2>2. local' = [v \in Thread |-> IF v = t THEN r ELSE IF v = u /\ woken THEN q ELSE local[v]]
    BY <1>1, <1>2, <1>3, <1>4, <1>5, SMTT(30) DEF TouchAwaiter, At
  <2>3. QED
    BY <2>1, <2>2 DEF TouchAwaiter, envVars
<1> /\ r \in Local /\ r.pc = "exit" /\ r.ctx = local[t].ctx /\ r.ret = local[t].ret
    /\ r.ids = local[t].ids /\ r.all = local[t].all /\ r.async = local[t].async /\ r.buf = local[t].buf
    /\ r.stale = local[t].stale /\ r.handled = local[t].handled /\ r.status = local[t].status
    /\ r.result = local[t].result
  <2>1. 0 \in Nat
    BY SMTT(30)
  <2>2. QED
    BY <1>3, <2>1 DEF Local, Pc
<1> /\ q \in Local /\ q.pc = "remove" /\ q.ctx = local[u].ctx /\ q.ret = local[u].ret
    /\ q.ids = local[u].ids /\ q.all = local[u].all /\ q.async = local[u].async /\ q.buf = local[u].buf
    /\ q.stale = local[u].stale /\ q.handled = local[u].handled /\ q.status = local[u].status
    /\ q.result = local[u].result
  <2>1. local[u] \in Local
    BY DEF Typed
  <2>2. QED
    BY <1>4, <2>1 DEF Local, Pc
<1>7. InAwait(u)
  BY <1>1 DEF Awaits
<1>8. /\ local'[t] = r /\ \A v \in Thread \ {t} : v # u => local'[v] = local[v]
      /\ u # t => local'[u] = IF woken THEN q ELSE local[u]
  BY <1>6
<1>9. local' \in [Thread -> Local]
  BY <1>6 DEF Typed
<1>10. \A v \in Thread :
          /\ local'[v].ctx = local[v].ctx /\ local'[v].buf = local[v].buf /\ local'[v].stale = local[v].stale
          /\ local'[v].handled = local[v].handled /\ local'[v].status = local[v].status
          /\ local'[v].ret = local[v].ret /\ local'[v].ids = local[v].ids /\ local'[v].all = local[v].all
          /\ local'[v].async = local[v].async /\ local'[v].result = local[v].result
  <2> TAKE v \in Thread
  <2>1. local'[v] = local[v] \/ (v = t /\ local'[v] = r) \/ (v = u /\ local'[v] = q)
    BY <1>8
  <2>2. QED
    BY <2>1
<1>11. u # t =>
          \/ ~woken /\ local'[u] = local[u]
          \/ /\ woken /\ local[u].pc = "asleep" /\ local'[u].pc = "remove"
             /\ awaiter[u].all => awaiter[u].current + 1 = awaiter[u].count
  BY <1>2, <1>5, <1>8
<1>12. Counts(t, u, woken)
  BY <1>1, <1>2, <1>6, <1>7, <1>8, <1>9, <1>10, <1>11 DEF Counts
<1>13. QED
  BY <1>12

----------------------------------------------------------------------------
(* A request is sent                                                       *)

\* One thread at a time is between get_message_id and the send.
LEMMA OneSender ==
    ASSUME ClientInv, NEW t \in Thread, NEW u \in Thread, local[t].pc \in SendPc, local[u].pc \in SendPc
    PROVE  t = u
<1> Role(t) /\ Role(u) /\ Disciplined(scenario)
  BY DEF ClientInv, Typed
<1>1. Sends(scenario, t) /\ Sends(scenario, u)
  BY SMTT(30) DEF Role, Sends, Uses
<1>2. CASE Uses(t, "invoke_stream") \/ Uses(u, "invoke_stream")
  BY <1>1, <1>2 DEF Disciplined, Uses
<1>3. CASE ~Uses(t, "invoke_stream") /\ ~Uses(u, "invoke_stream")
  BY <1>3 DEF Role
<1>4. QED
  BY <1>2, <1>3

\* A thread that is in no await has no awaiter to keep.
LEMMA NotInAwait ==
    ASSUME ClientInv, NEW t \in Thread, local[t].pc \notin AwaitPc \cup WaitPc
    PROVE  ~InAwait(t) /\ local[t].ret = "idle" /\ awaiter[t].id = 0
<1>1. Typed /\ Role(t) /\ Awaits
  BY DEF ClientInv
<1>2. local[t].ret # "recount" /\ local[t] \in Local
  BY <1>1 DEF Role, Typed
<1>3. local[t].ret = "idle"
  BY <1>2 DEF Local
<1>4. ~InAwait(t)
  BY <1>2 DEF InAwait
<1>5. QED
  BY <1>1, <1>3, <1>4 DEF Awaits

\* A step up to the send.
LEMMA SendStep ==
    ASSUME ClientInv, NEW t \in Thread, NEW r \in Local, local' = [local EXCEPT ![t] = r],
           local[t].pc \in SendPc \cup {"idle"}, r.pc \in SendPc, r.buf = local[t].buf, r.ret = local[t].ret,
           Ids', Role(t)', current_message_id' \in Nat \ {0}, send_lock' \in Thread \cup {NULL},
           send_lock' = send_lock \/ send_lock = NULL,
           UNCHANGED <<current_awaiter_id, messages, swap, awaiters, awaiter, pool, content, owned, ready,
                       pending, incoming, open, scenario, events, errors>>
    PROVE  ClientInv'
<1> Typed /\ Contexts /\ Answers /\ Arrivals /\ Descriptors /\ Buffers /\ Awaits /\ Locals(t)
  BY DEF ClientInv
<1> Moves(t) /\ local'[t] = r
  BY Moved
<1> /\ local[t].pc \notin AwaitPc \cup WaitPc \cup ReadPc
    /\ r.pc \notin AwaitPc \cup WaitPc \cup ReadPc
  BY DEF SendPc, AwaitPc, WaitPc, ReadPc
<1> ~InAwait(t) /\ ~InAwait(t)'
  <2>1. ~InAwait(t) /\ local[t].ret = "idle"
    BY NotInAwait
  <2>2. QED
    BY <2>1 DEF InAwait
<1>1. SameSlots
  BY DEF SameSlots
<1>2. \A i : (Decided(i)' <=> Decided(i)) /\ (InProgress(i)' <=> InProgress(i))
  BY DEF Decided, InProgress
<1>3. Typed'
  BY DEF Typed, Moves
<1>4. Contexts'
  <2>1. \A u \in Thread : ready'[u] \subseteq owned[u] /\ \A i \in ready'[u] : Decided(i)'
    BY <1>2 DEF Contexts
  <2>2. QED
    BY <2>1, ContextsKept
<1> /\ r.pc \notin {"handle", "mark", "touch", "scan", "cleanup", "swap_buffer"}
    /\ local[t].pc \notin {"handle", "mark", "touch", "scan", "cleanup"}
  BY DEF WaitPc, AwaitPc, ReadPc
<1>5. Answers'
  BY <1>2, AnswersKept
<1>6. Arrivals'
  BY ArrivalsKept
<1>7. Descriptors'
  BY <1>1, DescriptorsKept
<1>8. Buffers'
  BY <1>1, BuffersKept
<1>9. Awaits'
  <2>1. /\ \A i \in DOMAIN messages' : messages'[i].awaiter < current_awaiter_id
        /\ \A k \in DOMAIN awaiters : awaiters[k] \in Thread
    BY DEF Awaits, Typed
  <2>2. QED
    BY <2>1, AwaitsKept
<1>10. ASSUME NEW u \in Thread \ {t} PROVE Role(u)' /\ Locals(u)' /\ Awaiting(u)'
  <2>1. local'[u] = local[u] /\ u \in Thread
    BY DEF Moves
  <2>2. send_lock' = send_lock \/ send_lock # u
    BY <2>1, ClientAssumption
  <2>3. Role(u)' /\ Locals(u)'
    BY <1>2, <2>1, <2>2, OtherKept
  <2>4. \A k : Marking(k)' = Marking(k)
    BY MarkingKept
  <2>5. Awaiting(u)'
    BY <1>2, <2>1, <2>4, AwaitingKept
  <2>6. QED
    BY <2>3, <2>5
<1>11. Own(t)'
  <2>1. Locals(t)'
    <3>1. local[t].buf = NULL
      BY DEF Locals, WaitPc
    <3>2. QED
      BY <3>1 DEF Locals
  <2>2. Awaiting(t)'
    BY AwaitingPlain DEF AwaitPc
  <2>3. QED
    BY <2>1, <2>2 DEF Own
<1>12. QED
  BY <1>3, <1>4, <1>5, <1>6, <1>7, <1>8, <1>9, <1>10, <1>11, Together DEF Rest

\* gracht_client_get_buffer takes the lock of the send buffer.
LEMMA GetBufferKeeps ==
    ASSUME ClientInv, NEW t \in Thread, gracht_client_get_buffer(t)
    PROVE  ClientInv'
<1> Typed /\ Ids /\ local[t] \in Local /\ scenario \in Scenario
  BY DEF ClientInv, Typed
<1> /\ local[t].pc = "idle" /\ current_message_id <= scenario.requests
    /\ UNCHANGED <<current_message_id, current_awaiter_id, messages, swap, awaiters, awaiter, pool, content,
                   owned, ready, pending, incoming, open, scenario, events, errors>>
  BY DEF gracht_client_get_buffer, At, envVars
<1>1. \/ Uses(t, "invoke") /\ send_lock = NULL /\ send_lock' = t
      \/ Uses(t, "invoke_stream") /\ UNCHANGED send_lock
  BY DEF gracht_client_get_buffer
<1>2. PICK r : r = [local[t] EXCEPT !.pc = "id_load"]
  OBVIOUS
<1> r \in Local /\ r.pc = "id_load" /\ r.ctx = local[t].ctx /\ r.ret = local[t].ret /\ r.buf = local[t].buf
  BY <1>2 DEF Local, Pc
<1>3. local' = [local EXCEPT ![t] = r]
  BY <1>2 DEF gracht_client_get_buffer, Goto
<1> Moves(t) /\ local'[t] = r
  BY <1>3, Moved
<1>4. current_message_id \in 1 .. MaxId
  BY ClientAssumption, SMTT(30) DEF Typed
<1>5. Ids'
  <2>1. \A u \in Thread : u # t => local'[u] = local[u]
    BY DEF Moves
  <2>2. \A i : Spent(i) => Spent(i)'
    BY <2>1 DEF Spent
  <2>3. (\A u \in Thread :
          /\ local[u].pc \in {"id_load", "id_store"} => current_message_id \in 1 .. MaxId
          /\ local[u].pc = "id_store" => local[u].ctx = current_message_id
          /\ local[u].pc = "send" => local[u].ctx \in 1 .. MaxId /\ local[u].ctx < current_message_id)'
    BY <1>4, <2>1 DEF Ids
  <2>4. (\A i \in DOMAIN messages : Spent(i))'
    BY <2>2 DEF Ids
  <2>5. (\A u \in Thread : local[u].pc \in ReadPc => Spent(local[u].ctx))'
    <3> SUFFICES ASSUME NEW u \in Thread, local'[u].pc \in ReadPc PROVE Spent(local[u].ctx)'
      OBVIOUS
    <3>1. local'[u] = local[u]
      BY <2>1 DEF ReadPc
    <3>2. PICK c : c = local[u].ctx
      OBVIOUS
    <3>3. Spent(c)'
      BY <2>2, <3>1, <3>2 DEF Ids
    <3>4. QED
      BY <3>1, <3>2, <3>3
  <2>6. QED
    BY <2>3, <2>4, <2>5 DEF Ids
<1>6. Role(t)'
  <2>1. local'[t].pc \notin WaitPc \cup AwaitPc \cup ReadPc /\ ~InAwait(t)' /\ local'[t].ret = "idle"
    <3>1. local[t].ret = "idle"
      BY NotInAwait DEF AwaitPc, WaitPc
    <3>2. QED
      BY <3>1 DEF InAwait, AwaitPc, WaitPc, ReadPc
  <2>2. ((Uses(t, "invoke") /\ send_lock = t) \/ Uses(t, "invoke_stream"))'
    BY <1>1 DEF Uses
  <2>3. QED
    BY <2>1, <2>2 DEF Role
<1>7. send_lock' \in Thread \cup {NULL} /\ (send_lock' = send_lock \/ send_lock = NULL)
      /\ current_message_id' \in Nat \ {0}
  BY <1>1 DEF Typed
<1>8. QED
  BY <1>3, <1>5, <1>6, <1>7, SendStep DEF SendPc

\* get_message_id gives an identifier out once: no other thread is at it.
LEMMA MessageIdKeeps ==
    ASSUME ClientInv, NEW t \in Thread, LoadMessageId(t) \/ StoreMessageId(t)
    PROVE  ClientInv'
<1> Typed /\ Ids /\ Role(t) /\ local[t] \in Local /\ current_message_id \in Nat \ {0} /\ local[t].ctx \in Nat
  <2>1. Typed /\ Ids /\ Role(t) /\ local[t] \in Local /\ current_message_id \in Nat \ {0}
    BY DEF ClientInv, Typed
  <2>2. QED
    BY <2>1 DEF Local
<1> /\ local[t].pc \in {"id_load", "id_store"} /\ local[t].pc \in SendPc
    /\ UNCHANGED <<current_awaiter_id, messages, swap, awaiters, awaiter, send_lock, pool, content,
                   owned, ready, pending, incoming, open, scenario, events, errors>>
  BY DEF LoadMessageId, StoreMessageId, At, clientVars, envVars, SendPc
<1>1. \A u \in Thread : u # t => local[u].pc \notin SendPc
  BY OneSender
<1>2. \E r \in Local :
         /\ local' = [local EXCEPT ![t] = r] /\ r.ret = local[t].ret /\ r.buf = local[t].buf
         /\ \/ /\ local[t].pc = "id_load" /\ r.pc = "id_store" /\ r.ctx = current_message_id
               /\ current_message_id' = current_message_id
            \/ /\ local[t].pc = "id_store" /\ r.pc = "send" /\ r.ctx = local[t].ctx
               /\ current_message_id' = local[t].ctx + 1
  <2>1. CASE LoadMessageId(t)
    <3>1. PICK r : r = [local[t] EXCEPT !.pc = "id_store", !.ctx = current_message_id]
      OBVIOUS
    <3>2. /\ r \in Local /\ r.pc = "id_store" /\ r.ctx = current_message_id /\ r.ret = local[t].ret
          /\ r.buf = local[t].buf
      BY <3>1 DEF Local, Pc
    <3>3. /\ local' = [local EXCEPT ![t] = r] /\ local[t].pc = "id_load"
          /\ current_message_id' = current_message_id
      BY <2>1, <3>1 DEF LoadMessageId, At, clientVars
    <3>4. QED
      BY <3>2, <3>3
  <2>2. CASE StoreMessageId(t)
    <3>1. PICK r : r = [local[t] EXCEPT !.pc = "send"]
      OBVIOUS
    <3>2. /\ r \in Local /\ r.pc = "send" /\ r.ctx = local[t].ctx /\ r.ret = local[t].ret
          /\ r.buf = local[t].buf
      BY <3>1 DEF Local, Pc
    <3>3. /\ local' = [local EXCEPT ![t] = r] /\ local[t].pc = "id_store"
          /\ current_message_id' = local[t].ctx + 1
      BY <2>2, <3>1 DEF StoreMessageId, At, Goto
    <3>4. QED
      BY <3>2, <3>3
  <2>3. QED
    BY <2>1, <2>2
<1>3. PICK r \in Local :
         /\ local' = [local EXCEPT ![t] = r] /\ r.ret = local[t].ret /\ r.buf = local[t].buf
         /\ \/ /\ local[t].pc = "id_load" /\ r.pc = "id_store" /\ r.ctx = current_message_id
               /\ current_message_id' = current_message_id
            \/ /\ local[t].pc = "id_store" /\ r.pc = "send" /\ r.ctx = local[t].ctx
               /\ current_message_id' = local[t].ctx + 1
  BY <1>2
<1> Moves(t) /\ local'[t] = r
  BY <1>3, Moved
<1>4. /\ current_message_id \in 1 .. MaxId
      /\ local[t].pc = "id_store" => local[t].ctx = current_message_id
  BY DEF Ids
<1> /\ current_message_id' \in Nat \ {0} /\ current_message_id <= current_message_id'
    /\ r.pc = "send" => r.ctx = current_message_id /\ r.ctx \in 1 .. MaxId /\ r.ctx < current_message_id'
    /\ r.pc = "id_store" => r.ctx = current_message_id' /\ current_message_id' \in 1 .. MaxId
    /\ r.pc \in {"id_store", "send"}
  BY <1>3, <1>4, SMTT(30)
<1>5. Ids'
  <2>1. \A u \in Thread : u # t => local'[u] = local[u] /\ local'[u].pc \notin SendPc
    BY <1>1 DEF Moves
  <2>2. \A i : Spent(i) => Spent(i)'
    <3> SUFFICES ASSUME NEW i, Spent(i) PROVE Spent(i)'
      OBVIOUS
    <3>1. i \in 1 .. MaxId /\ i < current_message_id
      BY DEF Spent
    <3>2. i < current_message_id' /\ (r.pc = "send" => r.ctx # i)
      BY <3>1, SMTT(30)
    <3>3. \A u \in Thread : local'[u].pc = "send" => local'[u].ctx # i
      BY <2>1, <3>2 DEF SendPc
    <3>4. QED
      BY <3>1, <3>2, <3>3 DEF Spent
  <2>3. (\A u \in Thread :
          /\ local[u].pc \in {"id_load", "id_store"} => current_message_id \in 1 .. MaxId
          /\ local[u].pc = "id_store" => local[u].ctx = current_message_id
          /\ local[u].pc = "send" => local[u].ctx \in 1 .. MaxId /\ local[u].ctx < current_message_id)'
    BY <2>1 DEF SendPc
  <2>4. (\A i \in DOMAIN messages : Spent(i))'
    BY <2>2 DEF Ids
  <2>5. (\A u \in Thread : local[u].pc \in ReadPc => Spent(local[u].ctx))'
    <3> SUFFICES ASSUME NEW u \in Thread, local'[u].pc \in ReadPc PROVE Spent(local[u].ctx)'
      OBVIOUS
    <3>1. local'[u] = local[u]
      BY <2>1 DEF ReadPc
    <3>2. PICK c : c = local[u].ctx
      OBVIOUS
    <3>3. Spent(c)'
      BY <2>2, <3>1, <3>2 DEF Ids
    <3>4. QED
      BY <3>1, <3>2, <3>3
  <2>6. QED
    BY <2>3, <2>4, <2>5 DEF Ids
<1>6. Role(t)'
  <2>1. local'[t].pc \notin WaitPc \cup AwaitPc \cup ReadPc /\ ~InAwait(t)' /\ local'[t].ret = "idle"
    <3>1. local[t].ret = "idle"
      BY NotInAwait DEF AwaitPc, WaitPc
    <3>2. QED
      BY <1>3, <3>1 DEF InAwait, AwaitPc, WaitPc, ReadPc
  <2>2. (Uses(t, "invoke") /\ send_lock = t) \/ Uses(t, "invoke_stream")
    BY DEF Role
  <2>3. ((Uses(t, "invoke") /\ send_lock = t) \/ Uses(t, "invoke_stream"))'
    BY <2>2 DEF Uses
  <2>4. QED
    BY <2>1, <2>3 DEF Role
<1>7. send_lock' \in Thread \cup {NULL} /\ send_lock' = send_lock /\ r.pc \in SendPc
  BY DEF Typed, SendPc
<1>8. QED
  BY <1>3, <1>5, <1>6, <1>7, SendStep

\* gracht_client_invoke_internal: a request gets a descriptor, or nothing is left of it.
LEMMA InvokeKeeps ==
    ASSUME ClientInv, NEW t \in Thread, gracht_client_invoke_internal(t)
    PROVE  ClientInv'
<1>1. /\ Typed /\ Ids /\ Contexts /\ Answers /\ Arrivals /\ Descriptors /\ Buffers /\ Awaits
      /\ Locals(t) /\ local[t] \in Local
  BY DEF ClientInv, Typed
<1>2. PICK id : id = local[t].ctx
  OBVIOUS
<1>3. local[t].pc = "send" /\ local[t].pc \in SendPc /\ id \in 1 .. MaxId /\ id < current_message_id
  BY <1>1, <1>2 DEF gracht_client_invoke_internal, At, Ids, SendPc
<1>4. id \notin DOMAIN messages /\ \A u \in Thread : local[u].pc \in ReadPc => local[u].ctx # id
  <2>1. \A i : Spent(i) => i # id
    BY <1>2, <1>3 DEF Spent
  <2>2. QED
    BY <1>1, <2>1 DEF Ids
<1>5. \E new \in SUBSET {id} :
         /\ DOMAIN messages' = DOMAIN messages \cup new /\ pending' = pending \cup new
         /\ owned' = [owned EXCEPT ![t] = @ \cup new]
         /\ \A i \in DOMAIN messages : messages'[i] = messages[i]
         /\ \A i \in new : messages'[i] = Empty
         /\ swap' = swap \/ swap' = Empty
  <2>1. CASE open
    <3>1. /\ messages' = Put(messages, id, Empty) /\ pending' = pending \cup {id}
          /\ owned' = [owned EXCEPT ![t] = @ \cup {id}] /\ swap' = swap
      BY <1>2, <2>1 DEF gracht_client_invoke_internal
    <3>2. /\ DOMAIN messages' = DOMAIN messages \cup {id}
          /\ \A i \in DOMAIN messages : messages'[i] = messages[i]
          /\ messages'[id] = Empty
      BY <1>4, <3>1 DEF Put
    <3>3. {id} \in SUBSET {id} /\ \A i \in {id} : messages'[i] = Empty
      BY <3>2
    <3>4. QED
      BY <3>1, <3>2, <3>3
  <2>2. CASE ~open
    <3>1. messages' = Drop(messages, id) /\ pending' = pending /\ owned' = owned /\ swap' = Empty
      BY <1>2, <2>2 DEF gracht_client_invoke_internal
    <3>2. /\ DOMAIN messages' = DOMAIN messages /\ \A i \in DOMAIN messages : messages'[i] = messages[i]
      <4>1. DOMAIN messages \ {id} = DOMAIN messages
        BY <1>4
      <4>2. QED
        BY <3>1, <4>1 DEF Drop, Restrict
    <3>3. /\ DOMAIN messages' = DOMAIN messages \cup {} /\ pending' = pending \cup {}
          /\ owned' = [owned EXCEPT ![t] = @ \cup {}] /\ {} \in SUBSET {id}
      <4>1. owned \in [Thread -> SUBSET Nat]
        BY <1>1 DEF Typed
      <4>2. QED
        BY <3>1, <3>2, <4>1, SMTT(30)
    <3>4. QED
      BY <3>1, <3>2, <3>3
  <2>3. QED
    BY <2>1, <2>2
<1>6. PICK new \in SUBSET {id} :
         /\ DOMAIN messages' = DOMAIN messages \cup new /\ pending' = pending \cup new
         /\ owned' = [owned EXCEPT ![t] = @ \cup new]
         /\ \A i \in DOMAIN messages : messages'[i] = messages[i]
         /\ \A i \in new : messages'[i] = Empty
         /\ swap' = swap \/ swap' = Empty
  BY <1>5
<1>7. /\ local' = [local EXCEPT ![t] = Idle] /\ send_lock' = IF send_lock = t THEN NULL ELSE send_lock
      /\ UNCHANGED <<current_message_id, current_awaiter_id, awaiters, awaiter, pool,
                     content, ready, incoming, open, scenario, events, errors>>
  BY DEF gracht_client_invoke_internal
<1>8. /\ Idle \in Local /\ Idle.pc = "idle" /\ Idle.ctx = 0 /\ Idle.buf = NULL /\ Idle.stale = FALSE
      /\ Idle.ret = "idle"
  <2>1. 0 \in Nat
    BY SMTT(30)
  <2>2. QED
    BY <2>1 DEF Idle, Local, Pc, Status
<1>9. Moves(t) /\ local'[t] = Idle
  BY <1>1, <1>7, <1>8, Moved
<1>10. \A u \in Thread : u # t => local'[u] = local[u] /\ local[u].pc \notin SendPc
  BY <1>3, <1>9, OneSender DEF Moves
<1>11. Idle.pc \notin SendPc \cup ReadPc \cup WaitPc \cup AwaitPc \cup {"handle", "mark", "touch", "swap_buffer"}
  BY <1>8 DEF SendPc, ReadPc, WaitPc, AwaitPc
<1>12. ~InAwait(t) /\ ~InAwait(t)'
  <2>1. ~InAwait(t)
    BY <1>3, NotInAwait DEF SendPc, WaitPc, AwaitPc
  <2>2. QED
    BY <1>8, <1>9, <1>11, <2>1 DEF InAwait
<1>13. /\ Empty \in Slot /\ Empty.status = "inprogress" /\ Empty.buffer = NULL /\ Empty.awaiter = 0
  <2>1. 0 \in Nat
    BY SMTT(30)
  <2>2. QED
    BY <2>1 DEF Empty, Slot, Status
<1>14. /\ owned'[t] = owned[t] \cup new /\ \A u \in Thread : u # t => owned'[u] = owned[u]
       /\ owned' \in [Thread -> SUBSET Nat]
  <2>1. owned \in [Thread -> SUBSET Nat] /\ new \subseteq Nat
    BY <1>1, <1>3, SMTT(30) DEF Typed
  <2>2. QED
    BY <1>6, <2>1
<1>15. \A i \in DOMAIN messages' : i \in DOMAIN messages \/ (i = id /\ messages'[i] = Empty)
  BY <1>6
<1>16. /\ \A i : Decided(i)' <=> Decided(i)
       /\ \A i : InProgress(i) => InProgress(i)'
       /\ \A i \in new : InProgress(i)'
  <2>1. \A i : Decided(i)' <=> Decided(i)
    BY <1>6, <1>13, <1>15, SMTT(30) DEF Decided
  <2>2. QED
    BY <1>6, <1>13, <2>1 DEF InProgress
<1>17. Typed'
  <2>1. DOMAIN messages' \subseteq 1 .. MaxId /\ \A i \in DOMAIN messages' : messages'[i] \in Slot
    BY <1>1, <1>3, <1>6, <1>13, <1>15 DEF Typed
  <2>2. swap' \in Slot /\ send_lock' \in Thread \cup {NULL}
    BY <1>1, <1>6, <1>7, <1>13 DEF Typed
  <2>3. QED
    BY <1>1, <1>7, <1>9, <1>14, <2>1, <2>2 DEF Typed, Moves
<1>18. Ids'
  <2>1. \A u \in Thread : local'[u].pc \notin SendPc
    BY <1>9, <1>10, <1>11
  <2>2. Spent(id)' /\ \A i : Spent(i) => Spent(i)'
    BY <1>3, <1>7, <2>1 DEF Spent, SendPc
  <2>3. (\A i \in DOMAIN messages : Spent(i))'
    BY <1>1, <1>15, <2>2 DEF Ids
  <2>4. (\A u \in Thread : local[u].pc \in ReadPc => Spent(local[u].ctx))'
    <3> SUFFICES ASSUME NEW u \in Thread, local'[u].pc \in ReadPc PROVE Spent(local[u].ctx)'
      OBVIOUS
    <3>1. local'[u] = local[u]
      BY <1>9, <1>10, <1>11
    <3>2. PICK c : c = local[u].ctx
      OBVIOUS
    <3>3. Spent(c)'
      BY <1>1, <2>2, <3>1, <3>2 DEF Ids
    <3>4. QED
      BY <3>1, <3>2, <3>3
  <2>5. (\A u \in Thread :
          /\ local[u].pc \in {"id_load", "id_store"} => current_message_id \in 1 .. MaxId
          /\ local[u].pc = "id_store" => local[u].ctx = current_message_id
          /\ local[u].pc = "send" => local[u].ctx \in 1 .. MaxId /\ local[u].ctx < current_message_id)'
    BY <2>1 DEF SendPc
  <2>6. QED
    BY <2>3, <2>4, <2>5 DEF Ids
<1>19. \A u \in Thread : owned[u] \subseteq owned'[u] /\ (InAwait(u)' => InAwait(u) /\ local'[u] = local[u])
  <2> TAKE u \in Thread
  <2>1. CASE u = t
    BY <1>12, <1>14, <2>1
  <2>2. CASE u # t
    <3>1. local'[u] = local[u] /\ owned'[u] = owned[u]
      BY <1>10, <1>14, <2>2
    <3>2. InAwait(u)' <=> InAwait(u)
      BY <3>1 DEF InAwait
    <3>3. QED
      BY <3>1, <3>2
  <2>3. QED
    BY <2>1, <2>2
<1>20. Contexts'
  <2>1. \A u \in Thread :
          /\ ready[u] \subseteq owned'[u] /\ owned'[u] \subseteq DOMAIN messages'
          /\ \A i \in ready[u] : Decided(i)'
          /\ InAwait(u)' => local'[u].ids \subseteq owned'[u]
          /\ local'[u].pc \in WaitPc /\ local'[u].ctx # 0 => local'[u].ctx \in owned'[u]
          /\ local'[u].pc \in ReadPc => local'[u].ctx \notin DOMAIN messages'
    <3> TAKE u \in Thread
    <3>1. /\ ready[u] \subseteq owned[u] /\ owned[u] \subseteq DOMAIN messages /\ \A i \in ready[u] : Decided(i)
          /\ InAwait(u) => local[u].ids \subseteq owned[u]
          /\ local[u].pc \in WaitPc /\ local[u].ctx # 0 => local[u].ctx \in owned[u]
          /\ local[u].pc \in ReadPc => local[u].ctx \notin DOMAIN messages
      BY <1>1 DEF Contexts
    <3>2. owned'[u] \subseteq DOMAIN messages'
      BY <1>6, <1>14, <3>1
    <3>3. ready[u] \subseteq owned'[u] /\ \A i \in ready[u] : Decided(i)'
      BY <1>16, <1>19, <3>1
    <3>4. InAwait(u)' => local'[u].ids \subseteq owned'[u]
      BY <1>19, <3>1
    <3>5. local'[u].pc \in WaitPc \cup ReadPc => local'[u] = local[u]
      BY <1>9, <1>10, <1>11
    <3>6. local'[u].pc \in WaitPc /\ local'[u].ctx # 0 => local'[u].ctx \in owned'[u]
      BY <1>19, <3>1, <3>5
    <3>7. local'[u].pc \in ReadPc => local'[u].ctx \notin DOMAIN messages'
      BY <1>4, <1>15, <3>1, <3>5
    <3>8. QED
      BY <3>2, <3>3, <3>4, <3>6, <3>7
  <2>2. \A u, v \in Thread : owned'[u] \cap owned'[v] # {} => u = v
    <3>1. \A u \in Thread : id \notin owned[u]
      BY <1>1, <1>4 DEF Contexts
    <3>2. \A u \in Thread : \A i \in owned'[u] : i \in owned[u] \/ (u = t /\ i = id)
      BY <1>14
    <3>3. QED
      BY <1>1, <3>1, <3>2, SMTT(30) DEF Contexts
  <2>3. \A u, v \in Thread :
          {local'[u].pc, local'[v].pc} \subseteq ReadPc /\ local'[u].ctx = local'[v].ctx => u = v
    <3>1. \A u \in Thread : local'[u].pc \in ReadPc => local'[u] = local[u]
      BY <1>9, <1>10, <1>11
    <3>2. QED
      BY <1>1, <3>1, SMTT(30) DEF Contexts
  <2>4. QED
    BY <1>7, <2>1, <2>2, <2>3 DEF Contexts
<1>21. \A u \in Thread : Handles(u)' => Handles(u) /\ local'[u] = local[u] /\ u # t
  BY <1>9, <1>10, <1>11 DEF Handles
<1>22. Answers'
  <2>1. (\A i \in pending : InProgress(i))'
    BY <1>1, <1>6, <1>16 DEF Answers
  <2>2. \A i : InProgress(i) => i \notin new
    BY <1>4 DEF InProgress
  <2>3. (\A i \in DOMAIN incoming : Decides(incoming[i]) =>
          InProgress(incoming[i].id) /\ incoming[i].id \notin pending)'
    <3> SUFFICES ASSUME NEW i \in DOMAIN incoming, Decides(incoming[i])
                 PROVE  InProgress(incoming[i].id)' /\ incoming[i].id \notin pending'
      BY <1>7 DEF Decides
    <3>1. PICK c : c = incoming[i].id
      OBVIOUS
    <3>2. InProgress(c)' /\ c \notin pending'
      BY <1>1, <1>6, <1>16, <2>2, <3>1 DEF Answers
    <3>3. QED
      BY <1>7, <3>1, <3>2
  <2>4. (\A i, j \in DOMAIN incoming :
          Decides(incoming[i]) /\ Decides(incoming[j]) /\ incoming[i].id = incoming[j].id => i = j)'
    BY <1>1, <1>7 DEF Answers, Decides
  <2>5. (\A u \in Thread : Handles(u) /\ Decides(content[local[u].buf]) =>
          /\ InProgress(content[local[u].buf].id) /\ content[local[u].buf].id \notin pending
          /\ \A i \in DOMAIN incoming :
                Decides(incoming[i]) => incoming[i].id # content[local[u].buf].id)'
    <3> SUFFICES ASSUME NEW u \in Thread, Handles(u)', Decides(content[local[u].buf])'
                 PROVE  (/\ InProgress(content[local[u].buf].id) /\ content[local[u].buf].id \notin pending
                         /\ \A i \in DOMAIN incoming :
                               Decides(incoming[i]) => incoming[i].id # content[local[u].buf].id)'
      OBVIOUS
    <3>1. PICK c : c = content[local[u].buf].id
      OBVIOUS
    <3>2. Handles(u) /\ Decides(content[local[u].buf]) /\ content'[local'[u].buf].id = c
      BY <1>7, <1>21, <3>1 DEF Decides
    <3>3. /\ InProgress(c) /\ c \notin pending
          /\ \A i \in DOMAIN incoming : Decides(incoming[i]) => incoming[i].id # c
      BY <1>1, <3>1, <3>2 DEF Answers
    <3>4. InProgress(c)' /\ c \notin pending'
      BY <1>6, <1>16, <2>2, <3>3
    <3>5. QED
      BY <1>7, <3>2, <3>3, <3>4 DEF Decides
  <2>6. (\A u, v \in Thread :
          /\ Handles(u) /\ Handles(v)
          /\ Decides(content[local[u].buf]) /\ Decides(content[local[v].buf])
          /\ content[local[u].buf].id = content[local[v].buf].id
          => u = v)'
    <3>1. Answers
      BY <1>1
    <3>2. \A u \in Thread : Handles(u)' => Handles(u) /\ content'[local'[u].buf] = content[local[u].buf]
      BY <1>7, <1>21
    <3>3. QED
      BY <3>1, <3>2 DEF Answers, Decides
  <2>7. QED
    BY <2>1, <2>3, <2>4, <2>5, <2>6 DEF Answers
<1>23. Arrivals'
  BY <1>1, <1>7, <1>9, <1>11, ArrivalsKept
<1>24. Descriptors'
  <2>1. \A u \in Thread : local'[u].pc \in ReadPc \/ local'[u].pc = "swap_buffer" => local'[u] = local[u]
    BY <1>9, <1>10, <1>11
  <2>2. Descriptors
    BY <1>1
  <2>3. (\A u \in Thread : local[u].pc \in ReadPc =>
          \/ local[u].result = "completed" /\ local[u].buf \in Buffer /\ content[local[u].buf].id = local[u].ctx
          \/ local[u].result = "error" /\ local[u].buf = NULL)'
    BY <1>7, <2>1, <2>2, SMTT(30) DEF Descriptors
  <2>4. (\A u \in Thread : local[u].pc = "swap_buffer" => swap.buffer = NULL /\ scenario.errors # 0)'
    BY <1>6, <1>7, <1>13, <2>1, <2>2 DEF Descriptors
  <2>5. (\A i \in DOMAIN messages :
          /\ messages[i].status = "completed" =>
                messages[i].buffer \in Buffer /\ content[messages[i].buffer].id = i
          /\ messages[i].status # "completed" => messages[i].buffer = NULL
          /\ messages[i].status = "error" => scenario.errors # 0)'
    BY <1>6, <1>7, <1>13, <1>15, <2>2, SMTT(30) DEF Descriptors
  <2>6. (swap.status = "error" => swap.buffer = NULL /\ scenario.errors # 0)'
    BY <1>6, <1>7, <1>13, <2>2 DEF Descriptors
  <2>7. QED
    BY <2>3, <2>4, <2>5, <2>6 DEF Descriptors
<1>25. Buffers'
  <2>1. \A u \in Thread : local'[u].buf = local[u].buf
    <3>1. local[t].buf = NULL
      BY <1>1, <1>3 DEF Locals, SendPc, ReadPc
    <3>2. QED
      BY <1>8, <1>9, <1>10, <3>1
  <2>2. \A i \in DOMAIN messages' : messages'[i].buffer = NULL \/ (i \in DOMAIN messages /\ messages'[i].buffer = messages[i].buffer)
    BY <1>6, <1>13, <1>15
  <2>3. NULL \notin pool /\ Buffers /\ UNCHANGED pool
    BY <1>1, <1>7, ClientAssumption DEF Typed
  <2>4. (\A b \in Buffer :
          \/ b \in pool
          \/ \E i \in DOMAIN messages : messages[i].buffer = b
          \/ \E u \in Thread : local[u].buf = b)'
    BY <1>6, <2>1, <2>3 DEF Buffers
  <2>5. (\A i \in DOMAIN messages : messages[i].buffer \notin pool)'
    BY <2>2, <2>3 DEF Buffers
  <2>6. (\A u \in Thread : local[u].buf \notin pool)'
    BY <2>1, <2>3 DEF Buffers
  <2>7. (\A i \in DOMAIN messages, u \in Thread : messages[i].buffer = local[u].buf => local[u].buf = NULL)'
    BY <2>1, <2>2, <2>3, SMTT(30) DEF Buffers
  <2>8. (\A i, j \in DOMAIN messages : messages[i].buffer = messages[j].buffer => i = j \/ messages[i].buffer = NULL)'
    BY <2>2, <2>3, SMTT(30) DEF Buffers
  <2>9. (\A u, v \in Thread : local[u].buf = local[v].buf => u = v \/ local[u].buf = NULL)'
    BY <2>1, <2>3, SMTT(30) DEF Buffers
  <2>10. QED
    BY <2>4, <2>5, <2>6, <2>7, <2>8, <2>9 DEF Buffers
<1>26. local[t].pc \notin {"mark", "touch", "scan", "cleanup"} /\ Idle.pc \notin {"mark", "touch", "scan", "cleanup"}
  BY <1>3, <1>8
<1>27. Awaits'
  <2>1. /\ \A i \in DOMAIN messages' : messages'[i].awaiter < current_awaiter_id
        /\ \A k \in DOMAIN awaiters : awaiters[k] \in Thread
    <3>1. 0 < current_awaiter_id
      BY <1>1, SMTT(30) DEF Typed
    <3>2. QED
      BY <1>1, <1>6, <1>13, <1>15, <3>1 DEF Awaits, Typed
  <2>2. QED
    BY <1>1, <1>7, <1>9, <1>12, <1>26, <2>1, AwaitsKept
<1>28. ASSUME NEW u \in Thread \ {t} PROVE Role(u)' /\ Locals(u)' /\ Awaiting(u)'
  <2>1. local'[u] = local[u] /\ u \in Thread
    BY <1>10
  <2>2. Role(u)' /\ Locals(u)'
    BY <1>7, <1>16, <2>1, OtherKept
  <2>3. \A k : Marking(k)' = Marking(k)
    BY <1>9, <1>26, MarkingKept
  <2>4. \A i \in DOMAIN messages' :
           \/ i \in DOMAIN messages /\ messages'[i].awaiter = messages[i].awaiter
           \/ i \notin DOMAIN messages /\ messages'[i].awaiter = 0
    BY <1>4, <1>6, <1>13, <1>15
  <2>5. Awaiting(u)'
    BY <1>7, <1>16, <2>1, <2>3, <2>4, AwaitingKept
  <2>6. QED
    BY <2>2, <2>5
<1>29. Own(t)'
  <2>1. Role(t)'
    BY <1>8, <1>9, <1>11, <1>12 DEF Role
  <2>2. Locals(t)'
    BY <1>8, <1>9, <1>11 DEF Locals
  <2>3. Awaiting(t)'
    BY <1>9, <1>11, <1>12 DEF Awaiting, AwaitPc
  <2>4. QED
    BY <2>1, <2>2, <2>3 DEF Own
<1>30. QED
  BY <1>17, <1>18, <1>20, <1>22, <1>23, <1>24, <1>25, <1>27, <1>28, <1>29, Together DEF Rest

----------------------------------------------------------------------------
(* The environment                                                         *)

\* A step of the server or of the connection.
LEMMA ServerStep ==
    ASSUME ClientInv, UNCHANGED <<clientVars, threadVars, scenario>>,
           incoming' \in Seq(Letter), errors' \in Nat, events' \in Nat, open' \in BOOLEAN, Answers', Arrivals'
    PROVE  ClientInv'
<1>1. /\ Typed /\ Ids /\ Contexts /\ Descriptors /\ Buffers /\ Awaits
      /\ \A t \in Thread : Role(t) /\ Locals(t) /\ Awaiting(t)
  BY DEF ClientInv
<1>2. UNCHANGED <<current_message_id, current_awaiter_id, messages, swap, awaiters, awaiter, send_lock, pool,
                  content, local, owned, ready, scenario>>
  BY DEF clientVars, threadVars
<1>3. Typed'
  BY <1>1, <1>2 DEF Typed
<1>4. \A t \in Thread : Role(t)'
  <2> SUFFICES ASSUME NEW t \in Thread PROVE Role(t)'
    OBVIOUS
  <2>1. Role(t)
    BY <1>1
  <2>2. InAwait(t)' <=> InAwait(t)
    BY <1>2 DEF InAwait
  <2>3. QED
    BY <1>2, <2>1, <2>2 DEF Role, Uses
<1>5. \A i : Decided(i)' <=> Decided(i)
  BY <1>2 DEF Decided
<1>6. \A t \in Thread : Locals(t)' /\ Awaiting(t)'
  <2> SUFFICES ASSUME NEW t \in Thread PROVE Locals(t)' /\ Awaiting(t)'
    OBVIOUS
  <2>1. local'[t] = local[t] /\ awaiter'[t] = awaiter[t]
    BY <1>2
  <2>2. Locals(t)'
    BY <1>2, <1>5, <2>1, OtherKept
  <2>3. \A k : Marking(k)' = Marking(k)
    BY <1>2 DEF Marking
  <2>4. Awaiting(t)'
    BY <1>2, <1>5, <2>1, <2>3, AwaitingKept
  <2>5. QED
    BY <2>2, <2>4
<1>7. Ids'
  <2>1. \A i : Spent(i) => Spent(i)'
    BY <1>2 DEF Spent
  <2>2. (\A i \in DOMAIN messages : Spent(i))'
    BY <1>1, <1>2, <2>1 DEF Ids
  <2>3. (\A t \in Thread : local[t].pc \in ReadPc => Spent(local[t].ctx))'
    <3> SUFFICES ASSUME NEW t \in Thread, local'[t].pc \in ReadPc PROVE Spent(local[t].ctx)'
      OBVIOUS
    <3>1. PICK c : c = local[t].ctx
      OBVIOUS
    <3>2. Spent(c)'
      BY <1>1, <1>2, <2>1, <3>1 DEF Ids
    <3>3. QED
      BY <1>2, <3>1, <3>2
  <2>4. (\A t \in Thread :
          /\ local[t].pc \in {"id_load", "id_store"} => current_message_id \in 1 .. MaxId
          /\ local[t].pc = "id_store" => local[t].ctx = current_message_id
          /\ local[t].pc = "send" => local[t].ctx \in 1 .. MaxId /\ local[t].ctx < current_message_id)'
    BY <1>1, <1>2 DEF Ids
  <2>5. QED
    BY <2>2, <2>3, <2>4 DEF Ids
<1>8. Contexts'
  <2>1. \A t \in Thread : InAwait(t)' <=> InAwait(t)
    BY <1>2 DEF InAwait
  <2>2. Contexts
    BY <1>1
  <2>3. QED
    BY <1>2, <1>5, <2>1, <2>2, SMTT(30) DEF Contexts
<1>9. Descriptors'
  BY <1>1, <1>2 DEF Descriptors
<1>10. Buffers'
  BY <1>1, <1>2, BuffersSame
<1>11. Awaits'
  <2>1. \A t \in Thread : InAwait(t)' <=> InAwait(t)
    BY <1>2 DEF InAwait
  <2>2. Awaits
    BY <1>1
  <2>3. QED
    BY <1>2, <2>1, <2>2, SMTT(30) DEF Awaits
<1>12. QED
  BY <1>3, <1>4, <1>6, <1>7, <1>8, <1>9, <1>10, <1>11 DEF ClientInv

\* A message that arrives is an answer to a request at the server, or no answer.
LEMMA ArrivalKeeps ==
    ASSUME ClientInv, NEW m \in Letter, UNCHANGED <<clientVars, threadVars, scenario, open>>, open,
           incoming' = Append(incoming, m), Expected(m),
           \/ Decides(m) /\ m.id \in pending /\ pending' = pending \ {m.id}
           \/ ~Decides(m) /\ pending' = pending,
           errors' \in Nat, events' \in Nat
    PROVE  ClientInv'
<1> Typed /\ Answers /\ Arrivals /\ incoming \in Seq(Letter)
  BY DEF ClientInv, Typed
<1> UNCHANGED <<messages, content, local, scenario, open>>
  BY DEF clientVars, threadVars
<1> /\ incoming' \in Seq(Letter)
    /\ \A i \in DOMAIN incoming' : \/ i \in DOMAIN incoming /\ incoming'[i] = incoming[i]
                                   \/ i = Len(incoming) + 1 /\ incoming'[i] = m
  BY SMTT(30)
<1>1. \A i : InProgress(i)' <=> InProgress(i)
  BY DEF InProgress
<1>2. PICK c : c = m.id
  OBVIOUS
<1>3. /\ Decides(m) => InProgress(c) /\ c \notin pending'
      /\ Decides(m) => \A i \in DOMAIN incoming : Decides(incoming[i]) => incoming[i].id # c
      /\ Decides(m) => \A t \in Thread : Handles(t) /\ Decides(content[local[t].buf]) => content[local[t].buf].id # c
      /\ pending' \subseteq pending
  BY <1>2 DEF Answers
<1>4. Answers'
  <2>1. (\A i \in pending : InProgress(i))'
    BY <1>1, <1>3 DEF Answers
  <2>2. (\A i \in DOMAIN incoming : Decides(incoming[i]) =>
          InProgress(incoming[i].id) /\ incoming[i].id \notin pending)'
    <3> SUFFICES ASSUME NEW i \in DOMAIN incoming', Decides(incoming[i])'
                 PROVE  InProgress(incoming[i].id)' /\ incoming'[i].id \notin pending'
      OBVIOUS
    <3>1. PICK d : d = incoming'[i].id
      OBVIOUS
    <3>2. InProgress(d) /\ d \notin pending'
      <4>1. CASE i \in DOMAIN incoming /\ incoming'[i] = incoming[i]
        <5>1. Decides(incoming[i]) /\ d = incoming[i].id
          BY <3>1, <4>1 DEF Decides
        <5>2. QED
          BY <1>3, <4>1, <5>1 DEF Answers
      <4>2. CASE incoming'[i] = m
        <5>1. Decides(m) /\ d = c
          BY <1>2, <3>1, <4>2 DEF Decides
        <5>2. QED
          BY <1>3, <5>1
      <4>3. QED
        BY <4>1, <4>2
    <3>3. InProgress(d)'
      BY <1>1, <3>2
    <3>4. QED
      BY <3>1, <3>2, <3>3
  <2>3. (\A i, j \in DOMAIN incoming :
          Decides(incoming[i]) /\ Decides(incoming[j]) /\ incoming[i].id = incoming[j].id => i = j)'
    <3>1. \A i, j \in DOMAIN incoming :
            Decides(incoming[i]) /\ Decides(incoming[j]) /\ incoming[i].id = incoming[j].id => i = j
      BY DEF Answers
    <3>2. QED
      BY <1>2, <1>3, <3>1, SMTT(30) DEF Decides
  <2>4. (\A t \in Thread : Handles(t) /\ Decides(content[local[t].buf]) =>
          /\ InProgress(content[local[t].buf].id) /\ content[local[t].buf].id \notin pending
          /\ \A i \in DOMAIN incoming :
                Decides(incoming[i]) => incoming[i].id # content[local[t].buf].id)'
    <3> SUFFICES ASSUME NEW t \in Thread, Handles(t), Decides(content[local[t].buf]),
                        NEW d, d = content[local[t].buf].id
                 PROVE  /\ InProgress(d)' /\ d \notin pending'
                        /\ \A i \in DOMAIN incoming' : Decides(incoming[i])' => incoming'[i].id # d
      <4>1. \A t \in Thread : (Handles(t)' <=> Handles(t)) /\ content'[local'[t].buf] = content[local[t].buf]
                              /\ (Decides(content[local[t].buf])' <=> Decides(content[local[t].buf]))
        BY DEF Handles, Decides
      <4>2. QED
        BY <4>1
    <3>1. /\ InProgress(d) /\ d \notin pending
          /\ \A i \in DOMAIN incoming : Decides(incoming[i]) => incoming[i].id # d
      BY DEF Answers
    <3>2. ASSUME NEW i \in DOMAIN incoming', Decides(incoming[i])' PROVE incoming'[i].id # d
      <4>1. CASE i \in DOMAIN incoming /\ incoming'[i] = incoming[i]
        BY <3>1, <3>2, <4>1 DEF Decides
      <4>2. CASE incoming'[i] = m
        BY <1>2, <1>3, <3>2, <4>2 DEF Decides
      <4>3. QED
        BY <4>1, <4>2
    <3>3. QED
      BY <1>1, <1>3, <3>1, <3>2
  <2>5. (\A t, u \in Thread :
          /\ Handles(t) /\ Handles(u)
          /\ Decides(content[local[t].buf]) /\ Decides(content[local[u].buf])
          /\ content[local[t].buf].id = content[local[u].buf].id
          => t = u)'
    BY DEF Answers, Handles, Decides
  <2>6. QED
    BY <2>1, <2>2, <2>3, <2>4, <2>5 DEF Answers
<1>5. Arrivals'
  <2>1. \A x : Expected(x) => Expected(x)'
    BY DEF Expected
  <2>2. (\A i \in DOMAIN incoming : Expected(incoming[i]))'
    <3> SUFFICES ASSUME NEW i \in DOMAIN incoming' PROVE Expected(incoming[i])'
      OBVIOUS
    <3>1. PICK x : x = incoming'[i]
      OBVIOUS
    <3>2. Expected(x)
      BY <3>1 DEF Arrivals
    <3>3. QED
      BY <2>1, <3>1, <3>2
  <2>3. (\A t \in Thread : Handles(t) => Expected(content[local[t].buf]))'
    BY DEF Arrivals, Handles, Expected
  <2>4. open'
    BY SMTT(30)
  <2>5. QED
    BY <2>2, <2>3, <2>4 DEF Arrivals
<1>6. open' \in BOOLEAN
  BY DEF Typed
<1>7. QED
  BY <1>4, <1>5, <1>6, ServerStep

\* The server answers, rejects or sends an event, and the connection may be lost.
LEMMA ServerKeeps ==
    ASSUME ClientInv, Server
    PROVE  ClientInv'
<1> Typed /\ Answers /\ Arrivals /\ errors \in Nat /\ events \in Nat /\ open \in BOOLEAN /\ incoming \in Seq(Letter)
  BY DEF ClientInv, Typed
<1>1. scenario.events \in Nat /\ scenario.errors \in Nat
  BY ClientAssumption DEF Typed
<1>2. ASSUME NEW id \in Id, Respond(id) PROVE ClientInv'
  <2>1. PICK m : m = [type |-> "response", id |-> id]
    OBVIOUS
  <2>2. m \in Letter /\ m.type = "response" /\ m.id = id
    <3>1. id \in Nat
      BY <1>2, SMTT(30) DEF Id
    <3>2. QED
      BY <2>1, <3>1 DEF Letter
  <2>3. Decides(m) /\ Expected(m)
    BY <2>2 DEF Decides, Expected
  <2>4. QED
    BY <1>2, <2>1, <2>2, <2>3, ArrivalKeeps DEF Respond
<1>3. ASSUME NEW id \in Id, Reject(id) PROVE ClientInv'
  <2>1. PICK m : m = [type |-> "error", id |-> id]
    OBVIOUS
  <2>2. m \in Letter /\ m.type = "error" /\ m.id = id
    <3>1. id \in Nat
      BY <1>3, SMTT(30) DEF Id
    <3>2. QED
      BY <2>1, <3>1 DEF Letter
  <2>3. scenario.errors # 0 /\ errors' \in Nat
    BY <1>1, <1>3, SMTT(30) DEF Reject
  <2>4. Decides(m) /\ Expected(m)
    BY <2>2, <2>3 DEF Decides, Expected, Calm
  <2>5. QED
    BY <1>3, <2>1, <2>2, <2>3, <2>4, ArrivalKeeps DEF Reject
<1>4. ASSUME NEW type \in {"event", "large"}, SendEvent(type) PROVE ClientInv'
  <2>1. PICK m : m = [type |-> type, id |-> 0]
    OBVIOUS
  <2>2. m \in Letter /\ m.type = type
    <3>1. 0 \in Nat
      BY SMTT(30)
    <3>2. QED
      BY <1>4, <2>1, <3>1 DEF Letter
  <2>3. scenario.events # 0 /\ events' \in Nat
    BY <1>1, <1>4, SMTT(30) DEF SendEvent
  <2>4. ~Decides(m) /\ Expected(m)
    BY <1>4, <2>2, <2>3 DEF Decides, Expected, Calm
  <2>5. QED
    BY <1>4, <2>1, <2>2, <2>3, <2>4, ArrivalKeeps DEF SendEvent
<1>5. ASSUME Close PROVE ClientInv'
  <2>1. /\ UNCHANGED <<clientVars, threadVars, pending, incoming, scenario, events, errors>>
        /\ open' = FALSE /\ ~Calm(scenario)
    BY <1>5 DEF Close, Calm
  <2>2. UNCHANGED <<messages, content, local>>
    BY <2>1 DEF clientVars, threadVars
  <2>3. Answers'
    BY <2>1, <2>2 DEF Answers, InProgress, Handles, Decides
  <2>4. Arrivals'
    BY <2>1, <2>2 DEF Arrivals, Expected, Handles
  <2>5. QED
    BY <2>1, <2>3, <2>4, ServerStep
<1>6. QED
  BY <1>2, <1>3, <1>4, <1>5 DEF Server

----------------------------------------------------------------------------
(* The call of gracht_client_wait_message                                  *)

\* A call with a context is about one the thread owns.
LEMMA WaitMessageKeeps ==
    ASSUME ClientInv, NEW t \in Thread, gracht_client_wait_message(t)
    PROVE  ClientInv'
<1>1. Typed /\ Contexts /\ Buffers /\ Role(t) /\ Locals(t) /\ local[t] \in Local
  BY DEF ClientInv, Typed
<1>2. /\ local[t].pc = "idle"
      /\ UNCHANGED <<current_message_id, current_awaiter_id, messages, swap, awaiters, awaiter, send_lock, pool,
                     content, owned, ready, pending, incoming, open, scenario, events, errors>>
  BY DEF gracht_client_wait_message, At, clientVars, envVars
<1>3. ~InAwait(t) /\ local[t].buf = NULL
  <2>1. ~InAwait(t)
    BY <1>2, NotInAwait DEF AwaitPc, WaitPc
  <2>2. QED
    BY <1>1, <1>2, <2>1 DEF Locals, ReadPc
<1>4. Idle \in Local
  BY SMTT(30) DEF Idle, Local, Pc, Status
<1>5. PICK r : /\ local' = [local EXCEPT ![t] = r] /\ r \in Local
               /\ r.pc \in {"check", "lock"} /\ r.buf = NULL /\ r.stale = FALSE /\ r.handled = 0 /\ r.ret = "idle"
               /\ r.ctx # 0 => r.ctx \in owned[t] /\ Waits(scenario, t)
               /\ Receives(scenario, t)
  <2>1. CASE \E id \in owned[t] \ ready[t], block \in BOOLEAN :
             /\ Uses(t, IF block THEN "wait" ELSE "try")
             /\ local' = [local EXCEPT ![t] = [Idle EXCEPT !.pc = "check", !.ctx = id,
                                                            !.block = block]]
    <3>1. PICK id \in owned[t] \ ready[t], block \in BOOLEAN :
             /\ Uses(t, IF block THEN "wait" ELSE "try")
             /\ local' = [local EXCEPT ![t] = [Idle EXCEPT !.pc = "check", !.ctx = id,
                                                            !.block = block]]
      BY <2>1
    <3>2. id \in Nat
      BY <1>1 DEF Typed
    <3>3. PICK r : r = [Idle EXCEPT !.pc = "check", !.ctx = id, !.block = block]
      OBVIOUS
    <3>4. r \in Local /\ r.pc = "check" /\ r.buf = NULL /\ r.stale = FALSE /\ r.handled = 0 /\ r.ret = "idle" /\ r.ctx = id
      BY <3>2, <3>3, ClientAssumption DEF Idle, Local, Pc, Status
    <3>5. Waits(scenario, t) /\ Receives(scenario, t)
      BY <3>1, SMTT(30) DEF Waits, Receives, Uses
    <3>6. QED
      BY <3>1, <3>3, <3>4, <3>5
  <2>2. CASE \E block \in BOOLEAN :
             /\ Uses(t, IF block THEN "pump" ELSE "poll")
             /\ local' = [local EXCEPT ![t] = [Idle EXCEPT !.pc = "lock", !.block = block]]
    <3>1. PICK block \in BOOLEAN :
             /\ Uses(t, IF block THEN "pump" ELSE "poll")
             /\ local' = [local EXCEPT ![t] = [Idle EXCEPT !.pc = "lock", !.block = block]]
      BY <2>2
    <3>2. PICK r : r = [Idle EXCEPT !.pc = "lock", !.block = block]
      OBVIOUS
    <3>3. r \in Local /\ r.pc = "lock" /\ r.buf = NULL /\ r.stale = FALSE /\ r.handled = 0 /\ r.ret = "idle" /\ r.ctx = 0
      BY <3>2, ClientAssumption DEF Idle, Local, Pc, Status
    <3>4. Receives(scenario, t)
      BY <3>1, SMTT(30) DEF Receives, Uses
    <3>5. QED
      BY <3>1, <3>2, <3>3, <3>4
  <2>3. QED
    BY <2>1, <2>2 DEF gracht_client_wait_message
<1>6. r.pc \in WaitPc /\ r.pc \notin AwaitPc /\ r.pc \notin SendPc \cup ReadPc \cup {"handle", "mark", "touch"}
      /\ r.pc \notin {"exit", "scan", "cleanup", "cnd_wait", "asleep", "loop", "remove"}
  BY <1>5 DEF WaitPc, AwaitPc, SendPc, ReadPc
<1>7. Moves(t) /\ local'[t] = r
  BY <1>1, <1>5, Moved
<1>8. Buffers'
  <2>1. SameSlots
    BY <1>2 DEF SameSlots
  <2>2. QED
    BY <1>1, <1>2, <1>3, <1>5, <1>7, <2>1, BuffersKept
<1>9. ReadyOK' /\ pool' \subseteq Buffer
  <2>1. \A id : Decided(id) => Decided(id)'
    BY <1>2 DEF Decided
  <2>2. QED
    BY <1>1, <1>2, <2>1, ReadySame DEF Typed
<1>10. r.pc \in AwaitPc \/ r.ret = "recount" <=> InAwait(t)
  BY <1>3, <1>5, <1>6
<1>11. Rest(t)' /\ (InAwait(t)' <=> InAwait(t))
  <2>1. /\ local[t].pc \notin {"mark", "touch"}
        /\ r.pc \in {"scan", "cleanup"} <=> local[t].pc \in {"scan", "cleanup"}
    BY <1>2, <1>6
  <2>2. QED
    BY <1>2, <1>3, <1>5, <1>6, <1>8, <1>9, <1>10, <2>1, QuietStep
<1>12. Role(t)'
  BY <1>2, <1>3, <1>5, <1>6, <1>7, <1>11 DEF Role
<1>13. Locals(t)'
  BY <1>2, <1>5, <1>6, <1>7 DEF Locals
<1>14. Awaiting(t)'
  BY <1>2, <1>3, <1>6, <1>7, <1>11, AwaitingPlain
<1>15. QED
  BY <1>11, <1>12, <1>13, <1>14, Together DEF Own

----------------------------------------------------------------------------
(* gracht_client_await_multiple                                            *)

\* A step of a thread in gracht_client_await_multiple keeps what is not about awaiters.
LEMMA AwaitStep ==
    ASSUME ClientInv, NEW t \in Thread, NEW r \in Local, local' = [local EXCEPT ![t] = r],
           local[t].pc \in AwaitPc \cup {"idle"}, r.pc \in AwaitPc \cup {"idle", "lock"},
           r.buf = NULL, r.ctx = 0,
           InAwait(t)' => r.ids \subseteq owned[t],
           SameSlots, \A id \in DOMAIN messages : messages'[id] \in Slot,
           awaiter' \in [Thread -> [id : Nat, all : BOOLEAN, count : Nat, current : Nat]],
           \A u \in Thread \ {t} : awaiter'[u] = awaiter[u],
           current_awaiter_id' \in Nat \ {0},
           \A k \in DOMAIN awaiters' : awaiters'[k] \in Thread,
           \A u \in Thread \ {t} : InAwait(u) => \A id \in DOMAIN messages :
               messages'[id].awaiter = awaiter[u].id <=> messages[id].awaiter = awaiter[u].id,
           ReadyOK', Awaits', Role(t)', Awaiting(t)',
           UNCHANGED <<current_message_id, swap, send_lock, pool, content, owned, pending, incoming, open,
                       scenario, events, errors>>
    PROVE  ClientInv'
<1> Typed /\ Ids /\ Contexts /\ Answers /\ Arrivals /\ Descriptors /\ Buffers /\ Locals(t)
  BY DEF ClientInv
<1> Moves(t) /\ local'[t] = r
  BY Moved
<1> /\ local[t].pc \notin {"handle", "mark", "touch", "exit"} \cup SendPc \cup ReadPc
    /\ r.pc \notin {"handle", "mark", "touch", "exit"} \cup SendPc \cup ReadPc
    /\ r.pc # "swap_buffer"
  BY DEF AwaitPc, SendPc, ReadPc
<1>1. local[t].buf = NULL
  BY DEF Locals
<1>2. \A id : (Decided(id)' <=> Decided(id)) /\ (InProgress(id)' <=> InProgress(id))
  BY DEF Decided, InProgress, SameSlots
<1>3. Typed'
  <2>1. DOMAIN messages' \subseteq 1 .. MaxId /\ \A id \in DOMAIN messages' : messages'[id] \in Slot
    BY DEF Typed, SameSlots
  <2>2. QED
    BY <2>1 DEF Typed, Moves, ReadyOK
<1>4. DOMAIN messages' = DOMAIN messages
  BY DEF SameSlots
<1>5. Ids'
  <2>1. DOMAIN messages' \subseteq DOMAIN messages
    BY <1>4
  <2>2. QED
    BY <2>1, IdsKept
<1>6. Contexts'
  <2>1. \A u \in Thread : ready'[u] \subseteq owned[u] /\ \A id \in ready'[u] : Decided(id)'
    BY DEF ReadyOK
  <2>2. QED
    BY <1>4, <2>1, ContextsKept
<1>7. Answers'
  BY <1>2, AnswersKept
<1>8. Arrivals'
  BY ArrivalsKept
<1>9. Descriptors'
  BY DescriptorsKept
<1>10. Buffers'
  BY <1>1, BuffersKept
<1>11. ASSUME NEW u \in Thread \ {t} PROVE Role(u)' /\ Locals(u)' /\ Awaiting(u)'
  <2>1. local'[u] = local[u] /\ u \in Thread /\ awaiter'[u] = awaiter[u]
    BY DEF Moves
  <2>2. Role(u)' /\ Locals(u)'
    BY <1>2, <2>1, OtherKept
  <2>3. \A k : Marking(k)' = Marking(k)
    <3>1. local[t].pc \notin {"mark", "touch"} /\ local'[t].pc \notin {"mark", "touch"}
      OBVIOUS
    <3>2. QED
      BY <3>1, MarkingKept
  <2>4. Awaiting(u)'
    BY <1>2, <1>4, <2>1, <2>3, AwaitingFor
  <2>5. QED
    BY <2>2, <2>4
<1>12. Own(t)'
  <2>1. Locals(t)'
    BY DEF Locals
  <2>2. QED
    BY <2>1 DEF Own
<1>13. QED
  BY <1>3, <1>5, <1>6, <1>7, <1>8, <1>9, <1>10, <1>11, <1>12, Together DEF Rest

\* What is known of a thread in gracht_client_await_multiple: the contexts are its own, and
\* what counts as done is what is decided.
LEMMA AwaitState ==
    ASSUME ClientInv, NEW t \in Thread, local[t].pc \in AwaitPc
    PROVE  /\ InAwait(t) /\ local[t] \in Local /\ local[t].buf = NULL /\ local[t].ctx = 0 /\ local[t].ret = "idle"
           /\ awaiter[t].id # 0 /\ local[t].ids \subseteq owned[t] /\ local[t].ids \subseteq DOMAIN messages
           /\ {id \in local[t].ids : Done(id)} = DoneOf(t)
<1> Typed /\ Contexts /\ Awaits /\ Role(t) /\ Locals(t) /\ local[t] \in Local
  BY DEF ClientInv, Typed
<1> InAwait(t)
  BY DEF InAwait
<1>1. local[t].buf = NULL
  <2>1. local[t].pc \notin {"handle", "mark", "touch", "exit"} \cup ReadPc
    BY DEF AwaitPc, ReadPc
  <2>2. QED
    BY <2>1 DEF Locals
<1>2. local[t].ctx = 0 /\ local[t].ret = "idle"
  BY DEF Role
<1>3. awaiter[t].id # 0
  BY DEF Awaits
<1>4. local[t].ids \subseteq owned[t] /\ local[t].ids \subseteq DOMAIN messages
  BY DEF Contexts
<1>5. {id \in local[t].ids : Done(id)} = DoneOf(t)
  <2> SUFFICES ASSUME NEW id \in local[t].ids PROVE Done(id) <=> Decided(id)
    BY DEF DoneOf
  <2>1. id \in DOMAIN messages /\ messages[id] \in Slot
    BY <1>4 DEF Typed
  <2>2. messages[id].status \in {"inprogress", "completed", "error"}
    BY <2>1 DEF Slot, Status
  <2>3. QED
    BY <2>1, <2>2, SMTT(30) DEF Done, Decided, Executed
<1>6. QED
  BY <1>1, <1>2, <1>3, <1>4, <1>5

\* The thread that awaits synchronously is the only one that receives, hence that counts.
LEMMA SyncAlone ==
    ASSUME ClientInv, NEW t \in Thread, Syncs(scenario, t), local[t].pc \notin WaitPc, NEW k
    PROVE  Marking(k) = {}
<1>1. Disciplined(scenario)
  BY DEF ClientInv, Typed
<1>2. ASSUME NEW u \in Marking(k) PROVE FALSE
  <2>1. u \in Thread /\ local[u].pc \in {"mark", "touch"}
    BY <1>2 DEF Marking
  <2>2. local[u].pc \in WaitPc /\ Role(u)
    BY <2>1 DEF WaitPc, ClientInv
  <2>3. Receives(scenario, u)
    BY <2>2 DEF Role
  <2>4. t = u
    BY <1>1, <2>1, <2>3 DEF Disciplined
  <2>5. QED
    BY <2>2, <2>4
<1>3. QED
  BY <1>2

\* cnd_wait: the thread sleeps until the last message is counted.  There is no spurious
\* wake-up in the scenarios of an asynchronous await.
LEMMA CndWaitKeeps ==
    ASSUME ClientInv, NEW t \in Thread, CndWait(t) \/ SpuriousWakeUp(t)
    PROVE  ClientInv'
<1>1. Typed /\ Contexts /\ Buffers /\ Role(t) /\ Locals(t) /\ Awaiting(t) /\ local[t] \in Local
  BY DEF ClientInv, Typed
<1>2. ASSUME SpuriousWakeUp(t) PROVE FALSE
  <2>1. local[t].pc = "asleep" /\ scenario.spurious
    BY <1>2 DEF SpuriousWakeUp, At
  <2>2. InAwait(t)
    BY <2>1 DEF InAwait, AwaitPc
  <2>3. Uses(t, "await_all_async")
    BY <1>1, <2>1, <2>2 DEF Role
  <2>4. QED
    BY <1>1, <2>1, <2>3 DEF Typed, Disciplined, Uses
<1>3. /\ local[t].pc = "cnd_wait" /\ Goto(t, "asleep")
      /\ UNCHANGED <<current_message_id, current_awaiter_id, messages, swap, awaiters, awaiter, send_lock, pool,
                     content, owned, ready, pending, incoming, open, scenario, events, errors>>
  BY <1>2 DEF CndWait, At, clientVars, envVars
<1>4. /\ InAwait(t) /\ local[t].buf = NULL /\ local[t].ctx = 0 /\ local[t].ret = "idle"
  BY <1>3, AwaitState DEF AwaitPc
<1>5. PICK r : r = [local[t] EXCEPT !.pc = "asleep"]
  OBVIOUS
<1>6. /\ r \in Local /\ r.pc = "asleep" /\ r.ctx = local[t].ctx /\ r.ret = local[t].ret /\ r.ids = local[t].ids
      /\ r.all = local[t].all /\ r.async = local[t].async /\ r.buf = local[t].buf /\ r.stale = local[t].stale
  BY <1>1, <1>5 DEF Local, Pc
<1>7. local' = [local EXCEPT ![t] = r]
  BY <1>3, <1>5 DEF Goto
<1>8. Moves(t) /\ local'[t] = r
  BY <1>1, <1>6, <1>7, Moved
<1>9. Buffers'
  <2>1. SameSlots
    BY <1>3 DEF SameSlots
  <2>2. QED
    BY <1>1, <1>3, <1>6, <1>8, <2>1, BuffersKept
<1>10. ReadyOK' /\ pool' \subseteq Buffer
  <2>1. \A id : Decided(id) => Decided(id)'
    BY <1>3 DEF Decided
  <2>2. QED
    BY <1>1, <1>3, <2>1, ReadySame DEF Typed
<1>11. /\ r.pc \notin SendPc \cup ReadPc \cup WaitPc \cup {"handle", "mark", "touch"}
       /\ r.pc \in AwaitPc /\ local[t].pc \notin {"mark", "touch"}
       /\ r.pc \in {"scan", "cleanup"} <=> local[t].pc \in {"scan", "cleanup"}
  BY <1>3, <1>6 DEF SendPc, ReadPc, WaitPc, AwaitPc
<1>12. Rest(t)' /\ InAwait(t)' /\ \A k : Marking(k)' = Marking(k)
  BY <1>3, <1>4, <1>6, <1>7, <1>9, <1>10, <1>11, QuietStep
<1>13. Role(t)'
  <2>1. local[t].async /\ local[t].all /\ Uses(t, "await_all_async")
    BY <1>1, <1>3, <1>4 DEF Role
  <2>2. local'[t].async /\ local'[t].all /\ Uses(t, "await_all_async")'
    BY <1>3, <1>6, <1>8, <2>1 DEF Uses
  <2>3. QED
    BY <1>3, <1>4, <1>6, <1>8, <1>11, <2>2 DEF Role
<1>14. Locals(t)'
  BY <1>4, <1>6, <1>8, <1>11 DEF Locals
<1>15. Awaiting(t)'
  <2>1. DoneOf(t)' = DoneOf(t)
    BY <1>3, <1>6, <1>8 DEF DoneOf, Decided
  <2>2. Marking(awaiter[t].id)' = Marking(awaiter[t].id)
    <3>1. PICK k : k = awaiter[t].id
      OBVIOUS
    <3>2. Marking(k)' = Marking(k)
      BY <1>12
    <3>3. awaiter'[t].id = k
      BY <1>3, <3>1
    <3>4. QED
      BY <3>1, <3>2, <3>3
  <2>3. (local[t].pc \in {"cnd_wait", "asleep"} =>
          awaiter[t].current + Cardinality(Marking(awaiter[t].id)) = Cardinality(DoneOf(t)))'
    BY <1>1, <1>3, <2>1, <2>2 DEF Awaiting
  <2>4. (InAwait(t) /\ local[t].pc # "scan" =>
          \A id \in DOMAIN messages : messages[id].awaiter = awaiter[t].id <=> id \in local[t].ids)'
    BY <1>1, <1>3, <1>4, <1>6, <1>8 DEF Awaiting
  <2>5. (InAwait(t) => awaiter[t].count = Cardinality(local[t].ids) /\ awaiter[t].all = local[t].all)'
    BY <1>1, <1>3, <1>4, <1>6, <1>8 DEF Awaiting
  <2>6. local'[t].pc = "asleep"
    BY <1>6, <1>8
  <2>7. QED
    BY <2>3, <2>4, <2>5, <2>6 DEF Awaiting
<1>16. QED
  BY <1>12, <1>13, <1>14, <1>15, Together DEF Own

\* __await_remove: the awaiter is taken out of the table before it is freed.
LEMMA AwaitRemoveKeeps ==
    ASSUME ClientInv, NEW t \in Thread, AwaitRemove(t)
    PROVE  ClientInv'
<1>1. Typed /\ Awaits /\ Role(t) /\ Awaiting(t)
  BY DEF ClientInv
<1>2. /\ local[t].pc = "remove" /\ Goto(t, "cleanup") /\ awaiters' = Drop(awaiters, awaiter[t].id)
      /\ UNCHANGED <<current_message_id, current_awaiter_id, messages, swap, awaiter, send_lock, pool,
                     content, owned, ready, pending, incoming, open, scenario, events, errors>>
  BY DEF AwaitRemove, At, envVars
<1>3. /\ InAwait(t) /\ local[t] \in Local /\ local[t].buf = NULL /\ local[t].ctx = 0 /\ local[t].ret = "idle"
      /\ awaiter[t].id # 0 /\ local[t].ids \subseteq owned[t]
  BY <1>2, AwaitState DEF AwaitPc
<1>4. PICK r : r = [local[t] EXCEPT !.pc = "cleanup"]
  OBVIOUS
<1>5. /\ r \in Local /\ r.pc = "cleanup" /\ r.ctx = 0 /\ r.ret = "idle" /\ r.ids = local[t].ids
      /\ r.all = local[t].all /\ r.async = local[t].async /\ r.buf = NULL
  <2>1. "cleanup" \in Pc
    BY DEF Pc
  <2>2. QED
    BY <1>3, <1>4, <2>1, LocalAt, SMTT(30)
<1>6. local' = [local EXCEPT ![t] = r]
  BY <1>2, <1>4 DEF Goto
<1>7. Moves(t) /\ local'[t] = r
  BY <1>1, <1>5, <1>6, Moved
<1>8. InAwait(t)' /\ \A u \in Thread : InAwait(u)' <=> InAwait(u)
  <2>1. InAwait(t)'
    BY <1>5, <1>7 DEF InAwait, AwaitPc
  <2>2. QED
    BY <1>3, <1>7, <2>1 DEF InAwait, Moves
<1>9. PICK k : k = awaiter[t].id
  OBVIOUS
<1>10. DOMAIN awaiters' = DOMAIN awaiters \ {k} /\ \A j \in DOMAIN awaiters' : awaiters'[j] = awaiters[j]
  BY <1>2, <1>9 DEF Drop, Restrict
<1>11. \A j \in DOMAIN awaiters' : awaiters'[j] \in Thread /\ awaiters'[j] # t
  BY <1>1, <1>9, <1>10 DEF Typed, Awaits
<1>12. Awaits'
  <2>1. (\A u \in Thread :
          /\ awaiter[u].id < current_awaiter_id
          /\ awaiter[u].id # 0 <=> InAwait(u)
          /\ local[u].pc \in {"mark", "touch"} => local[u].mark < current_awaiter_id)'
    BY <1>1, <1>2, <1>5, <1>7, <1>8 DEF Awaits, Moves
  <2>2. (\A u, v \in Thread : awaiter[u].id = awaiter[v].id => u = v \/ awaiter[u].id = 0)'
    BY <1>1, <1>2 DEF Awaits
  <2>3. (\A id \in DOMAIN messages : messages[id].awaiter < current_awaiter_id)'
    BY <1>1, <1>2 DEF Awaits
  <2>4. (\A j \in DOMAIN awaiters :
          awaiter[awaiters[j]].id = j /\ local[awaiters[j]].pc \notin {"scan", "cleanup"} /\ j # 0)'
    <3> SUFFICES ASSUME NEW j \in DOMAIN awaiters'
                 PROVE  (awaiter[awaiters[j]].id = j /\ local[awaiters[j]].pc \notin {"scan", "cleanup"} /\ j # 0)'
      OBVIOUS
    <3>1. j \in DOMAIN awaiters /\ awaiters'[j] = awaiters[j] /\ awaiters[j] \in Thread /\ awaiters[j] # t
      BY <1>10, <1>11
    <3>2. local'[awaiters[j]] = local[awaiters[j]]
      BY <1>7, <3>1 DEF Moves
    <3>3. awaiter[awaiters[j]].id = j /\ local[awaiters[j]].pc \notin {"scan", "cleanup"} /\ j # 0
      BY <1>1, <3>1 DEF Awaits
    <3>4. QED
      BY <1>2, <3>1, <3>2, <3>3
  <2>5. (\A u \in Thread : InAwait(u) /\ local[u].pc \notin {"scan", "cleanup"} =>
          awaiter[u].id \in DOMAIN awaiters)'
    <3> SUFFICES ASSUME NEW u \in Thread, InAwait(u)', local'[u].pc \notin {"scan", "cleanup"}
                 PROVE  awaiter'[u].id \in DOMAIN awaiters'
      OBVIOUS
    <3>1. u # t /\ local'[u] = local[u] /\ InAwait(u)
      BY <1>5, <1>7, <1>8 DEF Moves
    <3>2. awaiter[u].id \in DOMAIN awaiters
      BY <1>1, <3>1 DEF Awaits
    <3>3. awaiter[u].id # k
      BY <1>1, <1>3, <1>9, <3>1 DEF Awaits
    <3>4. QED
      BY <1>2, <1>10, <3>2, <3>3
  <2>6. (\A u \in Thread : local[u].pc = "touch" =>
          local[u].mark # 0 /\ local[u].ptr \in Thread /\ awaiter[local[u].ptr].id = local[u].mark)'
    BY <1>1, <1>2, <1>5, <1>7 DEF Awaits, Moves
  <2>7. QED
    BY <2>1, <2>2, <2>3, <2>4, <2>5, <2>6 DEF Awaits
<1>13. SameSlots /\ \A id \in DOMAIN messages : messages'[id] \in Slot
  BY <1>1, <1>2 DEF SameSlots, Typed
<1>14. Role(t)'
  <2>1. local'[t].pc \notin SendPc \cup WaitPc \cup ReadPc \cup {"cnd_wait", "asleep"}
    BY <1>5, <1>7 DEF SendPc, WaitPc, ReadPc
  <2>2. local[t].async => local[t].all /\ Uses(t, "await_all_async")
    BY <1>1, <1>3 DEF Role
  <2>3. ~local[t].async => Syncs(scenario, t)
    BY <1>1, <1>3 DEF Role
  <2>4. QED
    BY <1>2, <1>5, <1>7, <2>1, <2>2, <2>3 DEF Role, Uses
<1>15. Awaiting(t)'
  <2>1. DoneOf(t)' = DoneOf(t)
    BY <1>2, <1>5, <1>7 DEF DoneOf, Decided
  <2>2. Marking(awaiter[t].id)' = {}
    <3>1. Marking(k) = {}
      BY <1>1, <1>2, <1>9 DEF Awaiting
    <3>2. Marking(k)' = Marking(k)
      BY <1>2, <1>5, <1>7, MarkingKept
    <3>3. awaiter'[t].id = k
      BY <1>2, <1>9
    <3>4. QED
      BY <3>1, <3>2, <3>3
  <2>3. (local[t].all => DoneOf(t) = local[t].ids)'
    BY <1>1, <1>2, <1>5, <1>7, <2>1 DEF Awaiting
  <2>4. (InAwait(t) /\ local[t].pc # "scan" =>
          \A id \in DOMAIN messages : messages[id].awaiter = awaiter[t].id <=> id \in local[t].ids)'
    BY <1>1, <1>2, <1>3, <1>5, <1>7 DEF Awaiting
  <2>5. (InAwait(t) => awaiter[t].count = Cardinality(local[t].ids) /\ awaiter[t].all = local[t].all)'
    BY <1>1, <1>2, <1>3, <1>5, <1>7 DEF Awaiting
  <2>6. local'[t].pc = "cleanup"
    BY <1>5, <1>7
  <2>7. QED
    BY <2>2, <2>3, <2>4, <2>5, <2>6 DEF Awaiting
<1>16. ReadyOK'
  <2>1. \A id : Decided(id) => Decided(id)'
    BY <1>2 DEF Decided
  <2>2. QED
    BY <1>2, <2>1, ReadySame
<1>17. /\ awaiter' \in [Thread -> [id : Nat, all : BOOLEAN, count : Nat, current : Nat]]
       /\ current_awaiter_id' \in Nat \ {0}
  BY <1>1, <1>2 DEF Typed
<1>18. local[t].pc \in AwaitPc \cup {"idle"} /\ r.pc \in AwaitPc \cup {"idle", "lock"}
  BY <1>2, <1>5 DEF AwaitPc
<1>19. QED
  BY <1>2, <1>3, <1>5, <1>6, <1>11, <1>12, <1>13, <1>14, <1>15, <1>16, <1>17, <1>18, AwaitStep

\* The awaiter is freed when nobody is about to touch it, and with GRACHT_AWAIT_ALL every
\* context is decided.
LEMMA AwaitCleanupKeeps ==
    ASSUME ClientInv, NEW t \in Thread, AwaitCleanup(t)
    PROVE  ClientInv'
<1> Typed /\ Awaits /\ Contexts /\ Role(t) /\ Awaiting(t)
  BY DEF ClientInv
<1>1. /\ local[t].pc = "cleanup" /\ local' = [local EXCEPT ![t] = Idle]
      /\ awaiter' = [awaiter EXCEPT ![t] = NoAwaiter]
      /\ ready' = IF local[t].all THEN [ready EXCEPT ![t] = @ \cup local[t].ids] ELSE ready
      /\ UNCHANGED <<current_message_id, current_awaiter_id, messages, swap, awaiters, send_lock, pool,
                     content, owned, pending, incoming, open, scenario, events, errors>>
  BY DEF AwaitCleanup, At, envVars
<1>2. /\ InAwait(t) /\ awaiter[t].id # 0 /\ local[t].ids \subseteq owned[t]
  BY <1>1, AwaitState DEF AwaitPc
<1> /\ Idle \in Local /\ Idle.pc = "idle" /\ Idle.ctx = 0 /\ Idle.ret = "idle" /\ Idle.buf = NULL
  BY SMTT(30) DEF Idle, Local, Pc, Status
<1> Moves(t) /\ local'[t] = Idle
  BY <1>1, Moved
<1>3. ~InAwait(t)' /\ \A u \in Thread \ {t} : InAwait(u)' <=> InAwait(u)
  <2>1. ~InAwait(t)'
    BY DEF InAwait, AwaitPc
  <2>2. QED
    BY <2>1 DEF InAwait, Moves
<1> /\ awaiter' \in [Thread -> [id : Nat, all : BOOLEAN, count : Nat, current : Nat]]
    /\ awaiter'[t].id = 0 /\ \A u \in Thread \ {t} : awaiter'[u] = awaiter[u]
  <2>1. NoAwaiter \in [id : Nat, all : BOOLEAN, count : Nat, current : Nat] /\ NoAwaiter.id = 0
    <3>1. 0 \in Nat
      BY SMTT(30)
    <3>2. QED
      BY <3>1 DEF NoAwaiter
  <2>2. QED
    BY <1>1, <2>1 DEF Typed
<1>4. \A j \in DOMAIN awaiters : awaiters[j] \in Thread /\ awaiters[j] # t
  BY <1>1, SMTT(30) DEF Typed, Awaits
<1>5. \A u \in Thread : local[u].pc = "touch" => local[u].ptr # t
  <2> SUFFICES ASSUME NEW u \in Thread, local[u].pc = "touch", local[u].ptr = t PROVE FALSE
    OBVIOUS
  <2>1. awaiter[t].id = local[u].mark
    BY DEF Awaits
  <2>2. u \in Marking(awaiter[t].id)
    BY <2>1 DEF Marking
  <2>3. QED
    BY <1>1, <2>2 DEF Awaiting
<1>6. Awaits'
  <2>1. (\A u \in Thread :
          /\ awaiter[u].id < current_awaiter_id
          /\ awaiter[u].id # 0 <=> InAwait(u)
          /\ local[u].pc \in {"mark", "touch"} => local[u].mark < current_awaiter_id)'
    <3> SUFFICES ASSUME NEW u \in Thread
                 PROVE  (/\ awaiter[u].id < current_awaiter_id
                         /\ awaiter[u].id # 0 <=> InAwait(u)
                         /\ local[u].pc \in {"mark", "touch"} => local[u].mark < current_awaiter_id)'
      OBVIOUS
    <3>1. CASE u = t
      <4>1. 0 < current_awaiter_id
        BY SMTT(30) DEF Typed
      <4>2. QED
        BY <1>1, <1>3, <3>1, <4>1
    <3>2. CASE u # t
      BY <1>1, <1>3, <3>2 DEF Awaits, Moves
    <3>3. QED
      BY <3>1, <3>2
  <2>2. (\A u, v \in Thread : awaiter[u].id = awaiter[v].id => u = v \/ awaiter[u].id = 0)'
    <3>1. \A u, v \in Thread : awaiter[u].id = awaiter[v].id => u = v \/ awaiter[u].id = 0
      BY DEF Awaits
    <3>2. ASSUME NEW u \in Thread, NEW v \in Thread, awaiter'[u].id = awaiter'[v].id
          PROVE  u = v \/ awaiter'[u].id = 0
      <4>1. CASE u = t \/ v = t
        BY <3>2, <4>1
      <4>2. CASE u # t /\ v # t
        BY <3>1, <3>2, <4>2
      <4>3. QED
        BY <4>1, <4>2
    <3>3. QED
      BY <3>2
  <2>3. (\A id \in DOMAIN messages : messages[id].awaiter < current_awaiter_id)'
    BY <1>1 DEF Awaits
  <2>4. (\A j \in DOMAIN awaiters :
          awaiter[awaiters[j]].id = j /\ local[awaiters[j]].pc \notin {"scan", "cleanup"} /\ j # 0)'
    <3> SUFFICES ASSUME NEW j \in DOMAIN awaiters'
                 PROVE  (awaiter[awaiters[j]].id = j /\ local[awaiters[j]].pc \notin {"scan", "cleanup"} /\ j # 0)'
      OBVIOUS
    <3>1. j \in DOMAIN awaiters /\ awaiters'[j] = awaiters[j] /\ awaiters[j] \in Thread /\ awaiters[j] # t
      BY <1>1, <1>4
    <3>2. local'[awaiters[j]] = local[awaiters[j]] /\ awaiter'[awaiters[j]] = awaiter[awaiters[j]]
      BY <3>1 DEF Moves
    <3>3. awaiter[awaiters[j]].id = j /\ local[awaiters[j]].pc \notin {"scan", "cleanup"} /\ j # 0
      BY <3>1 DEF Awaits
    <3>4. QED
      BY <3>1, <3>2, <3>3
  <2>5. (\A u \in Thread : InAwait(u) /\ local[u].pc \notin {"scan", "cleanup"} =>
          awaiter[u].id \in DOMAIN awaiters)'
    BY <1>1, <1>3 DEF Awaits, Moves
  <2>6. (\A u \in Thread : local[u].pc = "touch" =>
          local[u].mark # 0 /\ local[u].ptr \in Thread /\ awaiter[local[u].ptr].id = local[u].mark)'
    <3> SUFFICES ASSUME NEW u \in Thread, local'[u].pc = "touch"
                 PROVE  (local[u].mark # 0 /\ local[u].ptr \in Thread /\ awaiter[local[u].ptr].id = local[u].mark)'
      OBVIOUS
    <3>1. u # t /\ local'[u] = local[u]
      BY DEF Moves
    <3>2. local[u].mark # 0 /\ local[u].ptr \in Thread /\ awaiter[local[u].ptr].id = local[u].mark
      BY <3>1 DEF Awaits
    <3>3. awaiter'[local[u].ptr] = awaiter[local[u].ptr]
      BY <1>5, <3>1, <3>2
    <3>4. QED
      BY <3>1, <3>2, <3>3
  <2>7. QED
    BY <2>1, <2>2, <2>3, <2>4, <2>5, <2>6 DEF Awaits
<1>7. SameSlots /\ \A id \in DOMAIN messages : messages'[id] \in Slot
  BY <1>1 DEF SameSlots, Typed
<1>8. Role(t)'
  BY <1>3 DEF Role, SendPc, WaitPc, AwaitPc, ReadPc
<1>9. Awaiting(t)'
  <2>1. DOMAIN messages' = DOMAIN messages /\ \A id \in DOMAIN messages : messages'[id].awaiter = messages[id].awaiter
    BY <1>1
  <2>2. QED
    BY <1>3, <2>1, AwaitingPlain
<1>10. ReadyOK'
  <2>1. \A id : Decided(id)' <=> Decided(id)
    BY <1>1 DEF Decided
  <2>2. \A id \in local[t].ids : local[t].all => Decided(id)
    BY <1>1 DEF Awaiting, DoneOf
  <2>3. local[t].ids \subseteq Nat /\ ready \in [Thread -> SUBSET Nat]
    BY <1>2 DEF Typed
  <2>4. \A u \in Thread : ready[u] \subseteq owned[u] /\ \A id \in ready[u] : Decided(id)
    BY DEF Contexts
  <2>5. CASE local[t].all
    <3>1. ready' = [ready EXCEPT ![t] = ready[t] \cup local[t].ids]
      BY <1>1, <2>5
    <3>2. ready' \in [Thread -> SUBSET Nat]
      BY <2>3, <3>1
    <3>3. \A u \in Thread : ready'[u] = IF u = t THEN ready[t] \cup local[t].ids ELSE ready[u]
      BY <2>3, <3>1
    <3>4. \A u \in Thread : ready'[u] \subseteq owned[u] /\ \A id \in ready'[u] : Decided(id)'
      BY <1>2, <2>1, <2>2, <2>4, <2>5, <3>3, SMTT(30)
    <3>5. QED
      BY <1>1, <3>2, <3>4 DEF ReadyOK
  <2>6. CASE ~local[t].all
    BY <1>1, <2>1, <2>3, <2>4, <2>6 DEF ReadyOK
  <2>7. QED
    BY <2>5, <2>6
<1>11. local[t].pc \in AwaitPc \cup {"idle"} /\ Idle.pc \in AwaitPc \cup {"idle", "lock"}
       /\ current_awaiter_id' \in Nat \ {0}
  BY <1>1 DEF AwaitPc, Typed
<1>12. QED
  BY <1>1, <1>3, <1>4, <1>6, <1>7, <1>8, <1>9, <1>10, <1>11, AwaitStep

----------------------------------------------------------------------------
(* Collecting a result                                                     *)

\* A buffer moves from the descriptor that is removed to the thread that collects it.
LEMMA BuffersCollected ==
    ASSUME Typed, Buffers, NEW t \in Thread, NEW id \in DOMAIN messages, local[t].buf = NULL,
           DOMAIN messages' = DOMAIN messages \ {id},
           \A i \in DOMAIN messages' : messages'[i] = messages[i],
           local'[t].buf = messages[id].buffer, \A u \in Thread \ {t} : local'[u].buf = local[u].buf,
           UNCHANGED pool
    PROVE  Buffers'
<1>1. PICK b : b = messages[id].buffer
  OBVIOUS
<1>2. /\ \A i, j \in DOMAIN messages : messages[i].buffer = messages[j].buffer => i = j \/ messages[i].buffer = NULL
      /\ \A i \in DOMAIN messages, u \in Thread : messages[i].buffer = local[u].buf => local[u].buf = NULL
      /\ \A u, v \in Thread : local[u].buf = local[v].buf => u = v \/ local[u].buf = NULL
  BY DEF Buffers
<1>3. (\A c \in Buffer : \/ c \in pool
                         \/ \E i \in DOMAIN messages : messages[i].buffer = c
                         \/ \E u \in Thread : local[u].buf = c)'
  <2> SUFFICES ASSUME NEW c \in Buffer
               PROVE  \/ c \in pool'
                      \/ \E i \in DOMAIN messages' : messages'[i].buffer = c
                      \/ \E u \in Thread : local'[u].buf = c
    OBVIOUS
  <2>1. CASE c \in pool
    BY <2>1
  <2>2. CASE \E i \in DOMAIN messages : messages[i].buffer = c
    <3>1. PICK i \in DOMAIN messages : messages[i].buffer = c
      BY <2>2
    <3>2. CASE i = id
      BY <3>1, <3>2
    <3>3. CASE i # id
      BY <3>1, <3>3
    <3>4. QED
      BY <3>2, <3>3
  <2>3. CASE \E u \in Thread : local[u].buf = c
    <3>1. PICK u \in Thread : local[u].buf = c
      BY <2>3
    <3>2. u # t
      BY <3>1, ClientAssumption
    <3>3. QED
      BY <3>1, <3>2
  <2>4. QED
    BY <2>1, <2>2, <2>3 DEF Buffers
<1>4. (\A i \in DOMAIN messages : messages[i].buffer \notin pool)'
  BY DEF Buffers
<1>5. (\A u \in Thread : local[u].buf \notin pool)'
  <2> SUFFICES ASSUME NEW u \in Thread PROVE local'[u].buf \notin pool
    OBVIOUS
  <2>1. CASE u = t
    BY <2>1 DEF Buffers
  <2>2. CASE u # t
    BY <2>2 DEF Buffers
  <2>3. QED
    BY <2>1, <2>2
<1>6. (\A i \in DOMAIN messages, u \in Thread : messages[i].buffer = local[u].buf => local[u].buf = NULL)'
  <2> SUFFICES ASSUME NEW i \in DOMAIN messages', NEW u \in Thread, messages'[i].buffer = local'[u].buf
               PROVE  local'[u].buf = NULL
    OBVIOUS
  <2>1. i \in DOMAIN messages /\ i # id /\ messages'[i].buffer = messages[i].buffer
    OBVIOUS
  <2>2. CASE u = t
    BY <1>2, <2>1, <2>2
  <2>3. CASE u # t
    <3>1. local'[u].buf = local[u].buf
      BY <2>3
    <3>2. messages[i].buffer = local[u].buf
      BY <2>1, <3>1
    <3>3. QED
      BY <1>2, <2>1, <3>1, <3>2
  <2>4. QED
    BY <2>2, <2>3
<1>7. (\A i, j \in DOMAIN messages : messages[i].buffer = messages[j].buffer => i = j \/ messages[i].buffer = NULL)'
  <2> SUFFICES ASSUME NEW i \in DOMAIN messages', NEW j \in DOMAIN messages', messages'[i].buffer = messages'[j].buffer
               PROVE  i = j \/ messages'[i].buffer = NULL
    OBVIOUS
  <2>1. i \in DOMAIN messages /\ j \in DOMAIN messages /\ messages'[i] = messages[i] /\ messages'[j] = messages[j]
    OBVIOUS
  <2>2. QED
    BY <1>2, <2>1
<1>8. (\A u, v \in Thread : local[u].buf = local[v].buf => u = v \/ local[u].buf = NULL)'
  <2> SUFFICES ASSUME NEW u \in Thread, NEW v \in Thread, local'[u].buf = local'[v].buf, u # v
               PROVE  local'[u].buf = NULL
    OBVIOUS
  <2>1. CASE u = t
    BY <1>2, <2>1, SMTT(30)
  <2>2. CASE v = t
    BY <1>2, <2>2, SMTT(30)
  <2>3. CASE u # t /\ v # t
    BY <1>2, <2>3, SMTT(30)
  <2>4. QED
    BY <2>1, <2>2, <2>3
<1>9. QED
  BY <1>3, <1>4, <1>5, <1>6, <1>7, <1>8 DEF Buffers

\* gracht_client_get_status_buffer takes the descriptor and its buffer out of the client:
\* nobody else has the context, and no await counts it any more.
LEMMA GetStatusKeeps ==
    ASSUME ClientInv, NEW t \in Thread, gracht_client_get_status_buffer(t)
    PROVE  ClientInv'
<1>1. Typed /\ Ids /\ Contexts /\ Answers /\ Arrivals /\ Descriptors /\ Buffers /\ Awaits /\ Role(t) /\ Locals(t)
  BY DEF ClientInv
<1>2. /\ local[t].pc = "idle" /\ Uses(t, "status")
      /\ UNCHANGED <<current_message_id, current_awaiter_id, awaiters, awaiter, send_lock, pool, content,
                     pending, incoming, open, scenario, events, errors>>
  BY DEF gracht_client_get_status_buffer, At, envVars
<1>3. PICK id \in ready[t] :
         /\ ready' = [ready EXCEPT ![t] = @ \ {id}]
         /\ owned' = [owned EXCEPT ![t] = @ \ {id}]
         /\ IF id \in DOMAIN messages
            THEN /\ swap' = messages[id]
                 /\ messages' = Drop(messages, id)
                 /\ local' = [local EXCEPT ![t] = [Idle EXCEPT !.pc = "swap_status", !.ctx = id,
                                !.result = messages[id].status, !.buf = messages[id].buffer]]
            ELSE UNCHANGED <<swap, messages, local>>
  BY DEF gracht_client_get_status_buffer
<1>4. id \in owned[t] /\ Decided(id) /\ id \in DOMAIN messages /\ messages[id] \in Slot
  BY <1>1 DEF Contexts, Typed
<1>5. id \in 1 .. MaxId /\ Spent(id) /\ id \in Nat
  <2>1. id \in 1 .. MaxId
    BY <1>1, <1>4 DEF Typed
  <2>2. id \in Nat
    BY <2>1, ClientAssumption, SMTT(30)
  <2>3. QED
    BY <1>1, <1>4, <2>1, <2>2 DEF Ids
<1>6. PICK d : d = messages[id]
  OBVIOUS
<1>7. d.status \in Status /\ d.buffer \in Buffer \cup {NULL} /\ d \in Slot /\ d.status # "inprogress"
  BY <1>4, <1>6 DEF Slot, Decided
<1>8. d.status \in {"completed", "error"}
  BY <1>7 DEF Status
<1>9. PICK r : r = [Idle EXCEPT !.pc = "swap_status", !.ctx = id, !.result = d.status, !.buf = d.buffer]
  OBVIOUS
<1>10. /\ r \in Local /\ r.pc = "swap_status" /\ r.ctx = id /\ r.result = d.status /\ r.buf = d.buffer
       /\ r.ret = "idle" /\ r.stale = FALSE
  BY <1>5, <1>7, <1>9 DEF Idle, Local, Pc
<1>11. /\ swap' = d /\ messages' = Drop(messages, id) /\ local' = [local EXCEPT ![t] = r]
  BY <1>3, <1>4, <1>6, <1>9
<1>12. Moves(t) /\ local'[t] = r
  BY <1>1, <1>10, <1>11, Moved
<1>13. DOMAIN messages' = DOMAIN messages \ {id} /\ \A i \in DOMAIN messages' : messages'[i] = messages[i]
  BY <1>11 DEF Drop, Restrict
<1>14. /\ ready'[t] = ready[t] \ {id} /\ owned'[t] = owned[t] \ {id}
       /\ \A u \in Thread \ {t} : ready'[u] = ready[u] /\ owned'[u] = owned[u]
       /\ ready' \in [Thread -> SUBSET Nat] /\ owned' \in [Thread -> SUBSET Nat]
  BY <1>1, <1>3 DEF Typed
<1>15. /\ local[t].pc \notin AwaitPc \cup WaitPc \cup ReadPc \cup SendPc
       /\ r.pc \notin AwaitPc \cup WaitPc \cup SendPc
       /\ r.pc \in ReadPc
       /\ r.pc \notin {"handle", "mark", "touch", "scan", "cleanup", "swap_buffer"}
       /\ local[t].pc \notin {"handle", "mark", "touch", "scan", "cleanup"}
  BY <1>2, <1>10 DEF AwaitPc, WaitPc, ReadPc, SendPc
<1>16. ~InAwait(t) /\ ~InAwait(t)'
  <2>1. ~InAwait(t)
    BY <1>15, NotInAwait
  <2>2. QED
    BY <1>10, <1>12, <1>15, <2>1 DEF InAwait
<1>17. \A u \in Thread \ {t} : u \in Thread /\ id \notin owned[u] /\ local'[u] = local[u]
  BY <1>1, <1>4, <1>12 DEF Contexts, Moves
<1>18. \A i : i # id => (Decided(i)' <=> Decided(i))
  BY <1>13 DEF Decided
<1>19. \A i : InProgress(i) => InProgress(i)'
  BY <1>4, <1>13 DEF Decided, InProgress
<1>20. Typed'
  <2>1. /\ DOMAIN messages' \subseteq 1 .. MaxId
        /\ \A i \in DOMAIN messages' : messages'[i] \in Slot
    BY <1>1, <1>13 DEF Typed
  <2>2. local' \in [Thread -> Local] /\ swap' \in Slot
    BY <1>7, <1>11, <1>12 DEF Moves
  <2>3. QED
    BY <1>1, <1>2, <1>14, <2>1, <2>2 DEF Typed
<1>21. Ids'
  <2>1. \A u \in Thread : local'[u].pc \in SendPc => local'[u] = local[u]
    BY <1>12, <1>15 DEF Moves
  <2>2. \A i : Spent(i) => Spent(i)'
    BY <1>2, <2>1 DEF Spent, SendPc
  <2>3. (\A i \in DOMAIN messages : Spent(i))'
    BY <1>1, <1>13, <2>2 DEF Ids
  <2>4. (\A u \in Thread : local[u].pc \in ReadPc => Spent(local[u].ctx))'
    <3> SUFFICES ASSUME NEW u \in Thread, local'[u].pc \in ReadPc PROVE Spent(local[u].ctx)'
      OBVIOUS
    <3>1. CASE u = t
      <4>1. Spent(id)' /\ local'[u].ctx = id
        BY <1>5, <1>10, <1>12, <2>2, <3>1
      <4>2. QED
        BY <4>1
    <3>2. CASE u # t
      <4>1. PICK i : i = local[u].ctx
        OBVIOUS
      <4>2. Spent(i)' /\ local'[u].ctx = i
        BY <1>1, <1>17, <2>2, <3>2, <4>1 DEF Ids
      <4>3. QED
        BY <4>2
    <3>3. QED
      BY <3>1, <3>2
  <2>5. (\A u \in Thread :
          /\ local[u].pc \in {"id_load", "id_store"} => current_message_id \in 1 .. MaxId
          /\ local[u].pc = "id_store" => local[u].ctx = current_message_id
          /\ local[u].pc = "send" => local[u].ctx \in 1 .. MaxId /\ local[u].ctx < current_message_id)'
    BY <1>1, <1>2, <2>1 DEF Ids, SendPc
  <2>6. QED
    BY <2>3, <2>4, <2>5 DEF Ids
<1>22. Contexts'
  <2>1. ASSUME NEW u \in Thread
        PROVE  (/\ ready[u] \subseteq owned[u] /\ owned[u] \subseteq DOMAIN messages
                /\ \A i \in ready[u] : Decided(i)
                /\ InAwait(u) => local[u].ids \subseteq owned[u]
                /\ local[u].pc \in WaitPc /\ local[u].ctx # 0 => local[u].ctx \in owned[u]
                /\ local[u].pc \in ReadPc => local[u].ctx \notin DOMAIN messages)'
    <3>1. /\ ready[u] \subseteq owned[u] /\ owned[u] \subseteq DOMAIN messages
          /\ \A i \in ready[u] : Decided(i)
          /\ InAwait(u) => local[u].ids \subseteq owned[u]
          /\ local[u].pc \in WaitPc /\ local[u].ctx # 0 => local[u].ctx \in owned[u]
          /\ local[u].pc \in ReadPc => local[u].ctx \notin DOMAIN messages
      BY <1>1 DEF Contexts
    <3>2. CASE u = t
      <4>1. ready'[u] \subseteq owned'[u] /\ owned'[u] \subseteq DOMAIN messages'
        BY <1>13, <1>14, <3>1, <3>2
      <4>2. (\A i \in ready[u] : Decided(i))'
        BY <1>14, <1>18, <3>1, <3>2
      <4>3. local'[u].ctx \notin DOMAIN messages'
        BY <1>10, <1>12, <1>13, <3>2
      <4>4. QED
        BY <1>12, <1>15, <1>16, <3>2, <4>1, <4>2, <4>3
    <3>3. CASE u # t
      <4>1. ready'[u] = ready[u] /\ owned'[u] = owned[u] /\ local'[u] = local[u] /\ id \notin owned[u]
        BY <1>14, <1>17, <3>3
      <4>2. owned[u] \subseteq DOMAIN messages'
        BY <1>13, <3>1, <4>1
      <4>3. (\A i \in ready[u] : Decided(i))'
        BY <1>18, <3>1, <4>1
      <4>4. InAwait(u)' <=> InAwait(u)
        BY <4>1 DEF InAwait
      <4>5. local[u].pc \in ReadPc => local[u].ctx \notin DOMAIN messages'
        BY <1>13, <3>1
      <4>6. QED
        BY <3>1, <4>1, <4>2, <4>3, <4>4, <4>5
    <3>4. QED
      BY <3>2, <3>3
  <2>2. (\A u, v \in Thread : owned[u] \cap owned[v] # {} => u = v)'
    <3>1. \A u \in Thread : owned'[u] \subseteq owned[u]
      BY <1>14
    <3>2. \A u, v \in Thread : owned[u] \cap owned[v] # {} => u = v
      BY <1>1 DEF Contexts
    <3>3. QED
      BY <3>1, <3>2
  <2>3. (\A u, v \in Thread :
          {local[u].pc, local[v].pc} \subseteq ReadPc /\ local[u].ctx = local[v].ctx => u = v)'
    <3>1. \A u \in Thread \ {t} : local'[u].pc \in ReadPc => local'[u].ctx # id
      <4>1. \A u \in Thread : local[u].pc \in ReadPc => local[u].ctx \notin DOMAIN messages
        BY <1>1 DEF Contexts
      <4>2. QED
        BY <1>4, <1>17, <4>1, SMTT(30)
    <3>2. \A u, v \in Thread :
            {local[u].pc, local[v].pc} \subseteq ReadPc /\ local[u].ctx = local[v].ctx => u = v
      BY <1>1 DEF Contexts
    <3> SUFFICES ASSUME NEW u \in Thread, NEW v \in Thread, local'[u].pc \in ReadPc, local'[v].pc \in ReadPc,
                        local'[u].ctx = local'[v].ctx, u # v
                 PROVE  FALSE
      OBVIOUS
    <3>3. CASE u = t
      BY <1>10, <1>12, <3>1, <3>3
    <3>4. CASE v = t
      BY <1>10, <1>12, <3>1, <3>4
    <3>5. CASE u # t /\ v # t
      BY <1>17, <3>2, <3>5, SMTT(30)
    <3>6. QED
      BY <3>3, <3>4, <3>5
  <2>4. QED
    BY <2>1, <2>2, <2>3 DEF Contexts
<1>23. Answers'
  BY <1>1, <1>2, <1>12, <1>15, <1>19, AnswersKept
<1>24. Arrivals'
  BY <1>1, <1>2, <1>12, <1>15, ArrivalsKept
<1>25. Descriptors'
  <2>1. /\ d.status = "completed" => d.buffer \in Buffer /\ content[d.buffer].id = id
        /\ d.status = "error" => d.buffer = NULL /\ scenario.errors # 0
    <3>1. /\ d.status = "completed" => d.buffer \in Buffer /\ content[d.buffer].id = id
          /\ d.status # "completed" => d.buffer = NULL
          /\ d.status = "error" => scenario.errors # 0
      BY <1>1, <1>4, <1>6 DEF Descriptors
    <3>2. QED
      BY <3>1, SMTT(30)
  <2>2. (\A i \in DOMAIN messages :
          /\ messages[i].status = "completed" =>
                messages[i].buffer \in Buffer /\ content[messages[i].buffer].id = i
          /\ messages[i].status # "completed" => messages[i].buffer = NULL
          /\ messages[i].status = "error" => scenario.errors # 0)'
    BY <1>1, <1>2, <1>13 DEF Descriptors
  <2>3. (swap.status = "error" => swap.buffer = NULL /\ scenario.errors # 0)'
    BY <1>2, <1>11, <2>1
  <2>4. ASSUME NEW u \in Thread PROVE local'[u].pc # "swap_buffer"
    <3>1. CASE u = t
      BY <1>10, <1>12, <3>1, SMTT(30)
    <3>2. CASE u # t
      <4> SUFFICES ASSUME local[u].pc = "swap_buffer" PROVE FALSE
        BY <1>17, <3>2
      <4>1. scenario.errors # 0 /\ Role(u) /\ Disciplined(scenario)
        BY <1>1 DEF Descriptors, ClientInv, Typed
      <4>2. Uses(u, "status")
        BY <4>1 DEF Role, ReadPc
      <4>3. QED
        BY <1>2, <3>2, <4>1, <4>2 DEF Disciplined, Uses
    <3>3. QED
      BY <3>1, <3>2
  <2>5. (\A u \in Thread : local[u].pc \in ReadPc =>
          \/ local[u].result = "completed" /\ local[u].buf \in Buffer /\ content[local[u].buf].id = local[u].ctx
          \/ local[u].result = "error" /\ local[u].buf = NULL)'
    <3> SUFFICES ASSUME NEW u \in Thread, local'[u].pc \in ReadPc
                 PROVE  (\/ local[u].result = "completed" /\ local[u].buf \in Buffer /\ content[local[u].buf].id = local[u].ctx
                         \/ local[u].result = "error" /\ local[u].buf = NULL)'
      OBVIOUS
    <3>1. CASE u = t
      BY <1>2, <1>8, <1>10, <1>12, <2>1, <3>1
    <3>2. CASE u # t
      <4>1. local'[u] = local[u]
        BY <1>17, <3>2
      <4>2. \/ local[u].result = "completed" /\ local[u].buf \in Buffer /\ content[local[u].buf].id = local[u].ctx
            \/ local[u].result = "error" /\ local[u].buf = NULL
        BY <1>1, <4>1 DEF Descriptors
      <4>3. QED
        BY <1>2, <4>1, <4>2
    <3>3. QED
      BY <3>1, <3>2
  <2>6. QED
    BY <2>2, <2>3, <2>4, <2>5 DEF Descriptors
<1>26. Buffers'
  <2>1. local[t].buf = NULL
    BY <1>1, <1>15 DEF Locals, WaitPc
  <2>2. local'[t].buf = messages[id].buffer /\ \A u \in Thread \ {t} : local'[u].buf = local[u].buf
    BY <1>6, <1>10, <1>12, <1>17
  <2>3. QED
    BY <1>1, <1>2, <1>4, <1>13, <2>1, <2>2, BuffersCollected
<1>27. Awaits'
  <2>1. /\ \A i \in DOMAIN messages' : messages'[i].awaiter < current_awaiter_id
        /\ \A k \in DOMAIN awaiters : awaiters[k] \in Thread
    BY <1>1, <1>13 DEF Awaits, Typed
  <2>2. QED
    BY <1>1, <1>2, <1>12, <1>15, <1>16, <2>1, AwaitsKept
<1>28. ASSUME NEW u \in Thread \ {t} PROVE Role(u)' /\ Locals(u)' /\ Awaiting(u)'
  <2>1. local'[u] = local[u] /\ u \in Thread /\ id \notin owned[u]
    BY <1>17
  <2>2. Role(u)' /\ Locals(u)'
    BY <1>2, <1>18, <2>1, OtherKept
  <2>3. \A k : Marking(k)' = Marking(k)
    BY <1>12, <1>15, MarkingKept
  <2>4. Awaiting(u)'
    <3>1. CASE InAwait(u)
      <4>1. \A i \in local[u].ids : Decided(i)' <=> Decided(i)
        <5>1. local[u].ids \subseteq owned[u]
          BY <1>1, <2>1, <3>1 DEF Contexts
        <5>2. \A i \in local[u].ids : i # id
          BY <2>1, <5>1, SMTT(30)
        <5>3. QED
          BY <1>18, <5>2
      <4>2. \A i \in DOMAIN messages' : i \in DOMAIN messages /\ messages'[i].awaiter = messages[i].awaiter
        BY <1>13
      <4>3. awaiter'[u] = awaiter[u]
        BY <1>2
      <4>4. QED
        BY <2>1, <2>3, <4>1, <4>2, <4>3, AwaitingKept
    <3>2. CASE ~InAwait(u)
      <4>1. local'[u].pc \notin AwaitPc /\ ~InAwait(u)'
        BY <2>1, <3>2 DEF InAwait
      <4>2. local'[u].pc \notin {"scan", "cnd_wait", "asleep", "loop", "remove", "cleanup"}
        BY <4>1 DEF AwaitPc
      <4>3. QED
        BY <4>1, <4>2 DEF Awaiting
    <3>3. QED
      BY <3>1, <3>2
  <2>5. QED
    BY <2>2, <2>4
<1>29. Own(t)'
  <2>1. Role(t)'
    BY <1>2, <1>10, <1>12, <1>15, <1>16 DEF Role, Uses
  <2>2. Locals(t)'
    BY <1>10, <1>12, <1>15 DEF Locals
  <2>3. Awaiting(t)'
    <3>1. local'[t].pc \notin {"scan", "cnd_wait", "asleep", "loop", "remove", "cleanup"}
      BY <1>12, <1>15 DEF AwaitPc
    <3>2. QED
      BY <1>16, <3>1 DEF Awaiting
  <2>4. QED
    BY <2>1, <2>2, <2>3 DEF Own
<1>30. QED
  BY <1>20, <1>21, <1>22, <1>23, <1>24, <1>25, <1>26, <1>27, <1>28, <1>29, Together DEF Rest

\* The thread goes on with the result it took, while the slot the table's remove returned
\* may already hold another descriptor.
LEMMA SwapKeeps ==
    ASSUME ClientInv, NEW t \in Thread, SwapStatus(t) \/ SwapBuffer(t)
    PROVE  ClientInv'
<1> /\ Typed /\ Ids /\ Contexts /\ Answers /\ Arrivals /\ Descriptors /\ Buffers /\ Awaits /\ Role(t) /\ Locals(t)
    /\ local[t] \in Local
  BY DEF ClientInv, Typed
<1>1. PICK pc \in {"swap_buffer", "result"} :
         /\ Goto(t, pc)
         /\ pc = "swap_buffer" => swap.status = "error"
  BY DEF SwapStatus, SwapBuffer
<1> /\ local[t].pc \in {"swap_status", "swap_buffer"}
    /\ UNCHANGED <<current_message_id, current_awaiter_id, messages, swap, awaiters, awaiter, send_lock,
                   content, owned, ready, pending, incoming, open, scenario, events, errors>>
  BY DEF SwapStatus, SwapBuffer, At, clientVars, envVars
<1>2. UNCHANGED pool
  <2>1. CASE SwapStatus(t)
    BY <2>1 DEF SwapStatus, clientVars
  <2>2. CASE SwapBuffer(t)
    <3>1. swap.buffer = NULL
      BY <2>2 DEF SwapBuffer, At, Descriptors
    <3>2. QED
      BY <2>2, <3>1 DEF SwapBuffer
  <2>3. QED
    BY <2>1, <2>2
<1>3. PICK r : r = [local[t] EXCEPT !.pc = pc]
  OBVIOUS
<1> /\ r \in Local /\ r.pc = pc /\ r.ctx = local[t].ctx /\ r.ret = local[t].ret /\ r.buf = local[t].buf
    /\ r.stale = local[t].stale /\ r.result = local[t].result
  BY <1>1, <1>3 DEF Local, Pc
<1> Moves(t) /\ local'[t] = r
  BY <1>1, <1>3, Moved DEF Goto
<1> /\ local[t].pc \notin AwaitPc \cup WaitPc \cup SendPc /\ local[t].pc \in ReadPc
    /\ r.pc \notin AwaitPc \cup WaitPc \cup SendPc /\ r.pc \in ReadPc
    /\ r.pc \notin {"handle", "mark", "touch", "scan", "cleanup"}
    /\ local[t].pc \notin {"handle", "mark", "touch", "scan", "cleanup"}
  BY <1>1 DEF AwaitPc, WaitPc, ReadPc, SendPc
<1> ~InAwait(t) /\ ~InAwait(t)' /\ r.ret = "idle"
  <2>1. ~InAwait(t) /\ local[t].ret = "idle"
    BY NotInAwait
  <2>2. QED
    BY <2>1 DEF InAwait
<1>4. SameSlots
  BY DEF SameSlots
<1>5. \A i : (Decided(i)' <=> Decided(i)) /\ (InProgress(i)' <=> InProgress(i))
  BY DEF Decided, InProgress
<1>6. Typed'
  BY <1>2 DEF Typed, Moves
<1>7. Ids'
  BY IdsKept
<1>8. Contexts'
  <2>1. \A u \in Thread : ready'[u] \subseteq owned[u] /\ \A i \in ready'[u] : Decided(i)'
    BY <1>5 DEF Contexts
  <2>2. QED
    BY <2>1, ContextsKept
<1>9. Answers'
  BY <1>5, AnswersKept
<1>10. Arrivals'
  BY ArrivalsKept
<1>11. Descriptors'
  <2>1. local'[t].pc = "swap_buffer" => swap.buffer = NULL /\ scenario.errors # 0
    BY <1>1 DEF Descriptors
  <2>2. QED
    BY <1>4, <2>1, DescriptorsKept
<1>12. Buffers'
  BY <1>2, <1>4, BuffersKept
<1>13. Awaits'
  <2>1. /\ \A i \in DOMAIN messages' : messages'[i].awaiter < current_awaiter_id
        /\ \A k \in DOMAIN awaiters : awaiters[k] \in Thread
    BY DEF Awaits, Typed
  <2>2. QED
    BY <2>1, AwaitsKept
<1>14. ASSUME NEW u \in Thread \ {t} PROVE Role(u)' /\ Locals(u)' /\ Awaiting(u)'
  <2>1. local'[u] = local[u] /\ u \in Thread
    BY DEF Moves
  <2>2. Role(u)' /\ Locals(u)'
    BY <1>5, <2>1, OtherKept
  <2>3. \A k : Marking(k)' = Marking(k)
    BY MarkingKept
  <2>4. Awaiting(u)'
    BY <1>5, <2>1, <2>3, AwaitingKept
  <2>5. QED
    BY <2>2, <2>4
<1>15. Own(t)'
  <2>1. Role(t)'
    <3>1. Uses(t, "status")
      BY DEF Role
    <3>2. QED
      BY <3>1 DEF Role, Uses
  <2>2. Locals(t)'
    <3>1. local[t].stale => local[t].buf = NULL
      BY DEF Locals
    <3>2. QED
      BY <3>1 DEF Locals
  <2>3. Awaiting(t)'
    <3>1. local'[t].pc \notin {"scan", "cnd_wait", "asleep", "loop", "remove", "cleanup"}
      BY DEF AwaitPc
    <3>2. QED
      BY <3>1 DEF Awaiting
  <2>4. QED
    BY <2>1, <2>2, <2>3 DEF Own
<1>16. QED
  BY <1>6, <1>7, <1>8, <1>9, <1>10, <1>11, <1>12, <1>13, <1>14, <1>15, Together DEF Rest

\* gracht_client_status_finalize gives the buffer of a completed result back.
LEMMA FinalizeKeeps ==
    ASSUME ClientInv, NEW t \in Thread, gracht_client_status_finalize(t)
    PROVE  ClientInv'
<1> Typed /\ Contexts /\ Descriptors /\ Buffers
  BY DEF ClientInv
<1>1. /\ local[t].pc = "result" /\ local' = [local EXCEPT ![t] = Idle]
      /\ UNCHANGED <<current_message_id, current_awaiter_id, messages, swap, awaiters, awaiter, send_lock,
                     content, owned, ready, pending, incoming, open, scenario, events, errors>>
  BY DEF gracht_client_status_finalize, At, envVars
<1>2. pool' = IF local[t].result = "completed" THEN pool \cup {local[t].buf} ELSE pool
  BY DEF gracht_client_status_finalize
<1>3. \/ local[t].result = "completed" /\ local[t].buf \in Buffer
      \/ local[t].result = "error" /\ local[t].buf = NULL
  BY <1>1 DEF Descriptors, ReadPc
<1>4. /\ pool' = IF local[t].buf = NULL THEN pool ELSE pool \cup {local[t].buf}
      /\ pool' \subseteq Buffer
  <2>1. NULL \notin Buffer /\ pool \subseteq Buffer
    BY ClientAssumption DEF Typed
  <2>2. QED
    BY <1>2, <1>3, <2>1, SMTT(30)
<1>5. PICK r : r = Idle
  OBVIOUS
<1> /\ r \in Local /\ r.pc = "idle" /\ r.ctx = 0 /\ r.buf = NULL /\ r.ret = "idle" /\ r.stale = FALSE
  BY <1>5, SMTT(30) DEF Idle, Local, Pc, Status
<1>6. local' = [local EXCEPT ![t] = r]
  BY <1>1, <1>5
<1> Moves(t) /\ local'[t] = r
  BY <1>6, Moved
<1> /\ local[t].pc \notin AwaitPc \cup WaitPc \cup {"mark", "touch", "scan", "cleanup"}
    /\ r.pc \notin AwaitPc \cup WaitPc \cup SendPc \cup ReadPc \cup {"handle", "mark", "touch", "scan", "cleanup"}
  BY <1>1 DEF AwaitPc, WaitPc, SendPc, ReadPc
<1>7. ~InAwait(t)
  BY NotInAwait
<1>8. Buffers'
  <2>1. SameSlots /\ local'[t].buf = NULL
    BY <1>1 DEF SameSlots
  <2>2. QED
    BY <1>4, <2>1, BuffersReleased
<1>9. ReadyOK'
  <2>1. \A id : Decided(id) => Decided(id)'
    BY <1>1 DEF Decided
  <2>2. QED
    BY <1>1, <2>1, ReadySame
<1>10. r.pc \in AwaitPc \/ r.ret = "recount" <=> InAwait(t)
  BY <1>7, SMTT(30)
<1> Rest(t)' /\ ~InAwait(t)'
  BY <1>1, <1>4, <1>6, <1>7, <1>8, <1>9, <1>10, QuietStep
<1>11. Role(t)' /\ Locals(t)'
  BY DEF Role, Locals
<1>12. Awaiting(t)'
  <2>1. local'[t].pc \notin {"scan", "cnd_wait", "asleep", "loop", "remove", "cleanup"}
    BY DEF AwaitPc
  <2>2. QED
    BY <2>1 DEF Awaiting
<1>13. QED
  BY <1>11, <1>12, Together DEF Own

----------------------------------------------------------------------------
(* The requests and answers of RemoteCalls                                 *)

\* In the states of the client a request is as visible as that.
LEMMA AllVisible == ClientInv => \A id : Visible(id)
<1> SUFFICES ASSUME ClientInv, NEW id PROVE Visible(id)
  OBVIOUS
<1> Typed /\ Contexts /\ Descriptors
  BY DEF ClientInv
<1>1. ASSUME id \in DOMAIN messages
      PROVE  /\ Phase(id) = IF messages[id].status = "inprogress" THEN "pending" ELSE "answered"
             /\ AnswerTo(id) = Outcome(id, messages[id].status)
  <2>1. PICK d : d = messages[id]
    OBVIOUS
  <2>2. d.status \in {"inprogress", "completed", "error"}
    BY <1>1, <2>1 DEF Typed, Slot, Status
  <2>3. d.status = "completed" => content[d.buffer].id = id
    BY <1>1, <2>1 DEF Descriptors
  <2>4. Phase(id) = IF d.status = "inprogress" THEN "pending" ELSE "answered"
    BY <1>1, <2>1, <2>2, SMTT(30) DEF Phase, Executed
  <2>5. AnswerTo(id) = Answer(d.status, d.buffer)
    BY <1>1, <2>1 DEF AnswerTo
  <2>6. Answer(d.status, d.buffer) = Outcome(id, d.status)
    BY <2>2, <2>3, SMTT(30) DEF Answer, Outcome
  <2>7. QED
    BY <2>1, <2>4, <2>5, <2>6
<1>2. ASSUME NEW t \in Reading(id)
      PROVE  /\ id \notin DOMAIN messages /\ Phase(id) = "reading" /\ AnswerTo(id) = Outcome(id, local[t].result)
             /\ Reading(id) = {t}
  <2>1. t \in Thread /\ local[t].pc \in ReadPc /\ local[t].ctx = id
    BY <1>2 DEF Reading, ReadPc
  <2>2. id \notin DOMAIN messages
    BY <2>1 DEF Contexts
  <2>3. \/ local[t].result = "completed" /\ content[local[t].buf].id = id
        \/ local[t].result = "error"
    BY <2>1 DEF Descriptors
  <2>4. \A u \in Reading(id) : u = t
    <3> SUFFICES ASSUME NEW u \in Reading(id) PROVE u = t
      OBVIOUS
    <3>1. u \in Thread /\ local[u].pc \in ReadPc /\ local[u].ctx = id
      BY DEF Reading, ReadPc
    <3>2. {local[u].pc, local[t].pc} \subseteq ReadPc /\ local[u].ctx = local[t].ctx
      BY <2>1, <3>1
    <3>3. QED
      BY <2>1, <3>1, <3>2 DEF Contexts
  <2>5. Reading(id) = {t} /\ Reading(id) # {}
    BY <1>2, <2>4
  <2>6. AnswerTo(id) = Answer(local[t].result, local[t].buf)
    <3>1. (CHOOSE u \in Reading(id) : TRUE) = t
      BY <1>2, <2>4
    <3>2. QED
      BY <2>2, <2>5, <3>1 DEF AnswerTo
  <2>7. Answer(local[t].result, local[t].buf) = Outcome(id, local[t].result)
    BY <2>3, SMTT(30) DEF Answer, Outcome
  <2>8. QED
    BY <2>2, <2>5, <2>6, <2>7 DEF Phase
<1>3. ASSUME id \notin DOMAIN messages, Reading(id) = {} PROVE Phase(id) = "none" /\ AnswerTo(id) = 0
  BY <1>3 DEF Phase, AnswerTo
<1>4. QED
  BY <1>1, <1>2, <1>3 DEF Visible

\* A request that is where it was looks the same.
LEMMA SameView ==
    ASSUME NEW id, Visible(id), Visible(id)', Stays(id)
    PROVE  Phase(id)' = Phase(id) /\ AnswerTo(id)' = AnswerTo(id)
<1>1. \A s : Outcome(id, s)' = Outcome(id, s)
  BY DEF Outcome
<1>2. CASE id \in DOMAIN messages
  BY <1>1, <1>2 DEF Visible, Stays
<1>3. CASE Reading(id) # {}
  <2>1. PICK t : t \in Reading(id) /\ t \in Reading(id)' /\ local'[t].result = local[t].result
    BY <1>3 DEF Stays
  <2>2. Phase(id) = "reading" /\ Phase(id)' = "reading"
    BY <2>1 DEF Visible
  <2>3. AnswerTo(id) = Outcome(id, local[t].result)
    BY <2>1 DEF Visible
  <2>4. AnswerTo(id)' = Outcome(id, local'[t].result)
    BY <2>1 DEF Visible, Outcome
  <2>5. QED
    BY <2>1, <2>2, <2>3, <2>4
<1>4. CASE id \notin DOMAIN messages /\ Reading(id) = {}
  BY <1>4 DEF Visible, Stays
<1>5. QED
  BY <1>2, <1>3, <1>4

\* Such a step leaves every request where it was.
LEMMA StillStays ==
    ASSUME Still, NEW id
    PROVE  Stays(id)
<1>1. \A t : t \in Reading(id) <=> t \in Thread /\ local[t].pc \in ReadPc /\ local[t].ctx = id
  BY DEF Reading, ReadPc
<1>2. \A t : t \in Reading(id)' <=> t \in Thread /\ local'[t].pc \in ReadPc /\ local'[t].ctx = id
  BY DEF Reading, ReadPc
<1>3. \A t : t \in Reading(id)' <=> t \in Reading(id)
  BY <1>1, <1>2 DEF Still
<1>4. Reading(id)' = Reading(id)
  BY <1>3
<1>5. \A t \in Reading(id) : local'[t].result = local[t].result
  BY <1>1 DEF Still
<1>6. QED
  BY <1>4, <1>5 DEF Still, Stays

\* A thread that collects nothing moves, and the descriptors keep their status.
LEMMA StillMove ==
    ASSUME Typed, NEW t \in Thread, NEW r, local' = [local EXCEPT ![t] = r],
           r.pc \notin ReadPc, local[t].pc \notin ReadPc, DOMAIN messages' = DOMAIN messages,
           \A id \in DOMAIN messages : messages'[id].status = messages[id].status
    PROVE  Still
<1>1. local'[t] = r /\ \A u \in Thread \ {t} : local'[u] = local[u]
  BY DEF Typed
<1>2. QED
  BY <1>1 DEF Still

\* The same for a jump.
LEMMA StillGoto ==
    ASSUME Typed, NEW t \in Thread, NEW pc, Goto(t, pc), pc \notin ReadPc, local[t].pc \notin ReadPc,
           UNCHANGED messages
    PROVE  Still
<1>1. PICK r : r = [local[t] EXCEPT !.pc = pc]
  OBVIOUS
<1>2. r.pc = pc
  <2>1. local[t] \in Local
    BY DEF Typed
  <2>2. QED
    BY <1>1, <2>1 DEF Local
<1>3. local' = [local EXCEPT ![t] = r]
  BY <1>1 DEF Goto
<1>4. QED
  BY <1>2, <1>3, StillMove

\* The same for the end of gracht_client_wait_message.
LEMMA StillReturn ==
    ASSUME Typed, NEW t \in Thread, NEW status, Return(t, status), local[t].pc \notin ReadPc, UNCHANGED messages
    PROVE  Still
<1>1. PICK r : r = IF local[t].ret = "idle" THEN Idle
                   ELSE [Idle EXCEPT !.pc = local[t].ret, !.ids = local[t].ids, !.all = local[t].all]
  OBVIOUS
<1>2. local[t].ret \in {"idle", "recount"}
  BY DEF Typed, Local
<1>3. r.pc \in {"idle", "recount"}
  BY <1>1, <1>2, SMTT(30) DEF Idle
<1>4. local' = [local EXCEPT ![t] = r]
  BY <1>1 DEF Return
<1>5. r.pc \notin ReadPc
  BY <1>3 DEF ReadPc
<1>6. QED
  BY <1>4, <1>5, StillMove

\* Taking an identifier is still.
LEMMA SendStill ==
    ASSUME ClientInv, NEW t \in Thread, gracht_client_get_buffer(t) \/ LoadMessageId(t) \/ StoreMessageId(t)
    PROVE  Still
<1> Typed /\ local[t] \in Local
  BY DEF ClientInv, Typed
<1>1. \A pc \in {"idle", "id_load", "id_store", "send"} : pc \notin ReadPc
  BY DEF ReadPc
<1>2. CASE gracht_client_get_buffer(t)
  BY <1>1, <1>2, StillGoto DEF gracht_client_get_buffer, At
<1>3. CASE StoreMessageId(t)
  BY <1>1, <1>3, StillGoto DEF StoreMessageId, At
<1>4. CASE LoadMessageId(t)
  <2>1. PICK r : r = [local[t] EXCEPT !.pc = "id_store", !.ctx = current_message_id]
    OBVIOUS
  <2>2. r.pc = "id_store" /\ local' = [local EXCEPT ![t] = r] /\ UNCHANGED messages /\ local[t].pc = "id_load"
    BY <1>4, <2>1 DEF LoadMessageId, Local, At, clientVars
  <2>3. QED
    BY <1>1, <2>2, StillMove
<1>5. QED
  BY <1>2, <1>3, <1>4

\* gracht_client_wait_message is still except where it decides a message.
LEMMA WaitStill ==
    ASSUME ClientInv, NEW t \in Thread,
           \/ gracht_client_wait_message(t) \/ CheckStatus(t) \/ LockWait(t) \/ PeekFails(t) \/ NoBuffer(t)
           \/ Receive(t) \/ ReceiveFails(t) \/ HandleEvent(t) \/ mark_awaiters(t) \/ ListenOrExit(t)
    PROVE  Still
<1> Typed /\ local[t] \in Local /\ UNCHANGED messages
  BY DEF ClientInv, Typed, gracht_client_wait_message, CheckStatus, LockWait, PeekFails, NoBuffer, Receive,
     ReceiveFails, HandleEvent, mark_awaiters, ListenOrExit, clientVars
<1>1. \A pc \in {"idle", "check", "lock", "recv", "handle", "mark", "touch", "exit"} : pc \notin ReadPc
  BY DEF ReadPc
<1>2. local[t].pc \in {"idle", "check", "lock", "recv", "handle", "mark", "touch", "exit"}
  BY DEF gracht_client_wait_message, CheckStatus, LockWait, PeekFails, NoBuffer, Receive, ReceiveFails, HandleEvent,
     mark_awaiters, ListenOrExit, At
<1> local[t].pc \notin ReadPc
  BY <1>1, <1>2
<1>3. CASE gracht_client_wait_message(t)
  <2>1. ASSUME NEW id, NEW block,
               local' = [local EXCEPT ![t] = [Idle EXCEPT !.pc = "check", !.ctx = id, !.block = block]]
        PROVE  Still
    <3>1. PICK r : r = [Idle EXCEPT !.pc = "check", !.ctx = id, !.block = block]
      OBVIOUS
    <3>2. r.pc = "check"
      BY <3>1 DEF Idle
    <3>3. local' = [local EXCEPT ![t] = r]
      BY <2>1, <3>1
    <3>4. QED
      BY <1>1, <3>2, <3>3, StillMove
  <2>2. ASSUME NEW block,
               local' = [local EXCEPT ![t] = [Idle EXCEPT !.pc = "lock", !.block = block]]
        PROVE  Still
    <3>1. PICK r : r = [Idle EXCEPT !.pc = "lock", !.block = block]
      OBVIOUS
    <3>2. r.pc = "lock"
      BY <3>1 DEF Idle
    <3>3. local' = [local EXCEPT ![t] = r]
      BY <2>2, <3>1
    <3>4. QED
      BY <1>1, <3>2, <3>3, StillMove
  <2>3. QED
    BY <1>3, <2>1, <2>2 DEF gracht_client_wait_message
<1>4. CASE CheckStatus(t)
  BY <1>1, <1>4, StillGoto, StillReturn DEF CheckStatus
<1>5. CASE LockWait(t)
  BY <1>1, <1>5, StillGoto, StillReturn DEF LockWait
<1>6. CASE PeekFails(t) \/ NoBuffer(t) \/ ReceiveFails(t)
  <2>1. PICK b, stale : local' = [local EXCEPT ![t].pc = "exit", ![t].status = -1, ![t].buf = b, ![t].stale = stale]
    BY <1>6 DEF PeekFails, NoBuffer, ReceiveFails, FailWait
  <2>2. PICK r : r = [local[t] EXCEPT !.pc = "exit", !.status = -1, !.buf = b, !.stale = stale]
    OBVIOUS
  <2>3. r.pc = "exit" /\ local' = [local EXCEPT ![t] = r]
    BY <2>1, <2>2 DEF Local
  <2>4. QED
    BY <1>1, <2>3, StillMove
<1>7. CASE Receive(t)
  <2>1. PICK b : local' = [local EXCEPT ![t].pc = "handle", ![t].buf = b, ![t].stale = FALSE]
    BY <1>7 DEF Receive
  <2>2. PICK r : r = [local[t] EXCEPT !.pc = "handle", !.buf = b, !.stale = FALSE]
    OBVIOUS
  <2>3. r.pc = "handle" /\ local' = [local EXCEPT ![t] = r]
    BY <2>1, <2>2 DEF Local
  <2>4. QED
    BY <1>1, <2>3, StillMove
<1>8. CASE HandleEvent(t)
  <2>1. PICK status : local' = [local EXCEPT ![t].pc = "exit", ![t].status = status]
    BY <1>8 DEF HandleEvent
  <2>2. PICK r : r = [local[t] EXCEPT !.pc = "exit", !.status = status]
    OBVIOUS
  <2>3. r.pc = "exit" /\ local' = [local EXCEPT ![t] = r]
    BY <2>1, <2>2 DEF Local
  <2>4. QED
    BY <1>1, <2>3, StillMove
<1>9. CASE mark_awaiters(t)
  <2>1. PICK r : r = IF local[t].mark \in DOMAIN awaiters
                     THEN [local[t] EXCEPT !.pc = "touch", !.ptr = awaiters[local[t].mark]]
                     ELSE [local[t] EXCEPT !.pc = "exit", !.mark = 0]
    OBVIOUS
  <2>2. r.pc \in {"touch", "exit"}
    BY <2>1 DEF Local
  <2>3. local' = [local EXCEPT ![t] = r]
    BY <1>9, <2>1 DEF mark_awaiters
  <2>4. QED
    BY <1>1, <2>2, <2>3, StillMove
<1>10. CASE ListenOrExit(t)
  <2>1. CASE local' = [local EXCEPT ![t].pc = "check", ![t].stale = TRUE]
    <3>1. PICK r : r = [local[t] EXCEPT !.pc = "check", !.stale = TRUE]
      OBVIOUS
    <3>2. r.pc = "check" /\ local' = [local EXCEPT ![t] = r]
      BY <2>1, <3>1 DEF Local
    <3>3. QED
      BY <1>1, <3>2, StillMove
  <2>2. CASE Return(t, local[t].status)
    BY <2>2, StillReturn
  <2>3. QED
    BY <1>10, <2>1, <2>2 DEF ListenOrExit
<1>11. QED
  BY <1>3, <1>4, <1>5, <1>6, <1>7, <1>8, <1>9, <1>10

\* mark_awaiters moves two threads, neither of which is collecting.
LEMMA TouchStill ==
    ASSUME ClientInv, NEW t \in Thread, TouchAwaiter(t)
    PROVE  Still
<1> Typed /\ local \in [Thread -> Local] /\ UNCHANGED messages /\ local[t].pc = "touch"
  BY DEF ClientInv, Typed, TouchAwaiter, At
<1>1. "touch" \notin ReadPc /\ "asleep" \notin ReadPc /\ "exit" \notin ReadPc /\ "remove" \notin ReadPc
  BY DEF ReadPc
<1>2. ASSUME NEW v \in Thread
      PROVE  local'[v] = local[v] \/ (local[v].pc \notin ReadPc /\ local'[v].pc \notin ReadPc)
  <2>1. CASE v = t
    <3>1. local'[v] = [local[t] EXCEPT !.pc = "exit", !.mark = 0, !.ptr = NULL]
      BY <2>1 DEF TouchAwaiter
    <3>2. local'[v].pc = "exit"
      <4>1. local[t] \in Local
        OBVIOUS
      <4>2. QED
        BY <3>1, <4>1 DEF Local
    <3>3. QED
      BY <1>1, <2>1, <3>2
  <2>2. CASE v # t
    <3>1. local'[v] = local[v] \/ (local[v].pc = "asleep" /\ local'[v] = [local[v] EXCEPT !.pc = "remove"])
      BY <2>2 DEF TouchAwaiter, At
    <3>2. [local[v] EXCEPT !.pc = "remove"].pc = "remove"
      BY DEF Local
    <3>3. QED
      BY <1>1, <3>1, <3>2
  <2>3. QED
    BY <2>1, <2>2
<1>3. QED
  BY <1>2 DEF Still

\* gracht_client_await_multiple is still.
LEMMA AwaitStill ==
    ASSUME ClientInv, NEW t \in Thread, Await(t) \/ AwaiterNew(t) \/ SpuriousWakeUp(t)
    PROVE  Still
<1> Typed /\ local[t] \in Local
  BY DEF ClientInv, Typed
<1>1. \A pc \in AwaitPc \cup {"idle", "lock"} : pc \notin ReadPc
  BY DEF ReadPc, AwaitPc
<1>2. local[t].pc \in AwaitPc \cup {"idle"}
  BY DEF Await, AwaiterNew, SpuriousWakeUp, gracht_client_await_multiple, CndWait, AwaitLoop, Recount, AwaitRemove,
     AwaitCleanup, At, AwaitPc
<1> local[t].pc \notin ReadPc
  BY <1>1, <1>2
<1>3. CASE AwaiterNew(t)
  <2>1. PICK all \in BOOLEAN, async \in BOOLEAN :
           local' = [local EXCEPT ![t] = [Idle EXCEPT !.pc = "scan", !.ids = owned[t], !.all = all, !.async = async]]
    BY <1>3 DEF AwaiterNew
  <2>2. PICK r : r = [Idle EXCEPT !.pc = "scan", !.ids = owned[t], !.all = all, !.async = async]
    OBVIOUS
  <2>3. r.pc = "scan" /\ UNCHANGED messages /\ "scan" \in AwaitPc
    BY <1>3, <2>2 DEF Idle, AwaiterNew, AwaitPc
  <2>4. QED
    BY <1>1, <2>1, <2>2, <2>3, StillMove
<1>4. CASE gracht_client_await_multiple(t)
  <2>1. PICK pc \in {"cleanup", "cnd_wait", "loop"} : Goto(t, pc)
    BY <1>4 DEF gracht_client_await_multiple
  <2>2. PICK r : r = [local[t] EXCEPT !.pc = pc]
    OBVIOUS
  <2>3. r.pc = pc /\ local' = [local EXCEPT ![t] = r] /\ pc \in AwaitPc
    BY <2>1, <2>2 DEF Local, Goto, AwaitPc
  <2>4. messages' = [id \in DOMAIN messages |->
            IF id \in local[t].ids THEN [messages[id] EXCEPT !.awaiter = awaiter[t].id] ELSE messages[id]]
    BY <1>4 DEF gracht_client_await_multiple
  <2>5. \A id \in DOMAIN messages : messages[id] \in Slot
    BY DEF Typed
  <2>6. DOMAIN messages' = DOMAIN messages /\ \A id \in DOMAIN messages : messages'[id].status = messages[id].status
    BY <2>4, <2>5 DEF Slot
  <2>7. QED
    BY <1>1, <2>3, <2>6, StillMove
<1>5. CASE CndWait(t) \/ SpuriousWakeUp(t) \/ Recount(t) \/ AwaitRemove(t)
  <2>1. PICK pc \in {"asleep", "remove", "loop", "cleanup"} : Goto(t, pc)
    BY <1>5 DEF CndWait, SpuriousWakeUp, Recount, AwaitRemove
  <2>2. UNCHANGED messages /\ pc \in AwaitPc
    BY <1>5, <2>1 DEF CndWait, SpuriousWakeUp, Recount, AwaitRemove, clientVars, AwaitPc
  <2>3. QED
    BY <1>1, <2>1, <2>2, StillGoto
<1>6. CASE AwaitLoop(t)
  <2>1. PICK r : r = IF awaiter[t].current < awaiter[t].count
                     THEN [local[t] EXCEPT !.pc = "lock", !.block = TRUE, !.ret = "recount"]
                     ELSE [local[t] EXCEPT !.pc = "remove"]
    OBVIOUS
  <2>2. r.pc = "lock" \/ (r.pc = "remove" /\ "remove" \in AwaitPc)
    BY <2>1 DEF Local, AwaitPc
  <2>3. local' = [local EXCEPT ![t] = r] /\ UNCHANGED messages
    BY <1>6, <2>1 DEF AwaitLoop, clientVars
  <2>4. QED
    BY <1>1, <2>2, <2>3, StillMove
<1>7. CASE AwaitCleanup(t)
  <2>1. Idle.pc = "idle" /\ local' = [local EXCEPT ![t] = Idle] /\ UNCHANGED messages
    BY <1>7 DEF Idle, AwaitCleanup
  <2>2. QED
    BY <1>1, <2>1, StillMove
<1>8. QED
  BY <1>3, <1>4, <1>5, <1>6, <1>7 DEF Await

\* A thread that goes on with its result is still.
LEMMA SwapStill ==
    ASSUME ClientInv, NEW t \in Thread, SwapStatus(t) \/ SwapBuffer(t)
    PROVE  Still
<1> Typed /\ local[t] \in Local /\ UNCHANGED messages /\ local[t].pc \in ReadPc
  BY DEF ClientInv, Typed, SwapStatus, SwapBuffer, clientVars, At, ReadPc
<1>1. PICK pc \in {"swap_buffer", "result"} : Goto(t, pc)
  BY DEF SwapStatus, SwapBuffer
<1>2. PICK r : r = [local[t] EXCEPT !.pc = pc]
  OBVIOUS
<1>3. r.pc \in ReadPc /\ r.ctx = local[t].ctx /\ r.result = local[t].result
  BY <1>1, <1>2 DEF Local, ReadPc
<1>4. local' = [local EXCEPT ![t] = r]
  BY <1>1, <1>2 DEF Goto
<1>5. local'[t] = r /\ \A u \in Thread \ {t} : local'[u] = local[u]
  BY <1>4 DEF Typed
<1>6. QED
  BY <1>3, <1>5 DEF Still

\* One thread moves, one request is its business.
LEMMA OthersStay ==
    ASSUME NEW t \in Thread, NEW c, \A u \in Thread \ {t} : local'[u] = local[u],
           local[t].pc \in ReadPc => local[t].ctx = c, local'[t].pc \in ReadPc => local'[t].ctx = c,
           \A id : id # c => (id \in DOMAIN messages' <=> id \in DOMAIN messages),
           \A id \in DOMAIN messages : id # c => messages'[id].status = messages[id].status,
           \A id : Visible(id), (\A id : Visible(id))'
    PROVE  \A id : id # c => Phase(id)' = Phase(id) /\ AnswerTo(id)' = AnswerTo(id)
<1> SUFFICES ASSUME NEW id, id # c PROVE Phase(id)' = Phase(id) /\ AnswerTo(id)' = AnswerTo(id)
  OBVIOUS
<1>1. \A u : u \in Reading(id) <=> u \in Thread /\ local[u].pc \in ReadPc /\ local[u].ctx = id
  BY DEF Reading, ReadPc
<1>2. \A u : u \in Reading(id)' <=> u \in Thread /\ local'[u].pc \in ReadPc /\ local'[u].ctx = id
  BY DEF Reading, ReadPc
<1>3. \A u : u \in Reading(id)' <=> u \in Reading(id)
  <2>1. t \notin Reading(id) /\ t \notin Reading(id)'
    BY <1>1, <1>2
  <2>2. \A u : u # t => (u \in Reading(id)' <=> u \in Reading(id))
    BY <1>1, <1>2, SMTT(30)
  <2>3. QED
    BY <2>1, <2>2
<1>4. Reading(id)' = Reading(id)
  BY <1>3
<1>5. \A u \in Reading(id) : local'[u].result = local[u].result
  BY <1>1
<1>6. Stays(id)
  BY <1>4, <1>5 DEF Stays
<1>7. Visible(id) /\ Visible(id)'
  OBVIOUS
<1>8. QED
  BY <1>6, <1>7, SameView

\* gracht_client_invoke_internal issues its request, or leaves nothing of it.
LEMMA InvokeIssues ==
    ASSUME ClientInv, NEW t \in Thread, gracht_client_invoke_internal(t),
           \A id : Visible(id), (\A id : Visible(id))'
    PROVE  Still \/ \E c \in 1 .. MaxId : Turn(c, "none", "pending", 0)
<1> Typed /\ Ids
  BY DEF ClientInv
<1>1. PICK id : id = local[t].ctx
  OBVIOUS
<1> local[t].pc = "send" /\ id \in 1 .. MaxId
  BY <1>1 DEF gracht_client_invoke_internal, At, Ids
<1>2. id \notin DOMAIN messages /\ \A u \in Thread : local[u].pc \in ReadPc => local[u].ctx # id
  <2>1. \A i : Spent(i) => i # id
    BY <1>1 DEF Spent
  <2>2. QED
    BY <2>1 DEF Ids
<1>3. local' = [local EXCEPT ![t] = Idle] /\ Idle.pc = "idle"
  BY DEF gracht_client_invoke_internal, Idle
<1>4. local'[t].pc = "idle" /\ \A u \in Thread \ {t} : local'[u] = local[u]
  BY <1>3 DEF Typed
<1>5. local[t].pc \notin ReadPc /\ local'[t].pc \notin ReadPc /\ Idle.pc \notin ReadPc
  BY <1>3, <1>4 DEF ReadPc
<1>6. CASE ~open
  <2>1. messages' = Drop(messages, id)
    BY <1>1, <1>6 DEF gracht_client_invoke_internal
  <2>2. DOMAIN messages \ {id} = DOMAIN messages
    BY <1>2
  <2>3. /\ DOMAIN messages' = DOMAIN messages
        /\ \A i \in DOMAIN messages : messages'[i].status = messages[i].status
    BY <2>1, <2>2 DEF Drop, Restrict
  <2>4. QED
    BY <1>3, <1>5, <2>3, StillMove
<1>7. CASE open
  <2>1. messages' = Put(messages, id, Empty)
    BY <1>1, <1>7 DEF gracht_client_invoke_internal
  <2>2. /\ DOMAIN messages' = DOMAIN messages \cup {id} /\ messages'[id] = Empty
        /\ \A i \in DOMAIN messages : messages'[i].status = messages[i].status
    BY <1>2, <2>1 DEF Put
  <2>3. Reading(id) = {}
    BY <1>2 DEF Reading, ReadPc
  <2>4. Visible(id) /\ Visible(id)'
    OBVIOUS
  <2>5. Phase(id) = "none"
    BY <1>2, <2>3, <2>4 DEF Visible
  <2>6. id \in DOMAIN messages' /\ messages'[id].status = "inprogress"
    <3>1. Empty.status = "inprogress"
      BY SMTT(30) DEF Empty
    <3>2. QED
      BY <2>2, <3>1
  <2>7. Outcome(id, "inprogress") = 0
    BY SMTT(30) DEF Outcome
  <2>8. Phase(id)' = "pending" /\ AnswerTo(id)' = 0
    BY <2>4, <2>6, <2>7 DEF Visible, Outcome
  <2>9. \A i : i # id => (i \in DOMAIN messages' <=> i \in DOMAIN messages)
    BY <2>2
  <2>10. \A i : i # id => Phase(i)' = Phase(i) /\ AnswerTo(i)' = AnswerTo(i)
    BY <1>4, <1>5, <2>2, <2>9, OthersStay
  <2>11. Turn(id, "none", "pending", 0)
    BY <2>5, <2>8, <2>10 DEF Turn
  <2>12. QED
    BY <2>11
<1>8. QED
  BY <1>6, <1>7

\* An answer decides its request.
LEMMA AnswerTurns ==
    ASSUME ClientInv, NEW t \in Thread, NEW id, InProgress(id), local[t].pc = "handle",
           NEW status \in {"completed", "error"},
           \A i : i \in DOMAIN messages' <=> i \in DOMAIN messages, messages'[id].status = status,
           \A i \in DOMAIN messages : i # id => messages'[i].status = messages[i].status,
           local'[t].pc = "mark", \A u \in Thread \ {t} : local'[u] = local[u],
           \A i : Visible(i), (\A i : Visible(i))'
    PROVE  id \in 1 .. MaxId /\ Turn(id, "pending", "answered", Outcome(id, status))
<1>1. Typed
  BY DEF ClientInv
<1> id \in DOMAIN messages /\ messages[id].status = "inprogress" /\ id \in 1 .. MaxId
  BY <1>1 DEF InProgress, Typed
<1>2. local[t].pc \notin ReadPc /\ local'[t].pc \notin ReadPc
  BY DEF ReadPc
<1>3. Visible(id) /\ Visible(id)'
  OBVIOUS
<1>4. Phase(id) = "pending"
  BY <1>3 DEF Visible
<1>5. status # "inprogress"
  BY SMTT(30)
<1>6. Phase(id)' = "answered" /\ AnswerTo(id)' = Outcome(id, status)
  BY <1>3, <1>5 DEF Visible, Outcome
<1>7. \A i : i # id => Phase(i)' = Phase(i) /\ AnswerTo(i)' = AnswerTo(i)
  <2>1. \A i : i # id => (i \in DOMAIN messages' <=> i \in DOMAIN messages)
    OBVIOUS
  <2>2. /\ local[t].pc \in ReadPc => local[t].ctx = id
        /\ local'[t].pc \in ReadPc => local'[t].ctx = id
    BY <1>2
  <2>3. QED
    BY <2>1, <2>2, OthersStay
<1>8. QED
  BY <1>4, <1>6, <1>7 DEF Turn

\* A control error rejects the request it names.
LEMMA ErrorRejects ==
    ASSUME ClientInv, NEW t \in Thread, gracht_control_error_invocation(t),
           \A id : Visible(id), (\A id : Visible(id))'
    PROVE  \E c \in 1 .. MaxId : Turn(c, "pending", "answered", -1)
<1>1. local \in [Thread -> Local] /\ local[t] \in Local
  BY DEF ClientInv, Typed
<1>2. PICK id : id = content[local[t].buf].id
  OBVIOUS
<1>3. Handles(t) /\ Decides(content[local[t].buf])
  BY DEF gracht_control_error_invocation, At, Handles, Decides
<1> id \in DOMAIN messages /\ messages[id] \in Slot /\ InProgress(id) /\ local[t].pc = "handle"
  BY <1>2, <1>3, AnswerInHand DEF Handles
<1>4. /\ messages' = [messages EXCEPT ![id].status = "error"]
      /\ local' = [local EXCEPT ![t].pc = "mark", ![t].mark = messages[id].awaiter, ![t].status = 0]
  BY <1>2 DEF gracht_control_error_invocation
<1>5. PICK d : d = [messages[id] EXCEPT !.status = "error"]
  OBVIOUS
<1>6. /\ \A i : i \in DOMAIN messages' <=> i \in DOMAIN messages
      /\ messages'[id].status = "error"
      /\ \A i \in DOMAIN messages : i # id => messages'[i].status = messages[i].status
  <2>1. d.status = "error" /\ messages' = [messages EXCEPT ![id] = d]
    BY <1>4, <1>5 DEF Slot
  <2>2. QED
    BY <2>1
<1>7. PICK r : r = [local[t] EXCEPT !.pc = "mark", !.mark = messages[id].awaiter, !.status = 0]
  OBVIOUS
<1>8. local'[t].pc = "mark" /\ \A u \in Thread \ {t} : local'[u] = local[u]
  <2>1. r.pc = "mark" /\ local' = [local EXCEPT ![t] = r]
    BY <1>1, <1>4, <1>7 DEF Local
  <2>2. QED
    BY <1>1, <2>1
<1>9. id \in 1 .. MaxId /\ Turn(id, "pending", "answered", Outcome(id, "error"))
  BY <1>6, <1>8, AnswerTurns
<1>10. Outcome(id, "error") = -1
  BY SMTT(30) DEF Outcome
<1>11. QED
  BY <1>9, <1>10

\* A response answers the request it was sent for.
LEMMA ResponseAnswers ==
    ASSUME ClientInv, NEW t \in Thread, HandleResponse(t),
           \A id : Visible(id), (\A id : Visible(id))'
    PROVE  \E c \in 1 .. MaxId : Turn(c, "pending", "answered", c)
<1>1. local \in [Thread -> Local] /\ local[t] \in Local
  BY DEF ClientInv, Typed
<1>2. PICK id : id = content[local[t].buf].id
  OBVIOUS
<1>3. Handles(t) /\ Decides(content[local[t].buf])
  BY DEF HandleResponse, At, Handles, Decides
<1> id \in DOMAIN messages /\ messages[id] \in Slot /\ InProgress(id) /\ local[t].pc = "handle"
  BY <1>2, <1>3, AnswerInHand DEF Handles
<1>4. /\ messages' = [messages EXCEPT ![id].status = "completed", ![id].buffer = local[t].buf]
      /\ local' = [local EXCEPT ![t].pc = "mark", ![t].mark = messages[id].awaiter,
                                ![t].handled = id, ![t].buf = NULL, ![t].status = 0]
  BY <1>2 DEF HandleResponse
<1>5. PICK d : d = [messages[id] EXCEPT !.status = "completed", !.buffer = local[t].buf]
  OBVIOUS
<1>6. /\ \A i : i \in DOMAIN messages' <=> i \in DOMAIN messages
      /\ messages'[id].status = "completed"
      /\ \A i \in DOMAIN messages : i # id => messages'[i].status = messages[i].status
  <2>1. d.status = "completed" /\ messages' = [messages EXCEPT ![id] = d]
    BY <1>4, <1>5 DEF Slot
  <2>2. QED
    BY <2>1
<1>7. PICK r : r = [local[t] EXCEPT !.pc = "mark", !.mark = messages[id].awaiter,
                                    !.handled = id, !.buf = NULL, !.status = 0]
  OBVIOUS
<1>8. local'[t].pc = "mark" /\ \A u \in Thread \ {t} : local'[u] = local[u]
  <2>1. r.pc = "mark" /\ local' = [local EXCEPT ![t] = r]
    BY <1>1, <1>4, <1>7 DEF Local
  <2>2. QED
    BY <1>1, <2>1
<1>9. id \in 1 .. MaxId /\ Turn(id, "pending", "answered", Outcome(id, "completed"))
  BY <1>6, <1>8, AnswerTurns
<1>10. Outcome(id, "completed") = id
  BY SMTT(30) DEF Outcome
<1>11. QED
  BY <1>9, <1>10

\* gracht_client_get_status_buffer takes an answer.
LEMMA StatusTakes ==
    ASSUME ClientInv, NEW t \in Thread, gracht_client_get_status_buffer(t),
           \A id : Visible(id), (\A id : Visible(id))'
    PROVE  \E c \in 1 .. MaxId : Turn(c, "answered", "reading", AnswerTo(c))
<1> Typed /\ Contexts /\ local[t].pc = "idle"
  BY DEF ClientInv, gracht_client_get_status_buffer, At
<1>1. PICK id \in ready[t] :
         IF id \in DOMAIN messages
         THEN /\ messages' = Drop(messages, id)
              /\ local' = [local EXCEPT ![t] = [Idle EXCEPT !.pc = "swap_status", !.ctx = id,
                             !.result = messages[id].status, !.buf = messages[id].buffer]]
         ELSE UNCHANGED <<messages, local>>
  BY DEF gracht_client_get_status_buffer
<1> Decided(id) /\ id \in DOMAIN messages /\ id \in 1 .. MaxId
  BY DEF Contexts, Decided, Typed
<1>2. PICK d : d = messages[id]
  OBVIOUS
<1>3. PICK r : r = [Idle EXCEPT !.pc = "swap_status", !.ctx = id, !.result = d.status, !.buf = d.buffer]
  OBVIOUS
<1>4. r.pc = "swap_status" /\ r.ctx = id /\ r.result = d.status
  BY <1>3 DEF Idle
<1>5. messages' = Drop(messages, id) /\ local' = [local EXCEPT ![t] = r]
  BY <1>1, <1>2, <1>3
<1>6. local'[t] = r /\ \A u \in Thread \ {t} : local'[u] = local[u]
  BY <1>5 DEF Typed
<1>7. DOMAIN messages' = DOMAIN messages \ {id} /\ \A i \in DOMAIN messages' : messages'[i] = messages[i]
  BY <1>5 DEF Drop, Restrict
<1>8. t \in Reading(id)'
  BY <1>4, <1>6 DEF Reading
<1>9. local[t].pc \notin ReadPc /\ local'[t].ctx = id /\ local'[t].result = d.status
  BY <1>4, <1>6 DEF ReadPc
<1>10. Visible(id) /\ Visible(id)'
  OBVIOUS
<1>11. Phase(id) = "answered" /\ AnswerTo(id) = Outcome(id, d.status)
  BY <1>2, <1>10 DEF Visible, Decided
<1>12. Phase(id)' = "reading" /\ AnswerTo(id)' = Outcome(id, d.status)
  BY <1>8, <1>9, <1>10 DEF Visible, Outcome
<1>13. \A i : i # id => Phase(i)' = Phase(i) /\ AnswerTo(i)' = AnswerTo(i)
  <2>1. \A i : i # id => (i \in DOMAIN messages' <=> i \in DOMAIN messages)
    BY <1>7
  <2>2. \A i \in DOMAIN messages : i # id => messages'[i].status = messages[i].status
    BY <1>7
  <2>3. QED
    BY <1>6, <1>9, <2>1, <2>2, OthersStay, SMTT(30)
<1>14. Turn(id, "answered", "reading", AnswerTo(id))
  BY <1>11, <1>12, <1>13 DEF Turn
<1>15. QED
  BY <1>14

\* gracht_client_status_finalize is the end of a request.
LEMMA FinalizeFinishes ==
    ASSUME ClientInv, NEW t \in Thread, gracht_client_status_finalize(t),
           \A id : Visible(id), (\A id : Visible(id))'
    PROVE  \E c \in 1 .. MaxId : Turn(c, "reading", "none", 0)
<1>1. Typed /\ Ids
  BY DEF ClientInv
<1>2. /\ local[t].pc = "result" /\ local' = [local EXCEPT ![t] = Idle]
      /\ UNCHANGED messages /\ Idle.pc = "idle" /\ local[t].pc \in ReadPc
  BY DEF gracht_client_status_finalize, At, Idle, ReadPc
<1>3. PICK id : id = local[t].ctx
  OBVIOUS
<1>4. id \in 1 .. MaxId
  BY <1>1, <1>2, <1>3 DEF Ids, Spent
<1>5. local'[t].pc = "idle" /\ \A u \in Thread \ {t} : local'[u] = local[u]
  BY <1>1, <1>2 DEF Typed
<1>6. local'[t].pc \notin ReadPc
  BY <1>5 DEF ReadPc
<1>7. Visible(id) /\ Visible(id)'
  OBVIOUS
<1>8. t \in Reading(id)
  BY <1>2, <1>3 DEF Reading
<1> Reading(id) = {t} /\ id \notin DOMAIN messages /\ Phase(id) = "reading"
  BY <1>7, <1>8 DEF Visible
<1>9. Reading(id)' = {}
  <2>1. \A u : u \in Reading(id)' => u \in Thread /\ local'[u].pc \in ReadPc /\ local'[u].ctx = id
    BY DEF Reading, ReadPc
  <2>2. \A u : u \in Thread /\ local[u].pc \in ReadPc /\ local[u].ctx = id => u \in Reading(id)
    BY DEF Reading, ReadPc
  <2>3. \A u : u \notin Reading(id)'
    BY <1>5, <1>6, <2>1, <2>2
  <2>4. QED
    BY <2>3
<1>10. Phase(id)' = "none" /\ AnswerTo(id)' = 0
  BY <1>2, <1>7, <1>9 DEF Visible
<1>11. \A i : i # id => Phase(i)' = Phase(i) /\ AnswerTo(i)' = AnswerTo(i)
  BY <1>2, <1>3, <1>5, <1>6, OthersStay
<1>12. Turn(id, "reading", "none", 0)
  BY <1>10, <1>11 DEF Turn
<1>13. QED
  BY <1>4, <1>12

\* The server is still.
LEMMA ServerStill ==
    ASSUME Server
    PROVE  Still
<1>1. UNCHANGED <<messages, local>>
  BY DEF Server, Respond, Reject, SendEvent, Close, clientVars, threadVars
<1>2. QED
  BY <1>1 DEF Still

\* A still step is none of RemoteCalls.
LEMMA StillView ==
    ASSUME Still, \A id : Visible(id), (\A id : Visible(id))'
    PROVE  \A id : Phase(id)' = Phase(id) /\ AnswerTo(id)' = AnswerTo(id)
<1> SUFFICES ASSUME NEW id PROVE Phase(id)' = Phase(id) /\ AnswerTo(id)' = AnswerTo(id)
  OBVIOUS
<1>1. Stays(id)
  BY StillStays
<1>2. Visible(id) /\ Visible(id)'
  OBVIOUS
<1>3. QED
  BY <1>1, <1>2, SameView

\* A step of the client changes no request, or takes one a phase further.
LEMMA ClientTurns ==
    ASSUME ClientInv, Next, \A id : Visible(id), (\A id : Visible(id))'
    PROVE  Still \/ Turns
<1>1. ASSUME NEW t \in Thread, Send(t) PROVE Still \/ Turns
  <2>1. CASE gracht_client_invoke_internal(t)
    BY <2>1, InvokeIssues DEF Turns
  <2>2. QED
    BY <1>1, <2>1, SendStill DEF Send
<1>2. ASSUME NEW t \in Thread, Wait(t) PROVE Still \/ Turns
  <2>1. CASE gracht_control_error_invocation(t)
    BY <2>1, ErrorRejects DEF Turns
  <2>2. CASE HandleResponse(t)
    BY <2>2, ResponseAnswers DEF Turns
  <2>3. QED
    BY <1>2, <2>1, <2>2, WaitStill, TouchStill DEF Wait
<1>3. ASSUME NEW t \in Thread, Collect(t) PROVE Still \/ Turns
  <2>1. CASE gracht_client_status_finalize(t)
    BY <2>1, FinalizeFinishes DEF Turns
  <2>2. QED
    BY <1>3, <2>1, SwapStill DEF Collect
<1>4. ASSUME NEW t \in Thread, Call(t) PROVE Still \/ Turns
  <2>1. CASE gracht_client_get_status_buffer(t)
    BY <2>1, StatusTakes DEF Turns
  <2>2. QED
    BY <1>4, <2>1, AwaitStill, WaitStill DEF Call
<1>5. QED
  BY <1>1, <1>2, <1>3, <1>4, AwaitStill, ServerStill DEF Next
=============================================================================
