---------------------------- MODULE ClientProofs ----------------------------
(***************************************************************************)
(* The steps of the client that count messages for an awaiter, the         *)
(* invariant, and what follows from it: every receive buffer has one       *)
(* owner, a result that was reported is there, an awaiter that is touched  *)
(* is alive, and the client implements RemoteCalls.                        *)
(*                                                                         *)
(* The first part takes what it needs to know about counts as a premise,   *)
(* the second part counts.                                                 *)
(***************************************************************************)
EXTENDS ClientSteps

\* Zenon proves a leaf unless it says SMT or PTL.
USE ZenonT(60)

----------------------------------------------------------------------------
(* An answer is handled                                                    *)

\* A request is decided: its thread, its descriptor and its awaiter know.
LEMMA DecisionKeeps ==
    ASSUME ClientInv, NEW t \in Thread, NEW id, DecisionStep(t, id),
           \A u \in Thread \ {t} : Awaiting(u)'
    PROVE  ClientInv'
<1> Typed /\ Ids /\ Contexts /\ Answers /\ Arrivals /\ Awaits
  BY DEF ClientInv
<1> /\ Decision(t, id) /\ Descriptors' /\ Buffers' /\ Locals(t)'
    /\ local'[t].ctx = local[t].ctx /\ local'[t].ret = local[t].ret /\ local'[t].ids = local[t].ids
    /\ local'[t].all = local[t].all /\ local'[t].async = local[t].async
  BY DEF DecisionStep
<1> /\ Moves(t) /\ local[t].pc = "handle" /\ local'[t].pc = "mark" /\ local'[t].mark = messages[id].awaiter
    /\ id \in DOMAIN messages /\ DOMAIN messages' = DOMAIN messages
    /\ UNCHANGED <<current_message_id, current_awaiter_id, swap, awaiters, awaiter, send_lock, pool, content,
                   owned, ready, pending, incoming, open, scenario, events, errors>>
  BY DEF Decision, Handles, Moves
<1>1. \A i \in DOMAIN messages : messages'[i].awaiter = messages[i].awaiter
  BY DEF Decision
<1>2. \A i : Decided(i) => Decided(i)'
  BY DEF Decision, Decided
<1>3. \A i : InProgress(i) =>
         InProgress(i)' \/ (Handles(t) /\ Decides(content[local[t].buf]) /\ i = content[local[t].buf].id)
  BY DEF Decision, InProgress
<1> /\ local[t].pc \in WaitPc /\ local'[t].pc \in WaitPc /\ local[t].pc \notin {"scan", "cleanup"}
    /\ local'[t].pc \notin SendPc \cup ReadPc \cup {"scan", "cleanup", "handle", "touch"}
  BY DEF WaitPc, SendPc, ReadPc
<1>4. Role(t)' /\ Awaiting(t)' /\ (InAwait(t)' <=> InAwait(t))
  BY <1>1, WaitOn
<1>5. Typed'
  <2>1. \A i \in DOMAIN messages' : messages'[i] \in Slot
    BY DEF Typed, Decision
  <2>2. QED
    BY <2>1 DEF Typed, Moves
<1>6. Ids'
  BY IdsKept
<1>7. Contexts'
  <2>1. \A u \in Thread : ready'[u] \subseteq owned[u] /\ \A i \in ready'[u] : Decided(i)'
    BY <1>2 DEF Contexts
  <2>2. InAwait(t)' => local'[t].ids \subseteq owned[t]
    BY <1>4 DEF Contexts
  <2>3. local'[t].pc \in WaitPc /\ local'[t].ctx # 0 => local'[t].ctx \in owned[t]
    BY DEF Contexts
  <2>4. QED
    BY <2>1, <2>2, <2>3, ContextsKept
<1>8. Answers'
  BY <1>3, AnswersKept
<1>9. Arrivals'
  BY ArrivalsKept
<1>10. Awaits'
  <2>1. /\ \A i \in DOMAIN messages' : messages'[i].awaiter < current_awaiter_id
        /\ \A k \in DOMAIN awaiters : awaiters[k] \in Thread
        /\ messages[id].awaiter < current_awaiter_id
    BY <1>1 DEF Awaits, Typed
  <2>2. QED
    BY <1>4, <2>1, AwaitsKept
<1>11. ASSUME NEW u \in Thread \ {t} PROVE Role(u)' /\ Locals(u)' /\ Awaiting(u)'
  <2>1. local'[u] = local[u] /\ u \in Thread
    BY DEF Moves
  <2>2. Role(u)' /\ Locals(u)'
    BY <1>2, <2>1, OtherKept
  <2>3. Awaiting(u)'
    OBVIOUS
  <2>4. QED
    BY <2>2, <2>3
<1>12. QED
  BY <1>4, <1>5, <1>6, <1>7, <1>8, <1>9, <1>10, <1>11, Together DEF Rest, Own

\* A control error: the descriptor of its request gets the status.
LEMMA ErrorDecides ==
    ASSUME ClientInv, NEW t \in Thread, gracht_control_error_invocation(t)
    PROVE  \E id : DecisionStep(t, id)
<1>1. Typed /\ Arrivals /\ Descriptors /\ Buffers /\ Locals(t) /\ local[t] \in Local
  BY DEF ClientInv, Typed
<1>2. PICK id : id = content[local[t].buf].id
  OBVIOUS
<1>3. /\ Handles(t) /\ content[local[t].buf].type = "error" /\ Decides(content[local[t].buf])
      /\ local[t].pc \in WaitPc
  BY DEF gracht_control_error_invocation, At, Handles, Decides, WaitPc
<1>4. InProgress(id) /\ id \in DOMAIN messages /\ messages[id] \in Slot /\ messages[id].buffer = NULL
  BY <1>2, <1>3, AnswerInHand
<1>5. /\ messages' = [messages EXCEPT ![id].status = "error"]
      /\ local' = [local EXCEPT ![t].pc = "mark", ![t].mark = messages[id].awaiter, ![t].status = 0]
      /\ UNCHANGED <<current_message_id, current_awaiter_id, swap, awaiters, awaiter, send_lock, pool, content,
                     owned, ready, pending, incoming, open, scenario, events, errors>>
  BY <1>2, <1>4 DEF gracht_control_error_invocation, envVars
<1>6. scenario.errors # 0 /\ local[t].ctx = 0
  <2>1. Expected(content[local[t].buf])
    BY <1>1, <1>3 DEF Arrivals
  <2>2. scenario.errors # 0 /\ ~Calm(scenario)
    BY <1>3, <2>1 DEF Expected
  <2>3. QED
    BY <1>3, <2>2, WaiterIsCalm
<1>7. PICK d : d = [messages[id] EXCEPT !.status = "error"]
  OBVIOUS
<1>8. d \in Slot /\ d.status = "error" /\ d.awaiter = messages[id].awaiter /\ d.buffer = NULL /\ d.awaiter \in Nat
  BY <1>4, <1>7 DEF Slot, Status
<1>9. /\ DOMAIN messages' = DOMAIN messages /\ messages'[id] = d
      /\ \A i \in DOMAIN messages : i # id => messages'[i] = messages[i]
  BY <1>4, <1>5, <1>7
<1>10. PICK r : r = [local[t] EXCEPT !.pc = "mark", !.mark = messages[id].awaiter, !.status = 0]
  OBVIOUS
<1>11. /\ r \in Local /\ r.pc = "mark" /\ r.ctx = local[t].ctx /\ r.ret = local[t].ret /\ r.ids = local[t].ids
       /\ r.all = local[t].all /\ r.async = local[t].async /\ r.buf = local[t].buf /\ r.stale = local[t].stale
       /\ r.mark = messages[id].awaiter
  BY <1>1, <1>8, <1>10 DEF Local, Pc
<1>12. local' = [local EXCEPT ![t] = r]
  BY <1>5, <1>10
<1>13. Moves(t) /\ local'[t] = r
  BY <1>1, <1>11, <1>12, Moved
<1>14. Decision(t, id)
  <2>1. Decided(id)'
    BY <1>4, <1>8, <1>9 DEF Decided
  <2>2. QED
    BY <1>2, <1>3, <1>4, <1>5, <1>8, <1>9, <1>11, <1>13, <2>1 DEF Decision, Moves
<1>15. Descriptors'
  <2>1. \A u \in Thread : local'[u].pc \in ReadPc \/ local'[u].pc = "swap_buffer" => local'[u] = local[u]
    BY <1>11, <1>13 DEF Moves, ReadPc
  <2>2. (\A i \in DOMAIN messages :
          /\ messages[i].status = "completed" =>
                messages[i].buffer \in Buffer /\ content[messages[i].buffer].id = i
          /\ messages[i].status # "completed" => messages[i].buffer = NULL
          /\ messages[i].status = "error" => scenario.errors # 0)'
    BY <1>1, <1>5, <1>6, <1>8, <1>9 DEF Descriptors
  <2>3. (\A u \in Thread : local[u].pc \in ReadPc =>
          \/ local[u].result = "completed" /\ local[u].buf \in Buffer /\ content[local[u].buf].id = local[u].ctx
          \/ local[u].result = "error" /\ local[u].buf = NULL)'
    BY <1>1, <1>5, <2>1 DEF Descriptors
  <2>4. (\A u \in Thread : local[u].pc = "swap_buffer" => swap.buffer = NULL /\ scenario.errors # 0)'
    BY <1>1, <1>5, <2>1 DEF Descriptors
  <2>5. QED
    BY <1>1, <1>5, <2>2, <2>3, <2>4 DEF Descriptors
<1>16. Buffers'
  <2>1. \A u \in Thread : local'[u].buf = local[u].buf
    BY <1>11, <1>13 DEF Moves
  <2>2. \A i \in DOMAIN messages : messages'[i].buffer = messages[i].buffer
    BY <1>4, <1>8, <1>9
  <2>3. QED
    BY <1>1, <1>5, <1>9, <2>1, <2>2, BuffersSame
<1>17. Locals(t)'
  BY <1>1, <1>6, <1>11, <1>13 DEF Locals
<1>18. DecisionStep(t, id)
  BY <1>11, <1>13, <1>14, <1>15, <1>16, <1>17 DEF DecisionStep
<1>19. QED
  BY <1>18

\* A response: the descriptor of its request gets the buffer.
LEMMA ResponseDecides ==
    ASSUME ClientInv, NEW t \in Thread, HandleResponse(t)
    PROVE  \E id : DecisionStep(t, id)
<1>1. Typed /\ Descriptors /\ Buffers /\ Locals(t) /\ local[t] \in Local
  BY DEF ClientInv, Typed
<1>2. PICK id : id = content[local[t].buf].id
  OBVIOUS
<1>3. PICK b : b = local[t].buf
  OBVIOUS
<1>4. /\ Handles(t) /\ Decides(content[local[t].buf]) /\ local[t].pc \in WaitPc
      /\ b \in Buffer /\ ~local[t].stale
  <2>1. local[t].pc = "handle" /\ content[local[t].buf].type = "response"
    BY DEF HandleResponse, At
  <2>2. b \in Buffer /\ b # NULL
    BY <1>1, <1>3, <2>1, ClientAssumption DEF Locals
  <2>3. QED
    BY <1>1, <1>3, <2>1, <2>2 DEF Handles, Decides, WaitPc, Locals
<1>5. /\ InProgress(id) /\ id \in DOMAIN messages /\ messages[id] \in Slot /\ messages[id].buffer = NULL
      /\ id # 0
  BY <1>2, <1>4, AnswerInHand
<1>6. /\ messages' = [messages EXCEPT ![id].status = "completed", ![id].buffer = b]
      /\ local' = [local EXCEPT ![t].pc = "mark", ![t].mark = messages[id].awaiter,
                                ![t].handled = id, ![t].buf = NULL, ![t].status = 0]
      /\ UNCHANGED <<current_message_id, current_awaiter_id, swap, awaiters, awaiter, send_lock, pool, content,
                     owned, ready, pending, incoming, open, scenario, events, errors>>
  BY <1>2, <1>3, <1>5 DEF HandleResponse, envVars
<1>7. PICK d : d = [messages[id] EXCEPT !.status = "completed", !.buffer = b]
  OBVIOUS
<1>8. d \in Slot /\ d.status = "completed" /\ d.awaiter = messages[id].awaiter /\ d.buffer = b /\ d.awaiter \in Nat
  BY <1>4, <1>5, <1>7 DEF Slot, Status
<1>9. /\ DOMAIN messages' = DOMAIN messages /\ messages'[id] = d
      /\ \A i \in DOMAIN messages : i # id => messages'[i] = messages[i]
  BY <1>5, <1>6, <1>7
<1>10. PICK r : r = [local[t] EXCEPT !.pc = "mark", !.mark = messages[id].awaiter,
                                     !.handled = id, !.buf = NULL, !.status = 0]
  OBVIOUS
<1>11. /\ r \in Local /\ r.pc = "mark" /\ r.ctx = local[t].ctx /\ r.ret = local[t].ret /\ r.ids = local[t].ids
       /\ r.all = local[t].all /\ r.async = local[t].async /\ r.buf = NULL
       /\ r.mark = messages[id].awaiter /\ r.handled = id
  <2>1. id \in Nat
    BY <1>1, <1>5, SMTT(30) DEF Typed
  <2>2. QED
    BY <1>1, <1>8, <1>10, <2>1 DEF Local, Pc
<1>12. local' = [local EXCEPT ![t] = r]
  BY <1>6, <1>10
<1>13. Moves(t) /\ local'[t] = r
  BY <1>1, <1>11, <1>12, Moved
<1>14. Decided(id)'
  BY <1>5, <1>8, <1>9 DEF Decided
<1>15. Decision(t, id)
  BY <1>2, <1>4, <1>5, <1>6, <1>8, <1>9, <1>11, <1>13, <1>14 DEF Decision, Moves
<1>16. Descriptors'
  <2>1. \A u \in Thread : local'[u].pc \in ReadPc \/ local'[u].pc = "swap_buffer" => local'[u] = local[u]
    BY <1>11, <1>13 DEF Moves, ReadPc
  <2>2. content[b].id = id
    BY <1>2, <1>3
  <2>3. (\A i \in DOMAIN messages :
          /\ messages[i].status = "completed" =>
                messages[i].buffer \in Buffer /\ content[messages[i].buffer].id = i
          /\ messages[i].status # "completed" => messages[i].buffer = NULL
          /\ messages[i].status = "error" => scenario.errors # 0)'
    BY <1>1, <1>4, <1>6, <1>8, <1>9, <2>2, SMTT(30) DEF Descriptors
  <2>4. (\A u \in Thread : local[u].pc \in ReadPc =>
          \/ local[u].result = "completed" /\ local[u].buf \in Buffer /\ content[local[u].buf].id = local[u].ctx
          \/ local[u].result = "error" /\ local[u].buf = NULL)'
    BY <1>1, <1>6, <2>1 DEF Descriptors
  <2>5. (\A u \in Thread : local[u].pc = "swap_buffer" => swap.buffer = NULL /\ scenario.errors # 0)'
    BY <1>1, <1>6, <2>1 DEF Descriptors
  <2>6. QED
    BY <1>1, <1>6, <2>3, <2>4, <2>5 DEF Descriptors
<1>17. Buffers'
  <2>1. local[t].buf = b /\ local'[t].buf = NULL /\ \A u \in Thread \ {t} : local'[u].buf = local[u].buf
    BY <1>3, <1>11, <1>13 DEF Moves
  <2>2. QED
    BY <1>1, <1>4, <1>5, <1>6, <1>8, <1>9, <2>1, BuffersFiled
<1>18. Locals(t)'
  <2>1. local'[t].handled = id /\ local'[t].pc = "mark" /\ local'[t].buf = NULL
    BY <1>11, <1>13
  <2>2. (local[t].handled = local[t].ctx => Decided(local[t].ctx))'
    BY <1>14, <2>1
  <2>3. QED
    BY <1>5, <2>1, <2>2 DEF Locals
<1>19. DecisionStep(t, id)
  BY <1>11, <1>13, <1>15, <1>16, <1>17, <1>18 DEF DecisionStep
<1>20. QED
  BY <1>19

\* mark_awaiters counts the message and signals the awaiter.
LEMMA CountsKeeps ==
    ASSUME ClientInv, NEW t \in Thread, NEW u \in Thread, NEW woken \in BOOLEAN, Counts(t, u, woken),
           \A v \in Thread : Awaiting(v)'
    PROVE  ClientInv'
<1> /\ Typed /\ Ids /\ Contexts /\ Answers /\ Arrivals /\ Descriptors /\ Buffers /\ Awaits
    /\ \A v \in Thread : Role(v) /\ Locals(v)
  BY DEF ClientInv
<1>1. Counts(t, u, woken)
  OBVIOUS
<1> /\ local' \in [Thread -> Local] /\ local[t].pc = "touch" /\ local'[t].pc = "exit"
    /\ UNCHANGED <<current_message_id, current_awaiter_id, messages, swap, awaiters, send_lock, pool, content,
                   owned, ready, pending, incoming, open, scenario, events, errors>>
  BY <1>1 DEF Counts
<1>2. \A v \in Thread :
          /\ local'[v].ctx = local[v].ctx /\ local'[v].buf = local[v].buf /\ local'[v].stale = local[v].stale
          /\ local'[v].handled = local[v].handled /\ local'[v].status = local[v].status
          /\ local'[v].ret = local[v].ret /\ local'[v].ids = local[v].ids /\ local'[v].all = local[v].all
          /\ local'[v].async = local[v].async /\ local'[v].result = local[v].result
  BY <1>1 DEF Counts
<1>3. \A v \in Thread :
          \/ local'[v] = local[v]
          \/ v = t
          \/ local[v].pc = "asleep" /\ local'[v].pc = "remove"
  BY <1>1 DEF Counts
<1>4. \A v \in Thread :
          \/ local'[v].pc = local[v].pc
          \/ local[v].pc = "touch" /\ local'[v].pc = "exit"
          \/ local[v].pc = "asleep" /\ local'[v].pc = "remove"
  BY <1>3
<1>5. \A v \in Thread : local'[v].pc \in SendPc \cup ReadPc \cup {"handle"} => local'[v] = local[v]
  BY <1>3 DEF SendPc, ReadPc
<1>6. \A v \in Thread : (local'[v].pc \in WaitPc <=> local[v].pc \in WaitPc)
                        /\ (local'[v].pc \in AwaitPc <=> local[v].pc \in AwaitPc)
                        /\ (local'[v].pc = "scan" <=> local[v].pc = "scan")
                        /\ (local'[v].pc = "cleanup" <=> local[v].pc = "cleanup")
  BY <1>4 DEF WaitPc, AwaitPc
<1>7. \A v \in Thread : InAwait(v)' <=> InAwait(v)
  BY <1>2, <1>6 DEF InAwait
<1>8. \A i : (Decided(i)' <=> Decided(i)) /\ (InProgress(i)' <=> InProgress(i))
  BY DEF Decided, InProgress
<1>9. \A v \in Thread : /\ awaiter'[v].id = awaiter[v].id /\ awaiter'[v] \in [id : Nat, all : BOOLEAN, count : Nat, current : Nat]
  <2>1. \A v \in Thread : awaiter[v] \in [id : Nat, all : BOOLEAN, count : Nat, current : Nat]
    BY DEF Typed
  <2>2. PICK n \in Nat : n = awaiter[u].current + 1
    BY <2>1, SMTT(30)
  <2>3. PICK a : a = [awaiter[u] EXCEPT !.current = n]
    OBVIOUS
  <2>4. a.id = awaiter[u].id /\ a \in [id : Nat, all : BOOLEAN, count : Nat, current : Nat]
    BY <2>1, <2>3
  <2>5. awaiter' = [awaiter EXCEPT ![u] = a]
    BY <1>1, <2>2, <2>3 DEF Counts
  <2>6. QED
    BY <2>1, <2>4, <2>5 DEF Typed
<1>10. Typed'
  <2>1. awaiter' \in [Thread -> [id : Nat, all : BOOLEAN, count : Nat, current : Nat]]
    <3>1. DOMAIN awaiter' = Thread /\ awaiter' = [v \in Thread |-> awaiter'[v]]
      BY <1>1 DEF Counts, Typed
    <3>2. QED
      BY <1>9, <3>1
  <2>2. QED
    BY <2>1 DEF Typed
<1>11. Ids'
  <2>1. \A i : Spent(i) => Spent(i)'
    <3>1. \A v \in Thread : local'[v].pc = "send" => local'[v] = local[v]
      BY <1>5 DEF SendPc
    <3>2. QED
      BY <3>1 DEF Spent
  <2>2. (\A v \in Thread :
          /\ local[v].pc \in {"id_load", "id_store"} => current_message_id \in 1 .. MaxId
          /\ local[v].pc = "id_store" => local[v].ctx = current_message_id
          /\ local[v].pc = "send" => local[v].ctx \in 1 .. MaxId /\ local[v].ctx < current_message_id)'
    <3>1. \A v \in Thread : local'[v].pc \in SendPc => local'[v] = local[v]
      BY <1>5
    <3>2. QED
      BY <3>1 DEF Ids, SendPc
  <2>3. (\A i \in DOMAIN messages : Spent(i))'
    BY <2>1 DEF Ids
  <2>4. (\A v \in Thread : local[v].pc \in ReadPc => Spent(local[v].ctx))'
    <3> SUFFICES ASSUME NEW v \in Thread, local'[v].pc \in ReadPc PROVE Spent(local[v].ctx)'
      OBVIOUS
    <3>1. PICK c : c = local[v].ctx
      OBVIOUS
    <3>2. Spent(c)'
      BY <1>5, <2>1, <3>1 DEF Ids
    <3>3. QED
      BY <1>2, <3>1, <3>2
  <2>5. QED
    BY <2>2, <2>3, <2>4 DEF Ids
<1>12. Contexts'
  <2>1. (\A v \in Thread :
          /\ ready[v] \subseteq owned[v] /\ owned[v] \subseteq DOMAIN messages
          /\ \A i \in ready[v] : Decided(i)
          /\ InAwait(v) => local[v].ids \subseteq owned[v]
          /\ local[v].pc \in WaitPc /\ local[v].ctx # 0 => local[v].ctx \in owned[v]
          /\ local[v].pc \in ReadPc => local[v].ctx \notin DOMAIN messages)'
    <3>1. \A v \in Thread : InAwait(v)' => local'[v].ids \subseteq owned[v]
      BY <1>2, <1>7 DEF Contexts
    <3>2. \A v \in Thread : local'[v].pc \in WaitPc /\ local'[v].ctx # 0 => local'[v].ctx \in owned[v]
      BY <1>2, <1>6 DEF Contexts
    <3>3. \A v \in Thread : local'[v].pc \in ReadPc => local'[v].ctx \notin DOMAIN messages
      BY <1>5 DEF Contexts
    <3>4. \A v \in Thread : /\ ready[v] \subseteq owned[v] /\ owned[v] \subseteq DOMAIN messages
                             /\ \A i \in ready[v] : Decided(i)'
      BY <1>8 DEF Contexts
    <3>5. QED
      BY <3>1, <3>2, <3>3, <3>4
  <2>2. (\A v, w \in Thread : owned[v] \cap owned[w] # {} => v = w)'
    BY DEF Contexts
  <2>3. (\A v, w \in Thread :
          {local[v].pc, local[w].pc} \subseteq ReadPc /\ local[v].ctx = local[w].ctx => v = w)'
    BY <1>2, <1>5, SMTT(30) DEF Contexts
  <2>4. QED
    BY <2>1, <2>2, <2>3 DEF Contexts
<1>13. \A v \in Thread : Handles(v)' => Handles(v) /\ content'[local'[v].buf] = content[local[v].buf]
  BY <1>2, <1>5 DEF Handles
<1>14. Answers' /\ Arrivals'
  <2>1. (\A i \in pending : InProgress(i))'
    BY <1>8 DEF Answers
  <2>2. (\A i \in DOMAIN incoming : Decides(incoming[i]) =>
          InProgress(incoming[i].id) /\ incoming[i].id \notin pending)'
    <3> SUFFICES ASSUME NEW i \in DOMAIN incoming, Decides(incoming[i])
                 PROVE  InProgress(incoming[i].id)' /\ incoming[i].id \notin pending
      BY DEF Decides
    <3>1. PICK c : c = incoming[i].id
      OBVIOUS
    <3>2. InProgress(c)' /\ c \notin pending
      BY <1>8, <3>1 DEF Answers
    <3>3. QED
      BY <3>1, <3>2
  <2>3. (\A i, j \in DOMAIN incoming :
          Decides(incoming[i]) /\ Decides(incoming[j]) /\ incoming[i].id = incoming[j].id => i = j)'
    BY DEF Answers, Decides
  <2>4. (\A v \in Thread : Handles(v) /\ Decides(content[local[v].buf]) =>
          /\ InProgress(content[local[v].buf].id) /\ content[local[v].buf].id \notin pending
          /\ \A i \in DOMAIN incoming :
                Decides(incoming[i]) => incoming[i].id # content[local[v].buf].id)'
    <3> SUFFICES ASSUME NEW v \in Thread, Handles(v)', Decides(content[local[v].buf])'
                 PROVE  (/\ InProgress(content[local[v].buf].id) /\ content[local[v].buf].id \notin pending
                         /\ \A i \in DOMAIN incoming :
                               Decides(incoming[i]) => incoming[i].id # content[local[v].buf].id)'
      OBVIOUS
    <3>1. PICK c : c = content[local[v].buf].id
      OBVIOUS
    <3>2. Handles(v) /\ Decides(content[local[v].buf]) /\ content'[local'[v].buf].id = c
      BY <1>13, <3>1 DEF Decides
    <3>3. /\ InProgress(c) /\ c \notin pending
          /\ \A i \in DOMAIN incoming : Decides(incoming[i]) => incoming[i].id # c
      BY <3>1, <3>2 DEF Answers
    <3>4. InProgress(c)'
      BY <1>8, <3>3
    <3>5. QED
      BY <3>2, <3>3, <3>4 DEF Decides
  <2>5. (\A v, w \in Thread :
          /\ Handles(v) /\ Handles(w)
          /\ Decides(content[local[v].buf]) /\ Decides(content[local[w].buf])
          /\ content[local[v].buf].id = content[local[w].buf].id
          => v = w)'
    BY <1>13 DEF Answers, Decides
  <2>6. \A m : Expected(m) => Expected(m)'
    BY DEF Expected
  <2>7. (\A v \in Thread : Handles(v) => Expected(content[local[v].buf]))'
    <3> SUFFICES ASSUME NEW v \in Thread, Handles(v)' PROVE Expected(content[local[v].buf])'
      OBVIOUS
    <3>1. PICK m : m = content[local[v].buf]
      OBVIOUS
    <3>2. Expected(m)' /\ m = content'[local'[v].buf]
      BY <1>13, <2>6, <3>1 DEF Arrivals
    <3>3. QED
      BY <3>2
  <2>8. (\A i \in DOMAIN incoming : Expected(incoming[i]))' /\ (Calm(scenario) => open)'
    BY <2>6 DEF Arrivals
  <2>9. QED
    BY <2>1, <2>2, <2>3, <2>4, <2>5, <2>7, <2>8 DEF Answers, Arrivals
<1>15. Descriptors'
  <2>6. Descriptors
    OBVIOUS
  <2>1. \A v \in Thread : local'[v].pc \in ReadPc \/ local'[v].pc = "swap_buffer" => local'[v] = local[v]
    BY <1>5 DEF ReadPc
  <2>2. (\A v \in Thread : local[v].pc \in ReadPc =>
          \/ local[v].result = "completed" /\ local[v].buf \in Buffer /\ content[local[v].buf].id = local[v].ctx
          \/ local[v].result = "error" /\ local[v].buf = NULL)'
    BY <2>1, <2>6, SMTT(30) DEF Descriptors
  <2>3. (\A v \in Thread : local[v].pc = "swap_buffer" => swap.buffer = NULL /\ scenario.errors # 0)'
    BY <2>1, <2>6, SMTT(30) DEF Descriptors
  <2>4. (\A i \in DOMAIN messages :
          /\ messages[i].status = "completed" =>
                messages[i].buffer \in Buffer /\ content[messages[i].buffer].id = i
          /\ messages[i].status # "completed" => messages[i].buffer = NULL
          /\ messages[i].status = "error" => scenario.errors # 0)'
    BY DEF Descriptors
  <2>5. QED
    BY <2>2, <2>3, <2>4 DEF Descriptors
<1>16. Buffers'
  BY <1>2, BuffersSame
<1>17. Awaits'
  <2>1. \A v \in Thread : local'[v].pc \in {"mark", "touch"} =>
           local'[v].pc = local[v].pc /\ local'[v].mark = local[v].mark /\ local'[v].ptr = local[v].ptr
    BY <1>3
  <2>2. (\A v \in Thread :
          /\ awaiter[v].id < current_awaiter_id
          /\ awaiter[v].id # 0 <=> InAwait(v)
          /\ local[v].pc \in {"mark", "touch"} => local[v].mark < current_awaiter_id)'
    BY <1>7, <1>9, <2>1, SMTT(30) DEF Awaits
  <2>3. (\A v, w \in Thread : awaiter[v].id = awaiter[w].id => v = w \/ awaiter[v].id = 0)'
    BY <1>9, SMTT(30) DEF Awaits
  <2>4. (\A i \in DOMAIN messages : messages[i].awaiter < current_awaiter_id)'
    BY DEF Awaits
  <2>5. (\A k \in DOMAIN awaiters :
          awaiter[awaiters[k]].id = k /\ local[awaiters[k]].pc \notin {"scan", "cleanup"} /\ k # 0)'
    <3>1. \A k \in DOMAIN awaiters :
             /\ awaiters[k] \in Thread /\ awaiter[awaiters[k]].id = k /\ k # 0
             /\ local[awaiters[k]].pc \notin {"scan", "cleanup"}
      BY DEF Awaits, Typed
    <3>2. \A k \in DOMAIN awaiters :
             awaiter'[awaiters[k]].id = k /\ local'[awaiters[k]].pc \notin {"scan", "cleanup"} /\ k # 0
      BY <1>6, <1>9, <3>1, SMTT(30)
    <3>3. QED
      BY <3>2
  <2>6. (\A v \in Thread : InAwait(v) /\ local[v].pc \notin {"scan", "cleanup"} =>
          awaiter[v].id \in DOMAIN awaiters)'
    BY <1>6, <1>7, <1>9, SMTT(30) DEF Awaits
  <2>7. (\A v \in Thread : local[v].pc = "touch" =>
          local[v].mark # 0 /\ local[v].ptr \in Thread /\ awaiter[local[v].ptr].id = local[v].mark)'
    <3>1. \A v \in Thread : local[v].pc = "touch" =>
             local[v].mark # 0 /\ local[v].ptr \in Thread /\ awaiter[local[v].ptr].id = local[v].mark
      BY DEF Awaits
    <3>2. QED
      BY <1>9, <2>1, <3>1, SMTT(30)
  <2>8. QED
    BY <2>2, <2>3, <2>4, <2>5, <2>6, <2>7 DEF Awaits
<1>18. ASSUME NEW v \in Thread PROVE Role(v)' /\ Locals(v)' /\ Awaiting(v)'
  <2>1. Role(v) /\ Locals(v)
    OBVIOUS
  <2>2. Role(v)'
    <3>1. InAwait(v)' /\ local'[v].async =>
             /\ local'[v].pc \in {"scan", "cnd_wait", "asleep", "remove", "cleanup"}
             /\ local'[v].all /\ Uses(v, "await_all_async")'
      <4>1. InAwait(v) /\ local[v].async =>
               /\ local[v].pc \in {"scan", "cnd_wait", "asleep", "remove", "cleanup"}
               /\ local[v].all /\ Uses(v, "await_all_async")
        BY <2>1 DEF Role
      <4>2. QED
        BY <1>2, <1>4, <1>7, <4>1 DEF Uses
    <3>2. InAwait(v)' /\ ~local'[v].async => local'[v].pc \notin {"cnd_wait", "asleep"} /\ Syncs(scenario, v)
      BY <1>2, <1>4, <1>7, <2>1 DEF Role
    <3>3. QED
      BY <1>2, <1>5, <1>6, <2>1, <3>1, <3>2 DEF Role, Uses
  <2>3. Locals(v)'
    <3>1. CASE v = t
      <4>1. /\ local[t].ctx # 0 => local[t].buf = NULL
            /\ local[t].stale => local[t].buf = NULL
            /\ local[t].ctx # 0 => local[t].handled # 0 /\ (local[t].handled = local[t].ctx => Decided(local[t].ctx))
        BY <2>1, <3>1 DEF Locals, WaitPc
      <4>2. (local[t].ctx # 0 /\ local[t].handled = local[t].ctx => Decided(local[t].ctx))'
        <5>1. PICK c : c = local[t].ctx
          OBVIOUS
        <5>2. c # 0 /\ local'[t].handled = c => Decided(c)'
          BY <1>2, <1>8, <4>1, <5>1
        <5>3. local'[t].ctx = c
          BY <1>2, <5>1
        <5>4. QED
          BY <5>2, <5>3
      <4>3. /\ local'[t].ctx # 0 => local'[t].buf = NULL /\ local'[t].handled # 0
            /\ local'[t].stale => local'[t].buf = NULL
        BY <1>2, <4>1
      <4>4. QED
        BY <3>1, <4>2, <4>3 DEF Locals
    <3>2. CASE v # t /\ local'[v] = local[v]
      BY <1>8, <3>2, OtherKept
    <3>3. CASE local[v].pc = "asleep" /\ local'[v].pc = "remove"
      <4>1. local'[v].buf = NULL
        BY <1>2, <2>1, <3>3 DEF Locals, ReadPc
      <4>2. QED
        BY <3>3, <4>1 DEF Locals, WaitPc
    <3>4. QED
      BY <1>3, <3>1, <3>2, <3>3
  <2>4. Awaiting(v)'
    OBVIOUS
  <2>5. QED
    BY <2>2, <2>3, <2>4
<1>19. QED
  BY <1>10, <1>11, <1>12, <1>14, <1>15, <1>16, <1>17, <1>18 DEF ClientInv

----------------------------------------------------------------------------
(* gracht_client_await_multiple                                            *)

\* __awaiter_new: the identifier of the awaiter is in use nowhere.
LEMMA AwaiterNewKeeps ==
    ASSUME ClientInv, NEW t \in Thread, AwaiterNew(t), Cardinality(owned[t]) \in Nat
    PROVE  ClientInv'
<1> Typed /\ Contexts /\ Awaits /\ local[t].pc = "idle" /\ Disciplined(scenario)
  BY DEF ClientInv, AwaiterNew, At, Typed
<1> UNCHANGED <<current_message_id, messages, swap, awaiters, send_lock, pool, content, owned, ready,
                pending, incoming, open, scenario, events, errors>>
  BY DEF AwaiterNew, envVars
<1>1. PICK k : k = current_awaiter_id
  OBVIOUS
<1>2. PICK all \in BOOLEAN, async \in BOOLEAN :
         /\ Uses(t, IF all THEN IF async THEN "await_all_async" ELSE "await_all"
                    ELSE IF async THEN "await_any_async" ELSE "await_any")
         /\ local' = [local EXCEPT ![t] = [Idle EXCEPT !.pc = "scan", !.ids = owned[t],
                                                       !.all = all, !.async = async]]
         /\ awaiter' = [awaiter EXCEPT ![t] = [id |-> current_awaiter_id, all |-> all,
                                               count |-> Cardinality(owned[t]), current |-> 0]]
  BY DEF AwaiterNew
<1> k \in Nat \ {0} /\ current_awaiter_id' = k + 1 /\ k + 1 \in Nat \ {0} /\ k < k + 1
    /\ \A x \in Nat : x < k => x # k /\ x < k + 1
  <2>1. current_awaiter_id \in Nat \ {0} /\ current_awaiter_id' = current_awaiter_id + 1
    BY DEF AwaiterNew, Typed
  <2>2. \A c \in Nat \ {0} : c + 1 \in Nat \ {0} /\ c < c + 1 /\ \A x \in Nat : x < c => x # c /\ x < c + 1
    BY SMTT(30)
  <2>3. QED
    BY <1>1, <2>1, <2>2
<1>3. owned[t] \in SUBSET Nat /\ owned[t] \subseteq DOMAIN messages /\ owned[t] \subseteq 1 .. MaxId
  BY DEF Typed, Contexts
<1>4. Cardinality(owned[t]) \in Nat
  OBVIOUS
<1>5. PICK a : a = [id |-> k, all |-> all, count |-> Cardinality(owned[t]), current |-> 0]
  OBVIOUS
<1> /\ a \in [id : Nat, all : BOOLEAN, count : Nat, current : Nat]
    /\ a.id = k /\ a.all = all /\ a.count = Cardinality(owned[t])
  BY <1>2, <1>4, <1>5, SMTT(30)
<1>6. awaiter' = [awaiter EXCEPT ![t] = a]
  BY <1>1, <1>2, <1>5
<1>7. /\ awaiter' \in [Thread -> [id : Nat, all : BOOLEAN, count : Nat, current : Nat]]
      /\ awaiter'[t] = a /\ \A u \in Thread \ {t} : awaiter'[u] = awaiter[u]
  BY <1>6 DEF Typed
<1>8. PICK r : r = [Idle EXCEPT !.pc = "scan", !.ids = owned[t], !.all = all, !.async = async]
  OBVIOUS
<1> /\ r \in Local /\ r.pc = "scan" /\ r.ids = owned[t] /\ r.all = all /\ r.async = async
    /\ r.buf = NULL /\ r.ctx = 0 /\ r.ret = "idle"
  BY <1>2, <1>3, <1>8 DEF Idle, Local, Pc, Status
<1>9. local' = [local EXCEPT ![t] = r]
  BY <1>2, <1>8
<1> Moves(t) /\ local'[t] = r
  BY <1>9, Moved
<1>10. ~InAwait(t) /\ awaiter[t].id = 0
  <2>1. local[t].pc \notin AwaitPc \cup WaitPc
    BY DEF AwaitPc, WaitPc
  <2>2. QED
    BY <2>1, NotInAwait
<1>11. InAwait(t)'
  BY DEF InAwait, AwaitPc
<1>12. \A u \in Thread \ {t} : local'[u] = local[u] /\ (InAwait(u)' <=> InAwait(u))
  BY DEF Moves, InAwait
<1>13. /\ \A u \in Thread : awaiter[u].id \in Nat /\ awaiter[u].id < k /\ local[u].mark \in Nat
       /\ \A id \in DOMAIN messages : messages[id].awaiter \in Nat /\ messages[id].awaiter < k
  <2>1. \A u \in Thread : awaiter[u].id \in Nat /\ local[u].mark \in Nat
    BY DEF Typed, Local
  <2>2. \A id \in DOMAIN messages : messages[id].awaiter \in Nat
    BY DEF Typed, Slot
  <2>3. /\ \A u \in Thread : awaiter[u].id < k
        /\ \A id \in DOMAIN messages : messages[id].awaiter < k
    <3>1. \A u \in Thread : awaiter[u].id < current_awaiter_id
      BY DEF Awaits
    <3>2. \A id \in DOMAIN messages : messages[id].awaiter < current_awaiter_id
      BY DEF Awaits
    <3>3. QED
      BY <1>1, <3>1, <3>2
  <2>4. QED
    BY <2>1, <2>2, <2>3
<1> local'[t].pc \notin {"mark", "touch"} /\ local[t].pc \notin {"mark", "touch"}
  OBVIOUS
<1>14. Awaits'
  <2>1. ASSUME NEW u \in Thread
        PROVE  (/\ awaiter[u].id < current_awaiter_id
                /\ awaiter[u].id # 0 <=> InAwait(u)
                /\ local[u].pc \in {"mark", "touch"} => local[u].mark < current_awaiter_id)'
    <3>1. CASE u = t
      BY <1>7, <1>11, <3>1
    <3>2. CASE u # t
      <4>1. /\ awaiter[u].id # 0 <=> InAwait(u)
            /\ local[u].pc \in {"mark", "touch"} => local[u].mark < k
        BY <1>1 DEF Awaits
      <4>2. awaiter'[u] = awaiter[u] /\ local'[u] = local[u] /\ (InAwait(u)' <=> InAwait(u))
        BY <1>7, <1>12, <3>2
      <4>3. QED
        BY <1>13, <4>1, <4>2
    <3>3. QED
      BY <3>1, <3>2
  <2>2. (\A u, v \in Thread : awaiter[u].id = awaiter[v].id => u = v \/ awaiter[u].id = 0)'
    <3>1. \A u, v \in Thread : awaiter[u].id = awaiter[v].id => u = v \/ awaiter[u].id = 0
      BY DEF Awaits
    <3>2. \A u \in Thread : awaiter[u].id # k
      BY <1>13
    <3>3. QED
      BY <1>7, <3>1, <3>2, SMTT(30)
  <2>3. (\A id \in DOMAIN messages : messages[id].awaiter < current_awaiter_id)'
    BY <1>13
  <2>4. (\A j \in DOMAIN awaiters :
          awaiter[awaiters[j]].id = j /\ local[awaiters[j]].pc \notin {"scan", "cleanup"} /\ j # 0)'
    <3> SUFFICES ASSUME NEW j \in DOMAIN awaiters
                 PROVE  (awaiter[awaiters[j]].id = j /\ local[awaiters[j]].pc \notin {"scan", "cleanup"} /\ j # 0)'
      OBVIOUS
    <3>1. awaiter[awaiters[j]].id = j /\ local[awaiters[j]].pc \notin {"scan", "cleanup"} /\ j # 0
      BY DEF Awaits
    <3>2. awaiters[j] \in Thread /\ awaiters[j] # t
      BY <1>10, <3>1 DEF Typed
    <3>3. local'[awaiters[j]] = local[awaiters[j]] /\ awaiter'[awaiters[j]] = awaiter[awaiters[j]]
      BY <1>7, <1>12, <3>2
    <3>4. QED
      BY <3>1, <3>3
  <2>5. (\A u \in Thread : InAwait(u) /\ local[u].pc \notin {"scan", "cleanup"} =>
          awaiter[u].id \in DOMAIN awaiters)'
    <3> SUFFICES ASSUME NEW u \in Thread, InAwait(u)', local'[u].pc \notin {"scan", "cleanup"}
                 PROVE  awaiter'[u].id \in DOMAIN awaiters
      OBVIOUS
    <3>1. u # t
      OBVIOUS
    <3>2. awaiter'[u] = awaiter[u] /\ local'[u] = local[u] /\ InAwait(u)
      BY <1>7, <1>12, <3>1
    <3>3. QED
      BY <3>2 DEF Awaits
  <2>6. (\A u \in Thread : local[u].pc = "touch" =>
          local[u].mark # 0 /\ local[u].ptr \in Thread /\ awaiter[local[u].ptr].id = local[u].mark)'
    <3> SUFFICES ASSUME NEW u \in Thread, local'[u].pc = "touch"
                 PROVE  local'[u].mark # 0 /\ local'[u].ptr \in Thread /\ awaiter'[local'[u].ptr].id = local'[u].mark
      OBVIOUS
    <3>1. u # t
      OBVIOUS
    <3>2. local'[u] = local[u]
      BY <1>12, <3>1
    <3>3. local[u].mark # 0 /\ local[u].ptr \in Thread /\ awaiter[local[u].ptr].id = local[u].mark
      BY <3>2 DEF Awaits
    <3>4. local[u].ptr # t
      BY <1>10, <3>3
    <3>5. QED
      BY <1>7, <3>2, <3>3, <3>4, SMTT(30)
  <2>7. QED
    BY <2>1, <2>2, <2>3, <2>4, <2>5, <2>6 DEF Awaits
<1>15. Role(t)'
  <2>1. local'[t].pc \notin SendPc \cup WaitPc \cup ReadPc \cup {"cnd_wait", "asleep"}
    BY DEF SendPc, WaitPc, ReadPc
  <2>2. async => all /\ Uses(t, "await_all_async")
    <3>1. ~Uses(t, "await_any_async")
      BY DEF Disciplined, Uses
    <3>2. QED
      BY <1>2, <3>1
  <2>3. ~async => Syncs(scenario, t)
    BY <1>2, SMTT(30) DEF Uses, Syncs
  <2>4. Uses(t, "await_all_async")' <=> Uses(t, "await_all_async")
    BY DEF Uses
  <2>5. Syncs(scenario, t)' <=> Syncs(scenario, t)
    OBVIOUS
  <2>6. QED
    BY <2>1, <2>2, <2>3, <2>4, <2>5 DEF Role
<1>16. Awaiting(t)'
  <2>1. \A id \in DOMAIN messages' : messages'[id].awaiter # awaiter'[t].id
    BY <1>7, <1>13
  <2>2. Marking(awaiter[t].id)' = {}
    <3>1. Marking(k) = {}
      <4>1. \A u \in Thread : local[u].pc \in {"mark", "touch"} => local[u].mark < k
        BY <1>1 DEF Awaits
      <4>2. \A u \in Thread : local[u].pc \in {"mark", "touch"} => local[u].mark # k
        BY <1>13, <4>1
      <4>3. QED
        BY <4>2 DEF Marking
    <3>2. Marking(k)' = Marking(k)
      BY MarkingKept
    <3>3. awaiter'[t].id = k
      BY <1>7
    <3>4. QED
      BY <3>1, <3>2, <3>3
  <2>3. (InAwait(t) => awaiter[t].count = Cardinality(local[t].ids) /\ awaiter[t].all = local[t].all)'
    BY <1>7
  <2>4. local'[t].pc = "scan"
    OBVIOUS
  <2>5. QED
    BY <2>1, <2>2, <2>3, <2>4, SMTT(30) DEF Awaiting
<1>17. ReadyOK'
  <2>1. \A id : Decided(id) => Decided(id)'
    BY DEF Decided
  <2>2. QED
    BY <2>1, ReadySame
<1>18. SameSlots /\ \A id \in DOMAIN messages : messages'[id] \in Slot
  BY DEF SameSlots, Typed
<1>19. /\ local[t].pc \in AwaitPc \cup {"idle"} /\ r.pc \in AwaitPc \cup {"idle", "lock"}
       /\ InAwait(t)' => r.ids \subseteq owned[t]
       /\ \A j \in DOMAIN awaiters' : awaiters'[j] \in Thread
       /\ current_awaiter_id' \in Nat \ {0}
       /\ \A u \in Thread \ {t} : InAwait(u) =>
             \A id \in DOMAIN messages : (messages'[id].awaiter = awaiter[u].id <=> messages[id].awaiter = awaiter[u].id)
  BY DEF AwaitPc, Typed
<1>20. QED
  BY <1>7, <1>9, <1>14, <1>15, <1>16, <1>17, <1>18, <1>19, AwaitStep

\* The section of gracht_client_await_multiple under messages_lock: it counts what is done
\* and points the descriptors at the awaiter before anybody can count one for it.
LEMMA AwaitMultipleKeeps ==
    ASSUME ClientInv, NEW t \in Thread, gracht_client_await_multiple(t), Countable(t),
           Cardinality({}) = 0
    PROVE  ClientInv'
<1> Typed /\ Contexts /\ Awaits /\ Role(t) /\ Awaiting(t) /\ local[t].pc = "scan"
  BY DEF ClientInv, gracht_client_await_multiple, At
<1> UNCHANGED <<current_message_id, current_awaiter_id, swap, send_lock, pool, content, owned, ready,
                pending, incoming, open, scenario, events, errors>>
  BY DEF gracht_client_await_multiple, envVars
<1> /\ InAwait(t) /\ local[t] \in Local /\ local[t].buf = NULL /\ local[t].ctx = 0 /\ local[t].ret = "idle"
    /\ awaiter[t].id # 0 /\ local[t].ids \subseteq owned[t] /\ local[t].ids \subseteq DOMAIN messages
    /\ {id \in local[t].ids : Done(id)} = DoneOf(t)
  BY AwaitState DEF AwaitPc
<1>1. PICK n : n = Cardinality(DoneOf(t))
  OBVIOUS
<1>2. PICK k : k = awaiter[t].id
  OBVIOUS
<1>3. PICK bail \in BOOLEAN : bail <=> (~local[t].all /\ n > 0) \/ n = Cardinality(local[t].ids)
  OBVIOUS
<1>4. PICK pc : pc = IF bail THEN "cleanup" ELSE IF local[t].async THEN "cnd_wait" ELSE "loop"
  OBVIOUS
<1>5. /\ messages' = [id \in DOMAIN messages |->
            IF id \in local[t].ids THEN [messages[id] EXCEPT !.awaiter = k] ELSE messages[id]]
      /\ awaiter' = [awaiter EXCEPT ![t].current = n]
      /\ awaiters' = IF bail THEN awaiters ELSE Put(awaiters, k, t)
      /\ Goto(t, pc)
  BY <1>1, <1>2, <1>3, <1>4 DEF gracht_client_await_multiple
<1> /\ n \in Nat /\ Cardinality(local[t].ids) \in Nat
    /\ n = Cardinality(local[t].ids) => DoneOf(t) = local[t].ids
  <2>1. /\ n \in Nat /\ Cardinality(local[t].ids) \in Nat
        /\ ~(n < Cardinality(local[t].ids)) => DoneOf(t) = local[t].ids
    BY <1>1 DEF Countable
  <2>2. QED
    BY <2>1, SMTT(30)
<1> /\ k \in Nat /\ k # 0 /\ k < current_awaiter_id
  BY <1>2 DEF Typed, Awaits
<1>6. PICK a : a = [awaiter[t] EXCEPT !.current = n]
  OBVIOUS
<1> /\ a \in [id : Nat, all : BOOLEAN, count : Nat, current : Nat]
    /\ a.id = k /\ a.all = awaiter[t].all /\ a.count = awaiter[t].count /\ a.current = n
  <2>1. awaiter[t] \in [id : Nat, all : BOOLEAN, count : Nat, current : Nat]
    BY DEF Typed
  <2>2. QED
    BY <1>2, <1>6, <2>1
<1>7. awaiter' = [awaiter EXCEPT ![t] = a]
  BY <1>5, <1>6
<1>8. /\ awaiter' \in [Thread -> [id : Nat, all : BOOLEAN, count : Nat, current : Nat]]
      /\ awaiter'[t] = a /\ \A u \in Thread \ {t} : awaiter'[u] = awaiter[u]
  BY <1>7 DEF Typed
<1>9. \A u \in Thread : awaiter'[u].id = awaiter[u].id
  BY <1>2, <1>8
<1>10. PICK r : r = [local[t] EXCEPT !.pc = pc]
  OBVIOUS
<1> pc \in {"cleanup", "cnd_wait", "loop"}
  BY <1>4
<1> /\ r \in Local /\ r.pc = pc /\ r.ctx = 0 /\ r.ret = "idle" /\ r.ids = local[t].ids
    /\ r.all = local[t].all /\ r.async = local[t].async /\ r.buf = NULL
  BY <1>10, SMTT(30) DEF Local, Pc
<1>11. local' = [local EXCEPT ![t] = r]
  BY <1>5, <1>10 DEF Goto
<1> Moves(t) /\ local'[t] = r
  BY <1>11, Moved
<1>12. InAwait(t)' /\ \A u \in Thread : (InAwait(u)' <=> InAwait(u)) /\ (u # t => local'[u] = local[u])
  <2>1. InAwait(t)'
    BY DEF InAwait, AwaitPc
  <2>2. QED
    BY <2>1 DEF InAwait, Moves
<1>13. /\ DOMAIN messages' = DOMAIN messages
       /\ \A id \in local[t].ids : messages'[id] = [messages[id] EXCEPT !.awaiter = k]
       /\ \A id \in DOMAIN messages : id \notin local[t].ids => messages'[id] = messages[id]
  BY <1>5
<1>14. /\ \A id \in local[t].ids : /\ messages'[id] \in Slot /\ messages'[id].awaiter = k
                                   /\ messages'[id].status = messages[id].status
                                   /\ messages'[id].buffer = messages[id].buffer
       /\ \A id \in DOMAIN messages : messages[id] \in Slot
  <2>1. \A id \in DOMAIN messages : messages[id] \in Slot
    BY DEF Typed
  <2>2. ASSUME NEW id \in local[t].ids
        PROVE  /\ messages'[id] \in Slot /\ messages'[id].awaiter = k
               /\ messages'[id].status = messages[id].status
               /\ messages'[id].buffer = messages[id].buffer
    <3>1. messages[id] \in Slot
      BY <2>1
    <3>2. QED
      BY <1>13, <3>1 DEF Slot
  <2>3. QED
    BY <2>1, <2>2
<1>15. SameSlots /\ \A id \in DOMAIN messages : messages'[id] \in Slot
  <2>1. \A id \in DOMAIN messages : /\ messages'[id].status = messages[id].status
                                    /\ messages'[id].buffer = messages[id].buffer
    BY <1>13, <1>14
  <2>2. \A id \in DOMAIN messages : messages'[id] \in Slot
    BY <1>13, <1>14
  <2>3. QED
    BY <1>13, <2>1, <2>2 DEF SameSlots
<1>16. \A id : Decided(id)' <=> Decided(id)
  BY <1>15 DEF SameSlots, Decided
<1>17. /\ bail => awaiters' = awaiters
       /\ ~bail => /\ DOMAIN awaiters' = DOMAIN awaiters \cup {k} /\ awaiters'[k] = t
                   /\ \A j \in DOMAIN awaiters : j # k => awaiters'[j] = awaiters[j]
  BY <1>5, SMTT(30) DEF Put
<1>18. \A j \in DOMAIN awaiters : /\ awaiters[j] \in Thread /\ awaiters[j] # t /\ awaiter[awaiters[j]].id = j
                                  /\ local[awaiters[j]].pc \notin {"scan", "cleanup"} /\ j # 0 /\ j # k
  <2>1. \A j \in DOMAIN awaiters : /\ awaiters[j] \in Thread /\ awaiter[awaiters[j]].id = j
                                   /\ local[awaiters[j]].pc \notin {"scan", "cleanup"} /\ j # 0
    BY DEF Typed, Awaits
  <2>2. \A j \in DOMAIN awaiters : awaiters[j] # t
    BY <2>1
  <2>3. ASSUME NEW j \in DOMAIN awaiters, j = k PROVE FALSE
    <3>1. awaiter[awaiters[j]].id = awaiter[t].id /\ awaiters[j] \in Thread
      BY <1>2, <2>1, <2>3
    <3>2. awaiters[j] = t \/ awaiter[t].id = 0
      BY <3>1 DEF Awaits
    <3>3. QED
      BY <2>2, <3>2
  <2>4. QED
    BY <2>1, <2>2, <2>3
<1>19. \A j \in DOMAIN awaiters' :
          \/ j \in DOMAIN awaiters /\ awaiters'[j] = awaiters[j]
          \/ ~bail /\ j = k /\ awaiters'[j] = t
  BY <1>3, <1>17, <1>18
<1>20. \A j \in DOMAIN awaiters' : awaiters'[j] \in Thread
  BY <1>18, <1>19
<1>21. Awaits'
  <2>1. (\A u \in Thread :
          /\ awaiter[u].id < current_awaiter_id
          /\ awaiter[u].id # 0 <=> InAwait(u)
          /\ local[u].pc \in {"mark", "touch"} => local[u].mark < current_awaiter_id)'
    <3>1. \A u \in Thread :
            /\ awaiter[u].id < current_awaiter_id
            /\ awaiter[u].id # 0 <=> InAwait(u)
            /\ local[u].pc \in {"mark", "touch"} => local[u].mark < current_awaiter_id
      BY DEF Awaits
    <3>2. local'[t].pc \notin {"mark", "touch"}
      OBVIOUS
    <3>3. QED
      BY <1>9, <1>12, <3>1, <3>2
  <2>2. (\A u, v \in Thread : awaiter[u].id = awaiter[v].id => u = v \/ awaiter[u].id = 0)'
    <3>1. \A u, v \in Thread : awaiter[u].id = awaiter[v].id => u = v \/ awaiter[u].id = 0
      BY DEF Awaits
    <3>2. ASSUME NEW u \in Thread, NEW v \in Thread, awaiter'[u].id = awaiter'[v].id
          PROVE  u = v \/ awaiter'[u].id = 0
      BY <1>9, <3>1, <3>2
    <3>3. QED
      BY <3>2
  <2>3. (\A id \in DOMAIN messages : messages[id].awaiter < current_awaiter_id)'
    <3>1. \A id \in DOMAIN messages : messages[id].awaiter < current_awaiter_id
      BY DEF Awaits
    <3>2. QED
      BY <1>13, <1>14, <3>1
  <2>4. (\A j \in DOMAIN awaiters :
          awaiter[awaiters[j]].id = j /\ local[awaiters[j]].pc \notin {"scan", "cleanup"} /\ j # 0)'
    <3> SUFFICES ASSUME NEW j \in DOMAIN awaiters'
                 PROVE  awaiter'[awaiters'[j]].id = j /\ local'[awaiters'[j]].pc \notin {"scan", "cleanup"} /\ j # 0
      OBVIOUS
    <3>1. CASE j \in DOMAIN awaiters /\ awaiters'[j] = awaiters[j]
      <4>1. local'[awaiters[j]] = local[awaiters[j]] /\ awaiter'[awaiters[j]].id = awaiter[awaiters[j]].id
        BY <1>9, <1>12, <1>18, <3>1
      <4>2. QED
        BY <1>18, <3>1, <4>1, SMTT(30)
    <3>2. CASE ~bail /\ j = k /\ awaiters'[j] = t
      <4>1. local'[t].pc \notin {"scan", "cleanup"}
        BY <1>4, <3>2
      <4>2. QED
        BY <1>2, <1>9, <3>2, <4>1
    <3>3. QED
      BY <1>19, <3>1, <3>2
  <2>5. (\A u \in Thread : InAwait(u) /\ local[u].pc \notin {"scan", "cleanup"} =>
          awaiter[u].id \in DOMAIN awaiters)'
    <3> SUFFICES ASSUME NEW u \in Thread, InAwait(u)', local'[u].pc \notin {"scan", "cleanup"}
                 PROVE  awaiter'[u].id \in DOMAIN awaiters'
      OBVIOUS
    <3>1. CASE u = t
      <4>1. ~bail
        BY <1>4, <3>1
      <4>2. QED
        BY <1>2, <1>9, <1>17, <3>1, <4>1
    <3>2. CASE u # t
      <4>1. local'[u] = local[u] /\ InAwait(u)
        BY <1>12, <3>2
      <4>2. awaiter[u].id \in DOMAIN awaiters
        BY <4>1 DEF Awaits
      <4>3. DOMAIN awaiters \subseteq DOMAIN awaiters'
        BY <1>3, <1>17
      <4>4. QED
        BY <1>9, <4>2, <4>3
    <3>3. QED
      BY <3>1, <3>2
  <2>6. (\A u \in Thread : local[u].pc = "touch" =>
          local[u].mark # 0 /\ local[u].ptr \in Thread /\ awaiter[local[u].ptr].id = local[u].mark)'
    <3> SUFFICES ASSUME NEW u \in Thread, local'[u].pc = "touch"
                 PROVE  local'[u].mark # 0 /\ local'[u].ptr \in Thread /\ awaiter'[local'[u].ptr].id = local'[u].mark
      OBVIOUS
    <3>1. u # t
      BY SMTT(30)
    <3>2. local'[u] = local[u]
      BY <1>12, <3>1
    <3>3. local[u].mark # 0 /\ local[u].ptr \in Thread /\ awaiter[local[u].ptr].id = local[u].mark
      BY <3>2 DEF Awaits
    <3>4. QED
      BY <1>9, <3>2, <3>3
  <2>7. QED
    BY <2>1, <2>2, <2>3, <2>4, <2>5, <2>6 DEF Awaits
<1>22. Role(t)'
  <2>1. local'[t].pc \notin SendPc \cup WaitPc \cup ReadPc
    BY DEF SendPc, WaitPc, ReadPc
  <2>2. /\ local[t].async => local[t].all /\ Uses(t, "await_all_async")
        /\ ~local[t].async => Syncs(scenario, t)
    BY DEF Role
  <2>3. Uses(t, "await_all_async")' <=> Uses(t, "await_all_async")
    BY DEF Uses
  <2>4. Syncs(scenario, t)' <=> Syncs(scenario, t)
    OBVIOUS
  <2>5. /\ local'[t].async => local'[t].pc \in {"scan", "cnd_wait", "asleep", "remove", "cleanup"}
        /\ ~local'[t].async => local'[t].pc \notin {"cnd_wait", "asleep"}
    BY <1>4, SMTT(30)
  <2>6. QED
    BY <2>1, <2>2, <2>3, <2>4, <2>5 DEF Role
<1>23. Awaiting(t)'
  <2>1. Marking(k)' = {}
    <3>1. Marking(k) = {}
      BY <1>2 DEF Awaiting
    <3>2. local'[t].pc \notin {"mark", "touch"} /\ local[t].pc \notin {"mark", "touch"}
      OBVIOUS
    <3>3. Marking(k)' = Marking(k)
      BY <3>2, MarkingKept
    <3>4. QED
      BY <3>1, <3>3
  <2>2. awaiter'[t].id = k /\ awaiter'[t].current = n
    BY <1>8
  <2>3. Marking(awaiter[t].id)' = {}
    BY <2>1, <2>2
  <2>4. DoneOf(t)' = DoneOf(t)
    BY <1>16 DEF DoneOf
  <2>5. (InAwait(t) /\ local[t].pc # "scan" =>
          \A id \in DOMAIN messages : messages[id].awaiter = awaiter[t].id <=> id \in local[t].ids)'
    <3>1. \A id \in DOMAIN messages : messages[id].awaiter # k
      BY <1>2 DEF Awaiting
    <3>2. \A id \in DOMAIN messages : messages'[id].awaiter = k <=> id \in local[t].ids
      BY <1>13, <1>14, <3>1
    <3>3. QED
      BY <1>13, <2>2, <3>2
  <2>6. (InAwait(t) => awaiter[t].count = Cardinality(local[t].ids) /\ awaiter[t].all = local[t].all)'
    <3>1. awaiter[t].count = Cardinality(local[t].ids) /\ awaiter[t].all = local[t].all
      BY DEF Awaiting
    <3>2. QED
      BY <1>8, <3>1
  <2>7. (awaiter[t].current + Cardinality(Marking(awaiter[t].id)) = Cardinality(DoneOf(t)))'
    <3>1. Cardinality({}) = 0
      OBVIOUS
    <3>2. n + 0 = n
      BY SMTT(30)
    <3>3. QED
      BY <1>1, <2>2, <2>3, <2>4, <3>1, <3>2
  <2>8. (awaiter[t].current = Cardinality(DoneOf(t)))'
    BY <1>1, <2>2, <2>4
  <2>9. (local[t].pc \in {"remove", "cleanup"} => (local[t].all => DoneOf(t) = local[t].ids))'
    <3>1. pc \in {"remove", "cleanup"} => bail
      BY <1>4
    <3>2. bail /\ local[t].all => DoneOf(t) = local[t].ids
      BY <1>3
    <3>3. QED
      BY <2>4, <3>1, <3>2
  <2>10. local'[t].pc # "scan"
    OBVIOUS
  <2>11. QED
    BY <2>3, <2>5, <2>6, <2>7, <2>8, <2>9, <2>10 DEF Awaiting
<1>24. ASSUME NEW u \in Thread \ {t}, InAwait(u), NEW id \in DOMAIN messages
       PROVE  messages'[id].awaiter = awaiter[u].id <=> messages[id].awaiter = awaiter[u].id
  <2>1. Awaiting(u) /\ u \in Thread
    BY <1>24 DEF ClientInv
  <2>2. CASE id \notin local[t].ids
    BY <1>13, <2>2
  <2>3. CASE id \in local[t].ids
    <3>1. messages'[id].awaiter # awaiter[u].id
      <4>1. messages'[id].awaiter = awaiter[t].id
        BY <1>2, <1>14, <2>3
      <4>2. u # t
        BY <1>24
      <4>3. awaiter[t].id # awaiter[u].id
        BY <2>1, <4>2 DEF Awaits
      <4>4. QED
        BY <4>1, <4>3
    <3>2. messages[id].awaiter # awaiter[u].id
      <4>1. CASE local[u].pc = "scan"
        BY <2>1, <4>1 DEF Awaiting
      <4>2. CASE local[u].pc # "scan"
        <5>1. id \notin owned[u]
          BY <1>24, <2>3 DEF Contexts
        <5>2. local[u].ids \subseteq owned[u]
          BY <1>24 DEF Contexts
        <5>3. QED
          BY <1>24, <2>1, <4>2, <5>1, <5>2 DEF Awaiting
      <4>3. QED
        BY <4>1, <4>2
    <3>3. QED
      BY <3>1, <3>2
  <2>4. QED
    BY <2>2, <2>3
<1>25. ReadyOK'
  BY <1>16, ReadySame
<1>26. /\ local[t].pc \in AwaitPc \cup {"idle"} /\ r.pc \in AwaitPc \cup {"idle", "lock"}
       /\ InAwait(t)' => r.ids \subseteq owned[t]
       /\ current_awaiter_id' \in Nat \ {0}
  BY DEF AwaitPc, Typed
<1>27. QED
  BY <1>8, <1>11, <1>15, <1>20, <1>21, <1>22, <1>23, <1>24, <1>25, <1>26, AwaitStep

\* __await_loop stops when the count says so: every context is decided then.  Otherwise the
\* thread receives, and nothing is counted for the awaiter but by the thread itself.
LEMMA AwaitLoopKeeps ==
    ASSUME ClientInv, NEW t \in Thread, AwaitLoop(t), Countable(t)
    PROVE  ClientInv'
<1> Typed /\ Contexts /\ Buffers /\ Role(t) /\ Locals(t) /\ Awaiting(t) /\ local[t].pc = "loop"
  BY DEF ClientInv, AwaitLoop, At
<1> UNCHANGED <<current_message_id, current_awaiter_id, messages, swap, awaiters, awaiter, send_lock, pool,
                content, owned, ready, pending, incoming, open, scenario, events, errors>>
  BY DEF AwaitLoop, clientVars, envVars
<1> /\ InAwait(t) /\ local[t] \in Local /\ local[t].buf = NULL /\ local[t].ctx = 0 /\ local[t].ret = "idle"
    /\ local[t].ids \subseteq owned[t]
  BY AwaitState DEF AwaitPc
<1> local[t].async = FALSE /\ Syncs(scenario, t) /\ Receives(scenario, t)
  <2>1. ~local[t].async /\ Syncs(scenario, t)
    BY SMTT(30) DEF Role
  <2>2. Receives(scenario, t)
    BY <2>1 DEF Syncs, Receives
  <2>3. local[t].async \in BOOLEAN
    BY DEF Local
  <2>4. QED
    BY <2>1, <2>2, <2>3
<1>1. PICK more \in BOOLEAN : more <=> awaiter[t].current < awaiter[t].count
  OBVIOUS
<1>2. PICK r : r = IF more THEN Receiving(local[t]) ELSE [local[t] EXCEPT !.pc = "remove"]
  OBVIOUS
<1> /\ r \in Local /\ r.ctx = 0 /\ r.ids = local[t].ids /\ r.all = local[t].all /\ r.async = local[t].async
    /\ r.buf = NULL /\ r.stale = local[t].stale
    /\ more => r.pc = "lock" /\ r.ret = "recount"
    /\ ~more => r.pc = "remove" /\ r.ret = "idle"
  <2>1. "remove" \in Pc
    BY DEF Pc
  <2>2. CASE more
    <3>1. r = Receiving(local[t])
      BY <1>2, <2>2
    <3>2. /\ r \in Local /\ r.pc = "lock" /\ r.ctx = local[t].ctx /\ r.ids = local[t].ids /\ r.all = local[t].all
          /\ r.async = local[t].async /\ r.buf = local[t].buf /\ r.stale = local[t].stale /\ r.ret = "recount"
      BY <3>1, LocalReceives
    <3>3. QED
      BY <2>2, <3>2
  <2>3. CASE ~more
    BY <1>2, <2>1, <2>3, LocalAt, SMTT(30)
  <2>4. QED
    BY <2>2, <2>3
<1>3. local' = [local EXCEPT ![t] = r]
  BY <1>1, <1>2 DEF AwaitLoop, Receiving
<1> Moves(t) /\ local'[t] = r
  BY <1>3, Moved
<1>4. Buffers'
  <2>1. SameSlots
    BY DEF SameSlots
  <2>2. QED
    BY <2>1, BuffersKept
<1>5. ReadyOK' /\ pool' \subseteq Buffer
  <2>1. \A id : Decided(id) => Decided(id)'
    BY DEF Decided
  <2>2. QED
    BY <2>1, ReadySame DEF Typed
<1>6. r.pc \in {"lock", "remove"} /\ (r.pc = "remove" => ~more) /\ (r.pc = "lock" => more)
  BY <1>1
<1> /\ r.pc \notin SendPc \cup ReadPc \cup {"handle", "mark", "touch", "exit", "scan", "cleanup", "cnd_wait", "asleep"}
    /\ local[t].pc \notin {"mark", "touch", "scan", "cleanup"}
    /\ r.pc \in AwaitPc \/ r.ret = "recount"
  BY <1>1, <1>6 DEF SendPc, ReadPc, AwaitPc
<1>7. Rest(t)' /\ InAwait(t)' /\ \A k : Marking(k)' = Marking(k)
  <2>1. r.pc \in AwaitPc \/ r.ret = "recount" <=> InAwait(t)
    OBVIOUS
  <2>2. r.pc \in {"scan", "cleanup"} <=> local[t].pc \in {"scan", "cleanup"}
    OBVIOUS
  <2>3. QED
    BY <1>3, <1>4, <1>5, <2>1, <2>2, QuietStep
<1>8. Role(t)'
  <2>1. local[t].async = FALSE /\ local'[t].async = FALSE
    OBVIOUS
  <2>2. Syncs(scenario, t)' /\ Receives(scenario, t)'
    BY DEF Syncs, Receives
  <2>3. local'[t].ret = "recount" => local'[t].pc \in WaitPc
    BY <1>1, SMTT(30) DEF WaitPc
  <2>4. local'[t].pc \in AwaitPc => local'[t].ret = "idle"
    <3>1. "lock" \notin AwaitPc
      BY DEF AwaitPc
    <3>2. QED
      BY <1>1, <3>1
  <2>5. QED
    BY <2>1, <2>2, <2>3, <2>4 DEF Role
<1>9. Locals(t)'
  BY DEF Locals
<1>10. Awaiting(t)'
  <2>1. CASE more
    <3>1. local'[t].pc = "lock"
      BY <2>1
    <3>2. local'[t].pc \notin {"scan", "cnd_wait", "asleep", "loop", "remove", "cleanup"}
      BY <3>1
    <3>3. local[t].pc # "scan"
      OBVIOUS
    <3>4. QED
      BY <3>2, <3>3, AwaitingPlain
  <2>2. CASE ~more
    <3>1. local'[t].pc = "remove"
      BY <2>2
    <3>2. DoneOf(t) = local[t].ids
      <4>1. /\ awaiter[t].current = Cardinality(DoneOf(t)) /\ awaiter[t].count = Cardinality(local[t].ids)
        BY DEF Awaiting
      <4>2. ~(Cardinality(DoneOf(t)) < Cardinality(local[t].ids))
        BY <1>1, <2>2, <4>1
      <4>3. QED
        BY <4>2 DEF Countable
    <3>3. (DoneOf(t) = local[t].ids)'
      BY <3>2 DEF DoneOf, Decided
    <3>4. Marking(awaiter[t].id)' = {}
      <4>1. PICK k : k = awaiter[t].id
        OBVIOUS
      <4>2. local[t].pc \notin WaitPc
        BY DEF WaitPc
      <4>3. Marking(k) = {}
        BY <4>2, SyncAlone
      <4>4. Marking(k)' = {} /\ awaiter'[t].id = k
        BY <1>7, <4>1, <4>3
      <4>5. QED
        BY <4>4
    <3>5. (InAwait(t) /\ local[t].pc # "scan" =>
             \A id \in DOMAIN messages : messages[id].awaiter = awaiter[t].id <=> id \in local[t].ids)'
      BY DEF Awaiting
    <3>6. (InAwait(t) => awaiter[t].count = Cardinality(local[t].ids) /\ awaiter[t].all = local[t].all)'
      BY DEF Awaiting
    <3>7. QED
      BY <3>1, <3>3, <3>4, <3>5, <3>6 DEF Awaiting
  <2>3. QED
    BY <2>1, <2>2
<1>11. QED
  BY <1>7, <1>8, <1>9, <1>10, Together DEF Own

\* The recount of __await_loop: the count is what the descriptors say.
LEMMA RecountKeeps ==
    ASSUME ClientInv, NEW t \in Thread, Recount(t), Countable(t)
    PROVE  ClientInv'
<1> Typed /\ Awaits /\ Role(t) /\ Awaiting(t) /\ local[t].pc = "recount"
  BY DEF ClientInv, Recount, At
<1> UNCHANGED <<current_message_id, current_awaiter_id, messages, swap, awaiters, send_lock, pool,
                content, owned, ready, pending, incoming, open, scenario, events, errors>>
  BY DEF Recount, envVars
<1> /\ InAwait(t) /\ local[t] \in Local /\ local[t].buf = NULL /\ local[t].ctx = 0 /\ local[t].ret = "idle"
    /\ local[t].ids \subseteq owned[t] /\ {id \in local[t].ids : Done(id)} = DoneOf(t)
  <2>1. local[t].pc \in AwaitPc
    BY DEF AwaitPc
  <2>2. QED
    BY <2>1, AwaitState
<1> ~local[t].async /\ Syncs(scenario, t)
  BY SMTT(30) DEF Role
<1>1. PICK n : n = Cardinality(DoneOf(t))
  OBVIOUS
<1>2. n \in Nat
  BY <1>1 DEF Countable
<1>3. PICK a : a = [awaiter[t] EXCEPT !.current = n]
  OBVIOUS
<1> /\ a \in [id : Nat, all : BOOLEAN, count : Nat, current : Nat]
    /\ a.id = awaiter[t].id /\ a.all = awaiter[t].all /\ a.count = awaiter[t].count /\ a.current = n
  <2>1. awaiter[t] \in [id : Nat, all : BOOLEAN, count : Nat, current : Nat]
    BY DEF Typed
  <2>2. QED
    BY <1>2, <1>3, <2>1
<1>4. awaiter' = [awaiter EXCEPT ![t] = a]
  BY <1>1, <1>3 DEF Recount
<1> /\ awaiter' \in [Thread -> [id : Nat, all : BOOLEAN, count : Nat, current : Nat]]
    /\ awaiter'[t] = a /\ \A u \in Thread \ {t} : awaiter'[u] = awaiter[u]
  BY <1>4 DEF Typed
<1>5. \A u \in Thread : awaiter'[u].id = awaiter[u].id
  OBVIOUS
<1>6. PICK r : r = [local[t] EXCEPT !.pc = "loop"]
  OBVIOUS
<1> /\ r \in Local /\ r.pc = "loop" /\ r.ctx = 0 /\ r.ret = "idle" /\ r.ids = local[t].ids
    /\ r.all = local[t].all /\ r.async = local[t].async /\ r.buf = NULL
  BY <1>6, SMTT(30) DEF Local, Pc
<1>7. local' = [local EXCEPT ![t] = r]
  BY <1>6 DEF Recount, Goto
<1> Moves(t) /\ local'[t] = r
  BY <1>7, Moved
<1>8. InAwait(t)'
  BY DEF InAwait, AwaitPc
<1>9. /\ local'[t].pc \notin {"mark", "touch", "scan", "cleanup"}
      /\ local[t].pc \notin {"mark", "touch", "scan", "cleanup"}
  OBVIOUS
<1>10. Awaits'
  <2>1. /\ \A id \in DOMAIN messages' : messages'[id].awaiter < current_awaiter_id
        /\ \A k \in DOMAIN awaiters : awaiters[k] \in Thread
    BY DEF Awaits, Typed
  <2>2. InAwait(t)' <=> InAwait(t)
    BY <1>8
  <2>3. QED
    BY <1>5, <1>9, <2>1, <2>2, AwaitsKept
<1>11. Role(t)'
  <2>1. local'[t].pc \notin SendPc \cup WaitPc \cup ReadPc \cup {"cnd_wait", "asleep"}
    BY DEF SendPc, WaitPc, ReadPc
  <2>2. ~local'[t].async /\ Syncs(scenario, t)'
    BY DEF Syncs
  <2>3. QED
    BY <2>1, <2>2 DEF Role
<1>12. Awaiting(t)'
  <2>1. DoneOf(t)' = DoneOf(t)
    BY DEF DoneOf, Decided
  <2>2. (awaiter[t].current = Cardinality(DoneOf(t)))'
    BY <1>1, <2>1
  <2>3. \A id \in DOMAIN messages : messages[id].awaiter = awaiter[t].id <=> id \in local[t].ids
    BY <1>9 DEF Awaiting
  <2>4. (InAwait(t) /\ local[t].pc # "scan" =>
          \A id \in DOMAIN messages : messages[id].awaiter = awaiter[t].id <=> id \in local[t].ids)'
    BY <1>5, <2>3
  <2>5. (InAwait(t) => awaiter[t].count = Cardinality(local[t].ids) /\ awaiter[t].all = local[t].all)'
    BY DEF Awaiting
  <2>6. local'[t].pc = "loop"
    OBVIOUS
  <2>7. QED
    BY <2>2, <2>4, <2>5, <2>6 DEF Awaiting
<1>13. ReadyOK'
  <2>1. \A id : Decided(id) => Decided(id)'
    BY DEF Decided
  <2>2. QED
    BY <2>1, ReadySame
<1>14. SameSlots /\ \A id \in DOMAIN messages : messages'[id] \in Slot
  BY DEF SameSlots, Typed
<1>15. /\ local[t].pc \in AwaitPc \cup {"idle"} /\ r.pc \in AwaitPc \cup {"idle", "lock"}
       /\ InAwait(t)' => r.ids \subseteq owned[t]
       /\ \A k \in DOMAIN awaiters' : awaiters'[k] \in Thread
       /\ current_awaiter_id' \in Nat \ {0}
       /\ \A u \in Thread \ {t} : InAwait(u) =>
             \A id \in DOMAIN messages : (messages'[id].awaiter = awaiter[u].id <=> messages[id].awaiter = awaiter[u].id)
  BY DEF AwaitPc, Typed
<1>16. QED
  BY <1>7, <1>10, <1>11, <1>12, <1>13, <1>14, <1>15, AwaitStep

----------------------------------------------------------------------------
(* The first state, and steps that change nothing                          *)

\* gracht_client_create leaves a client that knows of no request.
LEMMA ClientInit ==
    ASSUME \A s \in Scenario : Disciplined(s), Init
    PROVE  ClientInv
<1> DOMAIN messages = {} /\ DOMAIN awaiters = {} /\ DOMAIN incoming = {} /\ incoming \in Seq(Letter)
  BY SMTT(30) DEF Init
<1> /\ Idle \in Local /\ Idle.pc = "idle" /\ Idle.ctx = 0 /\ Idle.buf = NULL /\ Idle.ret = "idle"
    /\ Idle.stale = FALSE
  BY DEF Idle, Local, Pc, Status
<1> /\ NoAwaiter \in [id : Nat, all : BOOLEAN, count : Nat, current : Nat] /\ NoAwaiter.id = 0
    /\ Empty \in Slot /\ Empty.status = "inprogress"
  BY SMTT(30) DEF NoAwaiter, Empty, Slot, Status
<1>1. local \in [Thread -> Local] /\ \A t \in Thread : local[t] = Idle
  BY DEF Init
<1>2. /\ awaiter \in [Thread -> [id : Nat, all : BOOLEAN, count : Nat, current : Nat]]
      /\ \A t \in Thread : awaiter[t] = NoAwaiter
  BY DEF Init
<1>3. \A t \in Thread : local[t].pc \notin SendPc \cup WaitPc \cup AwaitPc \cup ReadPc
  <2>1. "idle" \notin SendPc \cup WaitPc \cup AwaitPc \cup ReadPc
    BY DEF SendPc, WaitPc, AwaitPc, ReadPc
  <2>2. QED
    BY <1>1, <2>1
<1>4. \A t \in Thread : ~InAwait(t)
  BY <1>1, <1>3 DEF InAwait
<1>5. Typed
  <2>1. content \in [Buffer -> Letter]
    BY SMTT(30) DEF Init, Letter
  <2>2. /\ current_message_id \in Nat \ {0} /\ current_awaiter_id \in Nat \ {0} /\ errors \in Nat /\ events \in Nat
        /\ open \in BOOLEAN
    BY SMTT(30) DEF Init
  <2>3. /\ owned \in [Thread -> SUBSET Nat] /\ ready \in [Thread -> SUBSET Nat] /\ pool \subseteq Buffer
        /\ send_lock \in Thread \cup {NULL} /\ swap \in Slot
        /\ scenario \in Scenario /\ Disciplined(scenario)
    BY DEF Init
  <2>4. QED
    BY <1>1, <1>2, <2>1, <2>2, <2>3 DEF Typed
<1>6. Ids
  <2>1. \A t \in Thread : local[t].pc \notin {"id_load", "id_store", "send"}
    BY <1>3 DEF SendPc
  <2>2. QED
    BY <1>3, <2>1 DEF Ids
<1>7. Contexts
  <2>1. \A t \in Thread : owned[t] = {} /\ ready[t] = {}
    BY DEF Init
  <2>2. QED
    BY <1>3, <1>4, <2>1, SMTT(30) DEF Contexts
<1>8. Answers /\ Arrivals
  <2>1. \A t \in Thread : ~Handles(t)
    BY <1>1, SMTT(30) DEF Handles
  <2>2. pending = {} /\ open
    BY DEF Init
  <2>3. QED
    BY <2>1, <2>2 DEF Answers, Arrivals
<1>9. Descriptors
  <2>1. swap.status # "error"
    BY SMTT(30) DEF Init
  <2>2. \A t \in Thread : local[t].pc # "swap_buffer"
    BY <1>1, SMTT(30)
  <2>3. QED
    BY <1>3, <2>1, <2>2 DEF Descriptors
<1>10. Buffers
  <2>1. pool = Buffer /\ NULL \notin pool /\ \A t \in Thread : local[t].buf = NULL
    BY <1>1, ClientAssumption DEF Init
  <2>2. QED
    BY <2>1 DEF Buffers
<1>11. Awaits
  <2>1. \A t \in Thread : awaiter[t].id = 0 /\ awaiter[t].id < current_awaiter_id
    BY <1>2, SMTT(30) DEF Init
  <2>2. \A t \in Thread : local[t].pc \notin {"mark", "touch"}
    BY <1>1, SMTT(30)
  <2>3. \A t \in Thread : local[t].pc # "touch"
    BY <2>2
  <2>4. QED
    BY <1>4, <2>1, <2>2, <2>3 DEF Awaits
<1>12. ASSUME NEW t \in Thread PROVE Role(t) /\ Locals(t) /\ Awaiting(t)
  <2>1. local[t].pc = "idle" /\ local[t].buf = NULL /\ local[t].ret = "idle"
    BY <1>1
  <2>2. Role(t)
    BY <1>3, <1>4, <2>1 DEF Role
  <2>3. Locals(t)
    BY <1>3, <2>1 DEF Locals
  <2>4. Awaiting(t)
    BY <1>4, <2>1, SMTT(30) DEF Awaiting
  <2>5. QED
    BY <2>2, <2>3, <2>4
<1>13. QED
  BY <1>5, <1>6, <1>7, <1>8, <1>9, <1>10, <1>11, <1>12 DEF ClientInv

\* Nothing changes, the invariant included.
LEMMA ClientStutter ==
    ASSUME ClientInv, UNCHANGED vars
    PROVE  ClientInv'
<1> UNCHANGED <<current_message_id, current_awaiter_id, messages, swap, awaiters, awaiter, send_lock, pool,
                content, local, owned, ready, pending, incoming, open, scenario, events, errors>>
  BY DEF vars, clientVars, threadVars, envVars
<1> Typed /\ Ids /\ Contexts /\ Answers /\ Arrivals /\ Descriptors /\ Buffers /\ Awaits
  BY DEF ClientInv
<1>1. \A t \in Thread : Role(t) /\ Locals(t) /\ Awaiting(t)
  BY DEF ClientInv
<1>2. Typed'
  BY DEF Typed
<1>3. Ids'
  BY DEF Ids, Spent
<1>4. Contexts'
  BY DEF Contexts, Decided, InAwait
<1>5. Answers' /\ Arrivals'
  BY DEF Answers, Arrivals, InProgress, Handles, Expected
<1>6. Descriptors' /\ Buffers'
  BY DEF Descriptors, Buffers
<1>7. Awaits'
  BY DEF Awaits, InAwait
<1>8. ASSUME NEW t \in Thread PROVE Role(t)' /\ Locals(t)' /\ Awaiting(t)'
  <2>1. Role(t)' /\ Locals(t)'
    BY <1>1 DEF Role, Locals, InAwait, Uses, Decided
  <2>2. Awaiting(t)'
    BY <1>1 DEF Awaiting, InAwait, Marking, DoneOf, Decided
  <2>3. QED
    BY <2>1, <2>2
<1>9. QED
  BY <1>2, <1>3, <1>4, <1>5, <1>6, <1>7, <1>8 DEF ClientInv

\* The call that a buffer is with is the one that holds it.
LEMMA HeldMeansLocal ==
    ASSUME ClientInv, NEW t \in Thread, NEW b \in Buffer
    PROVE  HeldBy(t, b) <=> local[t].buf = b
<1>1. Descriptors /\ Locals(t)
  BY DEF ClientInv
<1>2. ASSUME local[t].buf = b PROVE HeldBy(t, b)
  <2>1. b # NULL
    BY ClientAssumption
  <2>2. CASE local[t].pc \in ReadPc
    <3>1. local[t].result = "completed"
      BY <1>1, <1>2, <2>1, <2>2 DEF Descriptors
    <3>2. QED
      BY <1>2, <2>2, <3>1 DEF HeldBy, ReadPc
  <2>3. CASE local[t].pc \notin ReadPc
    <3>1. ~local[t].stale
      BY <1>1, <1>2, <2>1 DEF Locals
    <3>2. QED
      BY <1>2, <2>3, <3>1 DEF HeldBy, ReadPc
  <2>4. QED
    BY <2>2, <2>3
<1>3. QED
  BY <1>2 DEF HeldBy

----------------------------------------------------------------------------
(* Steps of RemoteCalls                                                    *)

\* A request that goes on does so in RemoteCalls.
LEMMA TurnAdvances ==
    ASSUME NEW c \in Id, NEW from, NEW to, NEW a, Turn(c, from, to, a)
    PROVE  Calls!Advance(c, from, to, a)
<1> /\ Phase(c) = from /\ Phase(c)' = to /\ AnswerTo(c)' = a
    /\ \A id \in Id : id # c => Phase(id)' = Phase(id) /\ AnswerTo(id)' = AnswerTo(id)
  BY DEF Turn
<1>1. Id' = Id
  BY DEF Id
<1>2. [id \in Id |-> Phase(id)][c] = from
  OBVIOUS
<1>3. [id \in Id |-> Phase(id)]' = [[id \in Id |-> Phase(id)] EXCEPT ![c] = to]
  BY <1>1
<1>4. [id \in Id |-> AnswerTo(id)]' = [[id \in Id |-> AnswerTo(id)] EXCEPT ![c] = a]
  BY <1>1
<1>5. QED
  BY <1>2, <1>3, <1>4 DEF Calls!Advance

\* A step of the client is one of RemoteCalls, or leaves its variables.
LEMMA CallsNext ==
    ASSUME ClientInv, [Next]_vars, \A id : Visible(id), (\A id : Visible(id))',
           Cardinality(Thread) \in Nat
    PROVE  [Calls!Next]_<<[id \in Id |-> Phase(id)], [id \in Id |-> AnswerTo(id)]>>
<1>1. ASSUME Still PROVE UNCHANGED <<[id \in Id |-> Phase(id)], [id \in Id |-> AnswerTo(id)]>>
  <2>1. \A id : Phase(id)' = Phase(id) /\ AnswerTo(id)' = AnswerTo(id)
    BY <1>1, StillView
  <2>2. Id' = Id
    BY DEF Id
  <2>3. QED
    BY <2>1, <2>2
<1>2. CASE UNCHANGED vars
  <2>1. UNCHANGED <<messages, local>>
    BY <1>2 DEF vars, clientVars, threadVars
  <2>2. Still
    BY <2>1 DEF Still
  <2>3. QED
    BY <1>1, <2>2, SMTT(30)
<1>3. ASSUME Turns PROVE Calls!Next
  <2>1. PICK c \in 1 .. MaxId :
           \/ Turn(c, "none", "pending", 0)
           \/ Turn(c, "pending", "answered", c) \/ Turn(c, "pending", "answered", -1)
           \/ Turn(c, "answered", "reading", AnswerTo(c)) \/ Turn(c, "reading", "none", 0)
    BY <1>3 DEF Turns
  <2>2. c \in Id
    BY <2>1, ClientAssumption, SMTT(30) DEF Id
  <2>3. [id \in Id |-> AnswerTo(id)][c] = AnswerTo(c)
    BY <2>2
  <2>4. Calls!Issue(c) \/ Calls!Respond(c) \/ Calls!Reject(c) \/ Calls!Take(c) \/ Calls!Finish(c)
    BY <2>1, <2>2, <2>3, TurnAdvances DEF Calls!Issue, Calls!Respond, Calls!Reject, Calls!Take, Calls!Finish
  <2>5. QED
    BY <2>2, <2>4 DEF Calls!Next
<1>4. QED
  BY <1>1, <1>2, <1>3, ClientTurns, SMTT(30)

----------------------------------------------------------------------------
(* Counting                                                                *)

Finite == INSTANCE FiniteSetTheorems

\* The library counts what this module counts.
LEMMA SameCount ==
    \A S : (IsFiniteSet(S) <=> Finite!IsFiniteSet(S)) /\ Cardinality(S) = Finite!Cardinality(S)
  BY DEF IsFiniteSet, Finite!IsFiniteSet, Cardinality, Finite!Cardinality

\* The number of contexts, of requests or of threads is a number.
LEMMA CountType ==
    ASSUME NEW S, IsFiniteSet(S)
    PROVE  Cardinality(S) \in Nat
  BY SameCount, Finite!FS_CardinalityType

\* Among finitely many contexts, some are done, and when as many are done as there are, all are.
LEMMA CountSubset ==
    ASSUME NEW S, IsFiniteSet(S), NEW T \in SUBSET S
    PROVE  /\ IsFiniteSet(T) /\ Cardinality(T) <= Cardinality(S)
           /\ Cardinality(S) = Cardinality(T) => S = T
  BY SameCount, Finite!FS_Subset

\* Requests are numbered from 1 to a bound.
LEMMA CountInterval ==
    ASSUME NEW b \in Nat
    PROVE  IsFiniteSet(1 .. b)
<1>1. 1 \in Int /\ b \in Int
  BY SMTT(30)
<1>2. QED
  BY <1>1, SameCount, Finite!FS_Interval

\* No context: nothing to wait for.
LEMMA CountEmpty ==
    /\ Cardinality({}) = 0
    /\ \A S : IsFiniteSet(S) /\ Cardinality(S) = 0 => S = {}
  BY SameCount, Finite!FS_EmptySet

\* One owner.
LEMMA CountOne ==
    \A x : Cardinality({x}) = 1
  BY SameCount, Finite!FS_Singleton

\* One more is done.
LEMMA CountAdd ==
    ASSUME NEW S, NEW x, IsFiniteSet(S), x \notin S
    PROVE  Cardinality(S \cup {x}) = Cardinality(S) + 1
  BY SameCount, Finite!FS_AddElement

\* One less is to be counted.
LEMMA CountRemove ==
    ASSUME NEW S, NEW x \in S, IsFiniteSet(S)
    PROVE  IsFiniteSet(S \ {x}) /\ Cardinality(S \ {x}) = Cardinality(S) - 1
  BY SameCount, Finite!FS_RemoveElement

\* The sets that an awaiter counts are finite.
LEMMA Counted ==
    ASSUME Typed, NEW u \in Thread, NEW k
    PROVE  /\ IsFiniteSet(Marking(k)) /\ Cardinality(Marking(k)) \in Nat
           /\ IsFiniteSet(DoneOf(u)) /\ Cardinality(DoneOf(u)) \in Nat
<1>1. IsFiniteSet(Marking(k))
  <2>1. Marking(k) \subseteq Thread /\ IsFiniteSet(Thread)
    BY ClientAssumption DEF Marking
  <2>2. QED
    BY <2>1, CountSubset
<1>2. IsFiniteSet(DoneOf(u))
  <2>1. DoneOf(u) \subseteq 1 .. MaxId
    BY DEF DoneOf, Decided, Typed
  <2>2. IsFiniteSet(1 .. MaxId)
    BY ClientAssumption, CountInterval, SMTT(30)
  <2>3. QED
    BY <2>1, <2>2, CountSubset
<1>3. QED
  BY <1>1, <1>2, CountType

\* The count of an awaiter that waits for a signal takes the message in hand into account.
LEMMA AwaitingDecision ==
    ASSUME ClientInv, NEW t \in Thread, NEW id, Decision(t, id), NEW u \in Thread \ {t}
    PROVE  Awaiting(u)'
<1> Typed /\ Awaiting(u) /\ Role(u) /\ Role(t) /\ Contexts /\ Awaits /\ u \in Thread /\ u # t
  BY DEF ClientInv
<1> /\ local'[u] = local[u] /\ awaiter'[u] = awaiter[u] /\ UNCHANGED scenario
    /\ DOMAIN messages' = DOMAIN messages
    /\ \A i \in DOMAIN messages : messages'[i].awaiter = messages[i].awaiter
  BY DEF Decision
<1> /\ InProgress(id) /\ id \in DOMAIN messages /\ ~Decided(id) /\ Decided(id)'
    /\ \A i : i # id => (Decided(i)' <=> Decided(i))
  <2>1. InProgress(id) /\ id \in DOMAIN messages /\ ~Decided(id) /\ Decided(id)'
    BY DEF Decision, InProgress, Decided
  <2>2. \A i : i # id => (Decided(i)' <=> Decided(i))
    BY DEF Decision, Decided
  <2>3. QED
    BY <2>1, <2>2
<1> /\ local[t].pc = "handle" /\ local'[t].pc = "mark" /\ local'[t].mark = messages[id].awaiter
    /\ \A v \in Thread : v # t => local'[v] = local[v]
  BY DEF Decision, Handles
<1>1. CASE ~(InAwait(u) /\ messages[id].awaiter = awaiter[u].id)
  <2>1. InAwait(u) => Marking(awaiter[u].id)' = Marking(awaiter[u].id)
    <3> SUFFICES ASSUME InAwait(u), NEW k, k = awaiter[u].id PROVE Marking(k)' = Marking(k)
      OBVIOUS
    <3>1. local'[t].mark # k
      BY <1>1
    <3>2. Moves(t)
      BY DEF Decision, Moves
    <3>3. QED
      BY <3>1, <3>2, MarkingKept
  <2>2. CASE InAwait(u)
    <3>1. CASE local[u].pc = "scan"
      <4>1. local'[u].pc = "scan"
        BY <3>1
      <4>2. (/\ \A i \in DOMAIN messages : messages[i].awaiter # awaiter[u].id
             /\ Marking(awaiter[u].id) = {}
             /\ awaiter[u].count = Cardinality(local[u].ids) /\ awaiter[u].all = local[u].all)'
        BY <2>1, <2>2, <3>1 DEF Awaiting
      <4>3. QED
        BY <4>1, <4>2 DEF Awaiting
    <3>2. CASE local[u].pc # "scan"
      <4>1. id \notin local[u].ids
        BY <1>1, <2>2, <3>2 DEF Awaiting
      <4>2. QED
        BY <2>1, <4>1, AwaitingKept
    <3>3. QED
      BY <3>1, <3>2
  <2>3. CASE ~InAwait(u)
    <3>1. local'[u].pc \notin AwaitPc /\ ~InAwait(u)'
      BY <2>3 DEF InAwait
    <3>2. QED
      BY <3>1, AwaitingPlain DEF AwaitPc
  <2>4. QED
    BY <2>2, <2>3
<1>2. CASE InAwait(u) /\ messages[id].awaiter = awaiter[u].id
  <2>1. local[u].pc # "scan" /\ id \in local[u].ids
    BY <1>2 DEF Awaiting
  <2>2. local[u].async
    <3>1. Receives(scenario, t) /\ Disciplined(scenario)
      BY DEF Role, WaitPc, Typed
    <3>2. ~Syncs(scenario, u)
      BY <3>1 DEF Disciplined
    <3>3. QED
      BY <1>2, <3>2 DEF Role
  <2>3. local[u].pc \in {"cnd_wait", "asleep"}
    <3>1. local[u].pc \in {"scan", "cnd_wait", "asleep", "remove", "cleanup"} /\ local[u].all
      BY <1>2, <2>2 DEF Role
    <3>2. local[u].pc \notin {"remove", "cleanup"}
      <4>1. id \notin DoneOf(u)
        BY DEF DoneOf
      <4>2. QED
        BY <2>1, <3>1, <4>1 DEF Awaiting
    <3>3. QED
      BY <2>1, <3>1, <3>2
  <2>4. PICK k : k = awaiter[u].id
    OBVIOUS
  <2>5. Marking(k)' = Marking(k) \cup {t} /\ t \notin Marking(k)
    <3>1. \A v \in Thread : (local'[v].pc \in {"mark", "touch"} /\ local'[v].mark = k)
             <=> (v = t \/ (local[v].pc \in {"mark", "touch"} /\ local[v].mark = k))
      BY <1>2, <2>4
    <3>2. QED
      BY <3>1, SMTT(30) DEF Marking
  <2>6. DoneOf(u)' = DoneOf(u) \cup {id} /\ id \notin DoneOf(u)
    BY <2>1, SMTT(30) DEF DoneOf
  <2>7. /\ Cardinality(Marking(k)') = Cardinality(Marking(k)) + 1 /\ Cardinality(Marking(k)) \in Nat
        /\ Cardinality(DoneOf(u)') = Cardinality(DoneOf(u)) + 1 /\ Cardinality(DoneOf(u)) \in Nat
    <3>1. /\ IsFiniteSet(Marking(k)) /\ Cardinality(Marking(k)) \in Nat
          /\ IsFiniteSet(DoneOf(u)) /\ Cardinality(DoneOf(u)) \in Nat
      BY Counted
    <3>2. Cardinality(Marking(k) \cup {t}) = Cardinality(Marking(k)) + 1
      BY <2>5, <3>1, CountAdd
    <3>3. Cardinality(DoneOf(u) \cup {id}) = Cardinality(DoneOf(u)) + 1
      BY <2>6, <3>1, CountAdd
    <3>4. QED
      BY <2>5, <2>6, <3>1, <3>2, <3>3
  <2>8. awaiter[u].current + Cardinality(Marking(k)) = Cardinality(DoneOf(u)) /\ awaiter[u].current \in Nat
    BY <2>3, <2>4 DEF Awaiting, Typed
  <2>9. awaiter'[u].current + Cardinality(Marking(k)') = Cardinality(DoneOf(u)') /\ awaiter'[u].id = k
    BY <2>4, <2>7, <2>8, SMTT(30)
  <2>10. (awaiter[u].current + Cardinality(Marking(awaiter[u].id)) = Cardinality(DoneOf(u)))'
    BY <2>9
  <2>11. InAwait(u)' /\ local'[u].pc \in {"cnd_wait", "asleep"}
    BY <1>2, <2>3 DEF InAwait
  <2>12. (\A i \in DOMAIN messages : messages[i].awaiter = awaiter[u].id <=> i \in local[u].ids)'
    BY <1>2, <2>1 DEF Awaiting
  <2>13. (awaiter[u].count = Cardinality(local[u].ids) /\ awaiter[u].all = local[u].all)'
    BY <1>2 DEF Awaiting
  <2>14. QED
    BY <2>10, <2>11, <2>12, <2>13 DEF Awaiting
<1>3. QED
  BY <1>1, <1>2

\* A response or a control error is filed with its request.
LEMMA DecidingKeeps ==
    ASSUME ClientInv, NEW t \in Thread, gracht_control_error_invocation(t) \/ HandleResponse(t)
    PROVE  ClientInv'
<1>1. PICK id : DecisionStep(t, id)
  BY ErrorDecides, ResponseDecides
<1>2. \A u \in Thread \ {t} : Awaiting(u)'
  BY <1>1, AwaitingDecision DEF DecisionStep
<1>3. QED
  BY <1>1, <1>2, DecisionKeeps

\* One message less is to be counted, and the last one wakes the awaiter up.
LEMMA AwaitingCounts ==
    ASSUME ClientInv, NEW t \in Thread, NEW u \in Thread, NEW woken \in BOOLEAN, Counts(t, u, woken),
           NEW v \in Thread
    PROVE  Awaiting(v)'
<1> Typed /\ Contexts /\ Awaits /\ Awaiting(u) /\ Awaiting(v) /\ Role(t) /\ Role(u)
  BY DEF ClientInv
<1> /\ local[t].pc = "touch" /\ local'[t].pc = "exit" /\ UNCHANGED <<messages, scenario>>
    /\ awaiter[u].id = local[t].mark /\ InAwait(u)
    /\ \A i \in Thread \ {t} : i # u => local'[i] = local[i]
    /\ \A i \in Thread : local'[i].ids = local[i].ids /\ local'[i].ret = local[i].ret
                         /\ local'[i].all = local[i].all
  BY DEF Counts
<1> /\ awaiter'[u].id = awaiter[u].id /\ awaiter'[u].count = awaiter[u].count
    /\ awaiter'[u].all = awaiter[u].all
    /\ awaiter'[u].current = awaiter[u].current + 1
    /\ \A i \in Thread : i # u => awaiter'[i] = awaiter[i]
  BY SMTT(30) DEF Counts, Typed
<1>1. PICK k : k = awaiter[u].id
  OBVIOUS
<1>2. \A i : Decided(i)' <=> Decided(i)
  BY DEF Decided
<1>3. \A i \in Thread \ {t} : local[i].pc \in {"mark", "touch"} \/ local'[i].pc \in {"mark", "touch"} =>
         local'[i] = local[i]
  BY DEF Counts
<1> Marking(k)' = Marking(k) \ {t} /\ t \in Marking(k)
  <2>1. \A i \in Thread : (local'[i].pc \in {"mark", "touch"} /\ local'[i].mark = k)
           <=> (i # t /\ local[i].pc \in {"mark", "touch"} /\ local[i].mark = k)
    BY <1>3
  <2>2. QED
    BY <1>1, <2>1, SMTT(30) DEF Marking
<1>4. \A j : j # k => Marking(j)' = Marking(j)
  <2> TAKE j
  <2> HAVE j # k
  <2>1. \A i \in Thread : (local'[i].pc \in {"mark", "touch"} /\ local'[i].mark = j)
           <=> (local[i].pc \in {"mark", "touch"} /\ local[i].mark = j)
    BY <1>1, <1>3
  <2>2. QED
    BY <2>1 DEF Marking
<1>5. CASE v = t
  <2>1. InAwait(t)' <=> InAwait(t)
    BY DEF InAwait, AwaitPc
  <2>2. awaiter'[t].id = awaiter[t].id /\ awaiter'[t].count = awaiter[t].count /\ awaiter'[t].all = awaiter[t].all
    OBVIOUS
  <2>3. QED
    BY <1>5, <2>1, <2>2, AwaitingPlain
<1>6. CASE v # t /\ v # u
  <2>1. local'[v] = local[v] /\ awaiter'[v] = awaiter[v]
    BY <1>6
  <2>2. InAwait(v) => awaiter[v].id # k
    BY <1>1, <1>6, SMTT(30) DEF Awaits
  <2>3. InAwait(v) => Marking(awaiter[v].id)' = Marking(awaiter[v].id)
    <3> SUFFICES ASSUME InAwait(v), NEW j, j = awaiter[v].id PROVE Marking(j)' = Marking(j)
      BY <2>1
    <3>1. QED
      BY <1>4, <2>2
  <2>4. QED
    BY <1>2, <2>1, <2>3, AwaitingKept
<1>7. CASE v = u /\ u # t
  <2>1. local[u].async /\ local[u].all /\ local[u].pc \in {"cnd_wait", "asleep"}
    <3>1. Receives(scenario, t) /\ Disciplined(scenario)
      BY DEF Role, WaitPc, Typed
    <3>2. ~Syncs(scenario, u)
      BY <1>7, <3>1 DEF Disciplined
    <3>3. local[u].async
      BY <3>2 DEF Role
    <3>4. local[u].pc \in {"scan", "cnd_wait", "asleep", "remove", "cleanup"} /\ local[u].all
      BY <3>3 DEF Role
    <3>5. local[u].pc \notin {"scan", "remove", "cleanup"}
      BY <1>1 DEF Awaiting
    <3>6. QED
      BY <3>3, <3>4, <3>5
  <2>2. /\ Cardinality(Marking(k)') = Cardinality(Marking(k)) - 1 /\ Cardinality(Marking(k)) \in Nat
        /\ IsFiniteSet(Marking(k)') /\ Cardinality(Marking(k)') \in Nat
        /\ IsFiniteSet(DoneOf(u)) /\ Cardinality(DoneOf(u)) \in Nat
    <3>1. /\ IsFiniteSet(Marking(k)) /\ Cardinality(Marking(k)) \in Nat
          /\ IsFiniteSet(DoneOf(u)) /\ Cardinality(DoneOf(u)) \in Nat
      BY Counted
    <3>2. IsFiniteSet(Marking(k) \ {t}) /\ Cardinality(Marking(k) \ {t}) = Cardinality(Marking(k)) - 1
      BY <3>1, CountRemove
    <3>3. QED
      BY <3>1, <3>2, CountType
  <2>3. awaiter[u].current + Cardinality(Marking(k)) = Cardinality(DoneOf(u)) /\ awaiter[u].current \in Nat
    BY <1>1, <2>1 DEF Awaiting, Typed
  <2>4. DoneOf(u)' = DoneOf(u)
    BY <1>2 DEF DoneOf
  <2>5. awaiter'[u].current + Cardinality(Marking(k)') = Cardinality(DoneOf(u)')
    BY <2>2, <2>3, <2>4, SMTT(30)
  <2>6. (\A i \in DOMAIN messages : messages[i].awaiter = awaiter[u].id <=> i \in local[u].ids)'
    BY <2>1 DEF Awaiting
  <2>7. (awaiter[u].count = Cardinality(local[u].ids) /\ awaiter[u].all = local[u].all)'
    BY DEF Awaiting
  <2>8. CASE local'[u] = local[u]
    <3>1. (awaiter[u].current + Cardinality(Marking(awaiter[u].id)) = Cardinality(DoneOf(u)))'
      BY <1>1, <2>5
    <3>2. local'[u].pc \in {"cnd_wait", "asleep"}
      BY <2>1, <2>8
    <3>3. QED
      BY <1>7, <2>6, <2>7, <3>1, <3>2 DEF Awaiting
  <2>9. CASE local'[u].pc = "remove" /\ (awaiter[u].all => awaiter[u].current + 1 = awaiter[u].count)
    <3>1. awaiter[u].count = Cardinality(local[u].ids) /\ awaiter[u].all
      BY <2>1 DEF Awaiting
    <3>2. Marking(k)' = {} /\ DoneOf(u) = local[u].ids
      <4>1. IsFiniteSet(local[u].ids) /\ DoneOf(u) \subseteq local[u].ids
        <5>1. local[u].ids \subseteq 1 .. MaxId
          BY DEF Contexts, Typed
        <5>2. IsFiniteSet(1 .. MaxId)
          BY ClientAssumption, CountInterval, SMTT(30)
        <5>3. IsFiniteSet(local[u].ids)
          BY <5>1, <5>2, CountSubset
        <5>4. QED
          BY <5>3 DEF DoneOf
      <4>2. Cardinality(DoneOf(u)) <= Cardinality(local[u].ids)
        BY <4>1, CountSubset
      <4>3. Cardinality(Marking(k)') = 0 /\ Cardinality(DoneOf(u)) = Cardinality(local[u].ids)
        BY <2>2, <2>3, <2>9, <3>1, <4>2, SMTT(30)
      <4>4. Marking(k)' = {}
        BY <2>2, <4>3, CountEmpty
      <4>5. DoneOf(u) = local[u].ids
        BY <4>1, <4>3, CountSubset
      <4>6. QED
        BY <4>4, <4>5
    <3>3. (DoneOf(u) = local[u].ids /\ Marking(awaiter[u].id) = {})'
      BY <1>1, <2>4, <3>2
    <3>4. QED
      BY <1>7, <2>6, <2>7, <2>9, <3>3 DEF Awaiting
  <2>10. QED
    BY <1>7, <2>8, <2>9 DEF Counts
<1>8. QED
  BY <1>5, <1>6, <1>7

\* mark_awaiters touches the awaiter it found.
LEMMA TouchAwaiterKeeps ==
    ASSUME ClientInv, NEW t \in Thread, TouchAwaiter(t)
    PROVE  ClientInv'
<1>1. PICK u \in Thread, woken \in BOOLEAN : Counts(t, u, woken)
  BY TouchCounts
<1>2. \A v \in Thread : Awaiting(v)'
  BY <1>1, AwaitingCounts
<1>3. QED
  BY <1>1, <1>2, CountsKeeps

\* The contexts of an await can be counted, and all are done when the counts agree.
LEMMA AwaitCounted ==
    ASSUME ClientInv, NEW t \in Thread, local[t].pc \in AwaitPc
    PROVE  Countable(t)
<1>1. Typed /\ local[t].ids \subseteq DOMAIN messages
  BY AwaitState DEF ClientInv
<1>2. IsFiniteSet(local[t].ids)
  <2>1. local[t].ids \subseteq 1 .. MaxId
    BY <1>1 DEF Typed
  <2>2. IsFiniteSet(1 .. MaxId)
    BY ClientAssumption, CountInterval, SMTT(30)
  <2>3. QED
    BY <2>1, <2>2, CountSubset
<1>3. PICK n : n = Cardinality(local[t].ids)
  OBVIOUS
<1>4. PICK m : m = Cardinality(DoneOf(t))
  OBVIOUS
<1>5. n \in Nat /\ m \in Nat
  BY <1>1, <1>2, <1>3, <1>4, Counted, CountType
<1>6. m <= n /\ (n = m => local[t].ids = DoneOf(t))
  <2>1. DoneOf(t) \in SUBSET local[t].ids
    BY DEF DoneOf
  <2>2. QED
    BY <1>2, <1>3, <1>4, <2>1, CountSubset
<1>7. ~(m < n) => n = m
  BY <1>5, <1>6, SMTT(30)
<1>8. QED
  BY <1>3, <1>4, <1>5, <1>6, <1>7 DEF Countable

\* gracht_client_await_multiple, from __awaiter_new to the end of __await_loop.
LEMMA AwaitKeeps ==
    ASSUME ClientInv, NEW t \in Thread,
           AwaiterNew(t) \/ gracht_client_await_multiple(t) \/ AwaitLoop(t) \/ Recount(t)
    PROVE  ClientInv'
<1>1. CASE AwaiterNew(t)
  <2>1. owned[t] \subseteq 1 .. MaxId
    BY DEF ClientInv, Typed, Contexts
  <2>2. IsFiniteSet(1 .. MaxId)
    BY ClientAssumption, CountInterval, SMTT(30)
  <2>3. Cardinality(owned[t]) \in Nat
    BY <2>1, <2>2, CountSubset, CountType
  <2>4. QED
    BY <1>1, <2>3, AwaiterNewKeeps
<1>2. CASE gracht_client_await_multiple(t) \/ AwaitLoop(t) \/ Recount(t)
  <2>1. local[t].pc \in AwaitPc
    BY <1>2 DEF gracht_client_await_multiple, AwaitLoop, Recount, At, AwaitPc
  <2>2. Countable(t) /\ Cardinality({}) = 0
    BY <2>1, AwaitCounted, CountEmpty
  <2>3. QED
    BY <1>2, <2>2, AwaitMultipleKeeps, AwaitLoopKeeps, RecountKeeps
<1>3. QED
  BY <1>1, <1>2

----------------------------------------------------------------------------
(* The theorems                                                            *)

\* Every step of a thread and of the server preserves the invariant.
LEMMA ClientNext ==
    ASSUME ClientInv, Next
    PROVE  ClientInv'
<1>1. ASSUME NEW t \in Thread, Send(t) PROVE ClientInv'
  BY <1>1, GetBufferKeeps, MessageIdKeeps, InvokeKeeps DEF Send
<1>2. ASSUME NEW t \in Thread, Wait(t) PROVE ClientInv'
  BY <1>2, CheckStatusKeeps, LockWaitKeeps, PeekFailsKeeps, ReceiveKeeps, ReceiveFailsKeeps, HandleEventKeeps,
     DecidingKeeps, MarkAwaitersKeeps, TouchAwaiterKeeps, ListenOrExitKeeps DEF Wait
<1>3. ASSUME NEW t \in Thread, Await(t) PROVE ClientInv'
  BY <1>3, AwaitKeeps, CndWaitKeeps, AwaitRemoveKeeps, AwaitCleanupKeeps DEF Await
<1>4. ASSUME NEW t \in Thread, Collect(t) PROVE ClientInv'
  BY <1>4, SwapKeeps, FinalizeKeeps DEF Collect
<1>5. ASSUME NEW t \in Thread, Call(t) PROVE ClientInv'
  BY <1>5, WaitMessageKeeps, AwaitKeeps, GetStatusKeeps, CndWaitKeeps DEF Call
<1>6. QED
  BY <1>1, <1>2, <1>3, <1>4, <1>5, ServerKeeps DEF Next

\* The client, used as Disciplined says, keeps the invariant.
THEOREM ClientInvariant ==
    ASSUME \A s \in Scenario : Disciplined(s)
    PROVE  Spec => []ClientInv
<1>1. Init => ClientInv
  BY ClientInit, SMTT(30)
<1>2. ClientInv /\ [Next]_vars => ClientInv'
  BY ClientNext, ClientStutter, SMTT(30)
<1>3. QED
  BY <1>1, <1>2, PTL DEF Spec

\* Every buffer of the pool has one owner.
LEMMA OneOwnerHolds ==
    ASSUME ClientInv
    PROVE  OneOwner
<1> SUFFICES ASSUME NEW b \in Buffer PROVE Owners(b) = 1
  BY DEF OneOwner
<1> Buffers /\ b # NULL
  BY ClientAssumption DEF ClientInv
<1>1. PICK P : P = {p \in {pool} : b \in p}
  OBVIOUS
<1>2. PICK M : M = {id \in DOMAIN messages : messages[id].buffer = b}
  OBVIOUS
<1>3. PICK T : T = {t \in Thread : HeldBy(t, b)}
  OBVIOUS
<1>4. \A t : t \in T <=> t \in Thread /\ local[t].buf = b
  BY <1>3, HeldMeansLocal
<1> Owners(b) = Cardinality(P) + Cardinality(M) + Cardinality(T)
  BY <1>1, <1>2, <1>3 DEF Owners
<1>5. Cardinality({}) = 0 /\ \A x : Cardinality({x}) = 1
  BY CountEmpty, CountOne
<1>6. CASE b \in pool
  <2>1. P = {pool} /\ M = {} /\ T = {}
    BY <1>1, <1>2, <1>4, <1>6 DEF Buffers
  <2>2. Cardinality(P) = 1 /\ Cardinality(M) = 0 /\ Cardinality(T) = 0
    BY <1>5, <2>1
  <2>3. QED
    BY <2>2, SMTT(30)
<1>7. CASE \E id \in DOMAIN messages : messages[id].buffer = b
  <2>1. PICK id \in DOMAIN messages : messages[id].buffer = b
    BY <1>7
  <2>2. P = {}
    BY <1>1, <2>1 DEF Buffers
  <2>3. \A i \in DOMAIN messages : messages[i].buffer = b => i = id
    BY <2>1 DEF Buffers
  <2>4. M = {id}
    BY <1>2, <2>1, <2>3
  <2>5. T = {}
    BY <1>4, <2>1 DEF Buffers
  <2>6. Cardinality(P) = 0 /\ Cardinality(M) = 1 /\ Cardinality(T) = 0
    BY <1>5, <2>2, <2>4, <2>5
  <2>7. QED
    BY <2>6, SMTT(30)
<1>8. CASE \E t \in Thread : local[t].buf = b
  <2>1. PICK t \in Thread : local[t].buf = b
    BY <1>8
  <2>2. P = {}
    BY <1>1, <2>1 DEF Buffers
  <2>3. M = {}
    BY <1>2, <2>1 DEF Buffers
  <2>4. \A u \in Thread : local[u].buf = b => u = t
    BY <2>1 DEF Buffers
  <2>5. T = {t}
    BY <1>4, <2>1, <2>4
  <2>6. Cardinality(P) = 0 /\ Cardinality(M) = 0 /\ Cardinality(T) = 1
    BY <1>5, <2>2, <2>3, <2>5
  <2>7. QED
    BY <2>6, SMTT(30)
<1>9. QED
  BY <1>6, <1>7, <1>8 DEF Buffers

\* No receive buffer is lost, shared or released twice, whatever the threads do.
THEOREM OneOwnerCorrect ==
    ASSUME \A s \in Scenario : Disciplined(s)
    PROVE  Spec => []OneOwner
<1>1. ClientInv => OneOwner
  BY OneOwnerHolds, SMTT(30)
<1>2. QED
  BY <1>1, ClientInvariant, PTL

\* A wait or an await that reports success has its answers, and they stay until they are
\* collected.
THEOREM ReadyCorrect ==
    ASSUME \A s \in Scenario : Disciplined(s)
    PROVE  Spec => []ReadyMeansExecuted
<1>1. ASSUME ClientInv PROVE ReadyMeansExecuted
  <2>1. Typed /\ Contexts
    BY <1>1 DEF ClientInv
  <2> SUFFICES ASSUME NEW t \in Thread, NEW id \in ready[t]
               PROVE  id \in DOMAIN messages /\ Executed(messages[id].status)
    BY DEF ReadyMeansExecuted
  <2>2. Decided(id)
    BY <2>1 DEF Contexts
  <2>3. id \in DOMAIN messages /\ messages[id] \in Slot /\ messages[id].status # "inprogress"
    BY <2>1, <2>2 DEF Decided, Typed
  <2>4. messages[id].status \in Status
    BY <2>3 DEF Slot
  <2>5. QED
    BY <2>3, <2>4 DEF Status, Executed
<1>2. QED
  BY <1>1, ClientInvariant, PTL

\* mark_awaiters touches no awaiter that was freed.
THEOREM AwaiterCorrect ==
    ASSUME \A s \in Scenario : Disciplined(s)
    PROVE  Spec => []AwaiterAlive
<1>1. ClientInv => AwaiterAlive
  BY DEF ClientInv, Awaits, AwaiterAlive
<1>2. QED
  BY <1>1, ClientInvariant, PTL

\* The client implements RemoteCalls: every request is answered once, by its own response or
\* by a rejection, and the answer stays until it was read.
THEOREM CallsCorrect ==
    ASSUME \A s \in Scenario : Disciplined(s)
    PROVE  Spec => IsRemoteCalls
<1>1. Init => Calls!Init
  <2> SUFFICES ASSUME Init PROVE Calls!Init
    OBVIOUS
  <2>1. ClientInv /\ DOMAIN messages = {} /\ \A t \in Thread : local[t].pc \notin ReadPc
    <3>1. Idle.pc \notin ReadPc
      BY SMTT(30) DEF Idle, ReadPc
    <3>2. DOMAIN messages = {}
      BY SMTT(30) DEF Init
    <3>3. QED
      BY <3>1, <3>2, ClientInit DEF Init
  <2>2. \A id : Visible(id)
    BY <2>1, AllVisible
  <2>3. \A id : Reading(id) = {}
    BY <2>1 DEF Reading, ReadPc
  <2>4. \A id : Phase(id) = "none" /\ AnswerTo(id) = 0
    BY <2>1, <2>2, <2>3 DEF Visible
  <2>5. QED
    BY <2>4 DEF Calls!Init
<1>2. ClientInv /\ ClientInv' /\ [Next]_vars =>
        [Calls!Next]_<<[id \in Id |-> Phase(id)], [id \in Id |-> AnswerTo(id)]>>
  <2>1. ClientInv => \A id : Visible(id)
    BY AllVisible, SMTT(30)
  <2>2. ClientInv' => (\A id : Visible(id))'
    BY AllVisible, PTL
  <2>3. Cardinality(Thread) \in Nat
    BY ClientAssumption, CountType
  <2>4. QED
    BY <2>1, <2>2, <2>3, CallsNext, SMTT(30)
<1>3. QED
  BY <1>1, <1>2, ClientInvariant, PTL DEF Spec, IsRemoteCalls, Calls!Spec
=============================================================================
