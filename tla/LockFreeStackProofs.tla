------------------------ MODULE LockFreeStackProofs -------------------------
(***************************************************************************)
(* A buffer that comes out of the lockless stack of runtime/stack.c has    *)
(* one holder, and none is lost, for every number of threads and buffers,  *)
(* as long as the operations are serialised by a lock, or nothing is       *)
(* released while threads acquire.                                         *)
(*                                                                         *)
(* The first invariant says that the places of a buffer exclude each       *)
(* other.  A slot is live when it is below the index or claimed by a pop   *)
(* that has not read it yet, and not claimed by a push that has not stored *)
(* yet.  Live slots hold different buffers, and none that anybody outside  *)
(* has.  A push has the stack for itself, and a growing stack reads the    *)
(* same before and after the exchange of the arrays.                       *)
(*                                                                         *)
(* The second says that a buffer that was allocated is in one of these     *)
(* places: out, in the hand of a push, in a live slot, or dropped by a     *)
(* push that found no memory to grow the stack; and that the dropped ones  *)
(* do not come back.                                                       *)
(*                                                                         *)
(* What is left is to count: a pool never grows, because its live slots    *)
(* and the buffer being pushed are different buffers, so there is a slot   *)
(* left.                                                                   *)
(***************************************************************************)
EXTENDS LockFreeStack, FiniteSetTheorems, TLAPS

-----------------------------------------------------------------------------
(* The places of a buffer exclude each other                               *)

\* Thread t is in stack_push with a buffer in its hand; it has claimed a slot to
\* store to; it is in stack_pop and has claimed a slot to read.
Holding(t) == op[t].pc \in PushPc
Storing(t) == op[t].pc \in {"test", "load", "store"}
Popping(t) == op[t].pc \in {"pop_load", "pop_read"}

\* What slot i of the current array holds.
Top(i) == Read(elements, i)

\* Slot i counts as filled.
Live(i) ==
    /\ i \in Nat
    /\ i < index \/ \E t \in Thread : Popping(t) /\ i = op[t].index - 1
    /\ \A t \in Thread : Storing(t) => i # op[t].index

\* Element arrays of any size.
Array == UNION {[0 .. n - 1 -> Value] : n \in Nat}

\* Types of the fields of struct stack and of the buffers outside it.
Types ==
    /\ index \in Nat /\ count \in Nat \ {0} /\ usage \in Usage
    /\ out \in [Value -> Nat] /\ fresh \subseteq Buffer
    /\ arrays \in Seq(Array) /\ elements \in 1 .. Len(arrays)

\* The copy that stack_resize makes.
Larger == [i \in 0 .. 2 * count - 1 |-> IF i < count THEN Top(i) ELSE Garbage]

\* The locals of the operation in progress, at each place in the code.
Shape(t) ==
    \/ op[t] = Idle
    \/ op[t] \in [pc : {"fetch_add"}, pointer : Buffer]
    \/ op[t] \in [pc : {"test"}, pointer : Buffer, index : Nat]
    \/ op[t] \in [pc : {"load"}, pointer : Buffer, index : 0 .. count - 1]
    \/ op[t] \in [pc : {"store"}, pointer : Buffer, index : 0 .. count - 1, array : {elements}]
    \/ op[t] \in [pc : {"resize"}, pointer : Buffer, size : {2 * count}, original : {0},
                  resized : {<<>>}]
    \/ op[t] \in [pc : {"cas"}, pointer : Buffer, size : {2 * count}, original : {elements},
                  resized : {Larger}]
    \/ op[t] \in [pc : {"count"}, pointer : Buffer, size : {2 * count}, original : Nat,
                  resized : Array]
    \/ op[t] \in [pc : {"pop"}]
    \/ op[t] \in [pc : {"pop_cas", "pop_load"}, index : Nat \ {0}]
    \/ op[t] \in [pc : {"pop_read"}, index : Nat \ {0}, array : {elements}]

\* Every thread is at such a place.
Shapes == DOMAIN op = Thread /\ \A t \in Thread : Shape(t)

\* How the threads share the stack.
Users ==
    /\ usage.serialised \/ usage.releaser = {}
    /\ usage.serialised => \A t, u \in Thread : op[t] # Idle /\ op[u] # Idle => t = u
    /\ usage.releaser = {} => \A t \in Thread : ~Holding(t)

\* The current array has stack->count slots, or the new count's between the
\* exchange of the arrays and the assignment of the count.
Extent ==
    IF \E t \in Thread : At(t, "count")
    THEN DOMAIN arrays[elements] = 0 .. 2 * count - 1
    ELSE DOMAIN arrays[elements] = 0 .. count - 1

\* Pops that have not read yet have claimed different slots above the index.
Claims ==
    /\ \A t \in Thread : Popping(t) => op[t].index > index
    /\ \A t, u \in Thread : Popping(t) /\ Popping(u) /\ op[t].index = op[u].index => t = u

\* Nobody outside the stack has buffer b.
Free(b) ==
    /\ out[b] = 0 /\ b \notin fresh
    /\ \A t \in Thread : Holding(t) => op[t].pointer # b

\* Live slots hold different buffers, which nobody outside the stack has.
Unique ==
    /\ \A i, j : Live(i) /\ Live(j) /\ Top(i) \in Buffer /\ Top(i) = Top(j) => i = j
    /\ \A i : Live(i) /\ Top(i) \in Buffer => Free(Top(i))

\* A buffer outside the stack is held once, or is in the hand of one push, or has
\* not been allocated.
Owned ==
    /\ \A b \in Buffer : out[b] <= 1
    /\ \A b \in fresh : out[b] = 0
    /\ \A t \in Thread : Holding(t) => out[op[t].pointer] = 0 /\ op[t].pointer \notin fresh

\* A pool has a slot for each of its buffers and every live slot holds one.
NoGarbage ==
    usage.prefilled =>
        /\ count = Cardinality(Buffer)
        /\ out[Garbage] = 0
        /\ \A i : Live(i) => Top(i) \in Buffer
        /\ \A t \in Thread : ~(op[t].pc \in {"resize", "cas", "count"})
        /\ \A t \in Thread : op[t].pc = "test" => op[t].index < count

\* The inductive invariant.
StackInv ==
    Types /\ Shapes /\ Users /\ Extent /\ Claims /\ Unique /\ Owned /\ NoGarbage

-----------------------------------------------------------------------------
\* The locals by the place in the code.
LEMMA Fields ==
    ASSUME Types, NEW t \in Thread, Shape(t)
    PROVE  /\ op[t].pc \in PushPc \cup PopPc \cup {"idle"}
           /\ op[t] = Idle <=> op[t].pc = "idle"
           /\ Holding(t) => op[t].pointer \in Buffer
           /\ Storing(t) => op[t].index \in Nat
           /\ op[t].pc \in {"load", "store"} => op[t].index < count
           /\ op[t].pc \in {"store", "pop_read"} => op[t].array = elements
           /\ op[t].pc \in {"resize", "cas", "count"} => op[t].size = 2 * count
           /\ op[t].pc = "cas" => op[t].original = elements /\ op[t].resized = Larger
           /\ op[t].pc \in {"pop_cas", "pop_load", "pop_read"} => op[t].index \in Nat \ {0}
<1> USE DEF Idle, PushPc, PopPc, Holding, Storing, Types
<1>1. CASE op[t] = Idle
  BY <1>1
<1>2. CASE op[t] \in [pc : {"fetch_add"}, pointer : Buffer]
  BY <1>2
<1>3. CASE op[t] \in [pc : {"test"}, pointer : Buffer, index : Nat]
  BY <1>3
<1>4. CASE op[t] \in [pc : {"load"}, pointer : Buffer, index : 0 .. count - 1]
  BY <1>4
<1>5. CASE op[t] \in [pc : {"store"}, pointer : Buffer, index : 0 .. count - 1, array : {elements}]
  BY <1>5
<1>6. CASE op[t] \in [pc : {"resize"}, pointer : Buffer, size : {2 * count}, original : {0},
                      resized : {<<>>}]
  BY <1>6
<1>7. CASE op[t] \in [pc : {"cas"}, pointer : Buffer, size : {2 * count}, original : {elements},
                      resized : {Larger}]
  BY <1>7
<1>8. CASE op[t] \in [pc : {"count"}, pointer : Buffer, size : {2 * count}, original : Nat,
                      resized : Array]
  BY <1>8
<1>9. CASE \/ op[t] \in [pc : {"pop"}]
           \/ op[t] \in [pc : {"pop_cas", "pop_load"}, index : Nat \ {0}]
           \/ op[t] \in [pc : {"pop_read"}, index : Nat \ {0}, array : {elements}]
  BY <1>9
<1>10. QED
  BY <1>1, <1>2, <1>3, <1>4, <1>5, <1>6, <1>7, <1>8, <1>9, Zenon DEF Shape

\* Nothing else is in progress during a push.
LEMMA Alone ==
    ASSUME Users, Shapes, NEW t \in Thread, NEW u \in Thread, Holding(t), op[u] # Idle
    PROVE  t = u
<1>1. op[t] # Idle
  BY DEF Holding, PushPc, Idle
<1>2. usage.serialised
  BY Zenon DEF Users
<1>3. QED
  BY <1>1, <1>2, Zenon DEF Users

\* A slot outside of the array holds no buffer.
LEMMA TopValue ==
    ASSUME Types, NEW i
    PROVE  /\ Top(i) \in Value
           /\ Top(i) \in Buffer => i \in DOMAIN arrays[elements]
           /\ arrays[elements] \in Array
<1>1. arrays[elements] \in Array
  BY DEF Types
<1>2. PICK n \in Nat : arrays[elements] \in [0 .. n - 1 -> Value]
  BY <1>1, Zenon DEF Array
<1>3. QED
  BY <1>1, <1>2, LockFreeStackAssumption, Zenon DEF Top, Read, Value

\* Live slots keep different buffers when none becomes live with a buffer in it
\* and nobody takes a buffer that stays in one.
LEMMA UniqueKept ==
    ASSUME Unique,
           \A i : Live(i)' => (Live(i) /\ Top(i)' = Top(i)) \/ Top(i)' \notin Buffer,
           \A i : Live(i)' /\ Live(i) /\ Top(i) \in Buffer /\ Free(Top(i)) => (Free(Top(i)))'
    PROVE  Unique'
BY Zenon DEF Unique

\* A step of one thread changes its own locals only.
LEMMA Step ==
    ASSUME Shapes, NEW t \in Thread, NEW o, op' = [op EXCEPT ![t] = o]
    PROVE  /\ op'[t] = o /\ DOMAIN op' = Thread
           /\ \A u \in Thread : u # t =>
                 /\ op'[u] = op[u]
                 /\ Holding(u)' = Holding(u) /\ Storing(u)' = Storing(u)
                 /\ Popping(u)' = Popping(u) /\ (\A p : At(u, p)' = At(u, p))
BY Zenon DEF Shapes, Holding, Storing, Popping, At

\* The locals of a thread stay right while the arrays stay.
LEMMA ShapeKept ==
    ASSUME NEW u \in Thread, Shape(u), op'[u] = op[u],
           UNCHANGED <<arrays, elements, count>>
    PROVE  Shape(u)'
<1>1. Larger' = Larger
  BY Zenon DEF Larger, Top, Read
<1>2. QED
  BY <1>1, Zenon DEF Shape

\* Starting and continuing an operation respects the way the stack is shared.
LEMMA UsersKept ==
    ASSUME Users, Shapes, NEW t \in Thread, NEW o, op' = [op EXCEPT ![t] = o],
           MayStart(t) \/ op[t] # Idle, UNCHANGED usage,
           Holding(t)' => Holding(t) \/ usage.releaser # {}
    PROVE  Users'
<1>1. /\ op'[t] = o
      /\ \A u \in Thread : u # t => op'[u] = op[u] /\ Holding(u)' = Holding(u)
  BY Step, Zenon
<1>2. ASSUME usage.serialised, NEW u \in Thread, NEW v \in Thread, op'[u] # Idle, op'[v] # Idle
      PROVE  u = v
  BY <1>1, <1>2, Zenon DEF Users, MayStart
<1>3. usage.releaser = {} => \A u \in Thread : ~Holding(u)'
  BY <1>1, Zenon DEF Users
<1>4. QED
  BY <1>2, <1>3, Zenon DEF Users

\* Steps that change nothing but the locals, and claim no slot, preserve the
\* invariant.
LEMMA Quiet ==
    ASSUME StackInv, NEW t \in Thread, NEW o, op' = [op EXCEPT ![t] = o],
           UNCHANGED <<arrays, elements, index, count, out, fresh, usage>>,
           Shape(t)', MayStart(t) \/ op[t] # Idle,
           Holding(t)' => Holding(t) /\ o.pointer = op[t].pointer,
           Popping(t)' => Popping(t) /\ o.index = op[t].index,
           Storing(t) => Storing(t)' /\ o.index = op[t].index,
           ~At(t, "count"), o.pc \notin {"count", "test"},
           usage.prefilled => o.pc \notin {"resize", "cas"}
    PROVE  StackInv'
<1> USE DEF StackInv
<1>1. /\ op'[t] = o /\ DOMAIN op' = Thread
      /\ \A u \in Thread : u # t =>
            /\ op'[u] = op[u]
            /\ Holding(u)' = Holding(u) /\ Storing(u)' = Storing(u)
            /\ Popping(u)' = Popping(u) /\ (\A p : At(u, p)' = At(u, p))
  BY Step, Zenon
<1>2. Types'
  BY Zenon DEF Types
<1>3. Shapes'
  BY <1>1, ShapeKept, Zenon DEF Shapes
<1>4. Users'
  BY UsersKept, Zenon
<1>5. Extent'
  <2>1. (\E u \in Thread : At(u, "count"))' <=> \E u \in Thread : At(u, "count")
    BY <1>1, Zenon DEF At
  <2>2. QED
    BY <2>1, Zenon DEF Extent
<1>6. Claims'
  BY <1>1 DEF Claims
<1>7. \A i : Top(i)' = Top(i)
  BY Zenon DEF Top, Read
<1>8. \A i : Live(i)' => Live(i)
  BY <1>1 DEF Live
<1>9. \A b : Free(b) => Free(b)'
  BY <1>1, Zenon DEF Free
<1>10. Unique'
  BY <1>7, <1>8, <1>9, UniqueKept, Zenon
<1>11. Owned'
  BY <1>1 DEF Owned
<1>12. NoGarbage'
  BY <1>1, <1>7, <1>8, Zenon DEF NoGarbage
<1>13. QED
  BY <1>2, <1>3, <1>4, <1>5, <1>6, <1>10, <1>11, <1>12, Zenon

\* stack_pop starts, and loads the array to read from.
LEMMA PopStarts ==
    ASSUME StackInv, NEW t \in Thread, stack_pop(t) \/ LoadForRead(t)
    PROVE  StackInv'
<1> USE DEF Holding, Storing, Popping, At, PushPc
<1>1. Types /\ Shapes
  BY Zenon DEF StackInv
<1>2. CASE stack_pop(t)
  <2> DEFINE o == [pc |-> "pop"]
  <2>1. op' = [op EXCEPT ![t] = o] /\ op[t].pc = "idle" /\ MayStart(t)
    BY <1>2 DEF stack_pop, MayStart, Idle
  <2>2. op'[t] = o
    BY <1>1, <2>1, Step, Zenon
  <2>3. Shape(t)'
    BY <2>2 DEF Shape
  <2>4. o.pc = "pop" /\ UNCHANGED <<arrays, elements, index, count, out, fresh, usage>>
    BY <1>2, Zenon DEF stack_pop
  <2> HIDE DEF o
  <2>5. QED
    BY <2>1, <2>2, <2>3, <2>4, Quiet, Zenon
<1>3. CASE LoadForRead(t)
  <2> DEFINE o == [pc |-> "pop_read", index |-> op[t].index, array |-> elements]
  <2>1. op' = [op EXCEPT ![t] = o] /\ op[t].pc = "pop_load" /\ op[t] # Idle
    BY <1>3 DEF LoadForRead, Goto, Idle
  <2>2. op'[t] = o /\ op[t].index \in Nat \ {0}
    BY <1>1, <2>1, Step, Fields, Zenon DEF Shapes
  <2>3. Shape(t)'
    BY <2>2, <1>3 DEF Shape, LoadForRead
  <2>4. /\ o.pc = "pop_read" /\ o.index = op[t].index
        /\ UNCHANGED <<arrays, elements, index, count, out, fresh, usage>>
    BY <1>3, Zenon DEF LoadForRead
  <2> HIDE DEF o
  <2>5. QED
    BY <2>1, <2>2, <2>3, <2>4, Quiet, Zenon
<1>4. QED
  BY <1>2, <1>3, Zenon

\* stack_push finds room, and loads the array to store to.
LEMMA PushLoads ==
    ASSUME StackInv, NEW t \in Thread, LoadForStore(t) \/ (TestCount(t) /\ op[t].index < count)
    PROVE  StackInv'
<1> USE DEF Holding, Storing, Popping, At, PushPc
<1>1. Types /\ Shapes /\ Shape(t)
  BY Zenon DEF StackInv, Shapes
<1>2. CASE LoadForStore(t)
  <2> DEFINE o == [pc |-> "store", pointer |-> op[t].pointer, index |-> op[t].index,
                   array |-> elements]
  <2>1. /\ op' = [op EXCEPT ![t] = o] /\ op[t].pc = "load" /\ op[t] # Idle
        /\ UNCHANGED <<elements, count>>
    BY <1>2 DEF LoadForStore, Goto, Idle
  <2>2. /\ op'[t] = o /\ op[t].index \in Nat /\ op[t].index < count
        /\ op[t].pointer \in Buffer /\ count \in Nat
    BY <1>1, <2>1, Step, Fields, Zenon DEF Types
  <2>3. Shape(t)'
    BY <2>1, <2>2 DEF Shape
  <2>4. /\ o.pc = "store" /\ o.index = op[t].index /\ o.pointer = op[t].pointer
        /\ UNCHANGED <<arrays, elements, index, count, out, fresh, usage>>
    BY <1>2, Zenon DEF LoadForStore
  <2> HIDE DEF o
  <2>5. QED
    BY <2>1, <2>2, <2>3, <2>4, Quiet, Zenon
<1>3. CASE TestCount(t) /\ op[t].index < count
  <2> DEFINE o == [pc |-> "load", pointer |-> op[t].pointer, index |-> op[t].index]
  <2>1. op[t].pc = "test" /\ op[t] # Idle /\ UNCHANGED count
    BY <1>3 DEF TestCount, Idle
  <2>2. op[t] \in [pc : {"test"}, pointer : Buffer, index : Nat] /\ count \in Nat
    BY <1>1, <2>1, Zenon DEF Shape, Types, Idle
  <2>3. op' = [op EXCEPT ![t] = [op[t] EXCEPT !.pc = "load"]]
    BY <1>3, <2>2 DEF TestCount, Goto
  <2>4. [op[t] EXCEPT !.pc = "load"] = o
    BY <2>2
  <2>5. op' = [op EXCEPT ![t] = o]
    BY <2>3, <2>4, Zenon
  <2>6. op'[t] = o
    BY <1>1, <2>5, Step, Zenon
  <2>7. Shape(t)'
    BY <1>3, <2>1, <2>2, <2>6 DEF Shape
  <2>8. /\ o.pc = "load" /\ o.index = op[t].index /\ o.pointer = op[t].pointer
        /\ UNCHANGED <<arrays, elements, index, count, out, fresh, usage>>
    BY <1>3, Zenon DEF TestCount
  <2> HIDE DEF o
  <2>9. QED
    BY <2>1, <2>5, <2>6, <2>7, <2>8, Quiet, Zenon
<1>4. QED
  BY <1>2, <1>3, Zenon

\* stack_resize copies the slots.
LEMMA CopyPreserves ==
    ASSUME StackInv, NEW t \in Thread, ResizeCopy(t)
    PROVE  StackInv'
<1> USE DEF Holding, Storing, Popping, At, PushPc
<1> DEFINE o == [op[t] EXCEPT !.pc = "cas", !.original = elements, !.resized = Larger]
<1>1. Types /\ Shapes /\ Shape(t) /\ op[t].pc = "resize" /\ op[t] # Idle
  BY DEF StackInv, Shapes, ResizeCopy, Idle
<1>2. op[t] \in [pc : {"resize"}, pointer : Buffer, size : {2 * count}, original : {0},
                 resized : {<<>>}]
  BY <1>1, Zenon DEF Shape, Idle
<1>3. op' = [op EXCEPT ![t] = o]
  BY <1>2, Zenon DEF ResizeCopy, Goto, Larger, Top
<1> HIDE DEF Larger
<1>4. o \in [pc : {"cas"}, pointer : {op[t].pointer}, size : {2 * count}, original : {elements},
             resized : {Larger}]
  BY <1>2, Zenon
<1>5. op'[t] = o
  BY <1>1, <1>3, Step, Zenon
<1>6. Larger' = Larger
  BY Zenon DEF ResizeCopy, Larger, Top, Read
<1>7. ~usage.prefilled
  BY <1>1, Zenon DEF StackInv, NoGarbage
<1>8. /\ o.pc = "cas" /\ o.pointer = op[t].pointer /\ op[t].pointer \in Buffer
      /\ UNCHANGED <<arrays, elements, index, count, out, fresh, usage>>
  BY <1>2, <1>4, Zenon DEF ResizeCopy
<1> HIDE DEF o
<1>9. Shape(t)'
  BY <1>4, <1>5, <1>6, <1>8, Zenon DEF Shape
<1>10. QED
  BY <1>1, <1>3, <1>5, <1>7, <1>8, <1>9, Quiet, Zenon

\* stack_pop loads the index, or finds the pool exhausted.
LEMMA LoadIndexPreserves ==
    ASSUME StackInv, NEW t \in Thread, LoadIndex(t), index > 0 \/ fresh = {}
    PROVE  StackInv'
<1> USE DEF Holding, Storing, Popping, At, PushPc
<1>1. Types /\ Shapes /\ op[t].pc = "pop" /\ op[t] # Idle
  BY DEF StackInv, LoadIndex, Idle
<1>2. PICK o \in {[pc |-> "pop_cas", index |-> index], Idle} :
          op' = [op EXCEPT ![t] = o] /\ (o # Idle => index > 0)
  BY Zenon DEF LoadIndex, Goto
<1>3. op'[t] = o
  BY <1>1, <1>2, Step, Zenon
<1>4. o.pc \in {"pop_cas", "idle"}
  BY <1>2 DEF Idle
<1>5. Shape(t)'
  BY <1>1, <1>2, <1>3 DEF Shape, Types
<1>6. UNCHANGED <<arrays, elements, index, count, out, fresh, usage>>
  BY Zenon DEF LoadIndex
<1>7. QED
  BY <1>1, <1>2, <1>3, <1>4, <1>5, <1>6, Quiet, Zenon

\* During a push all other threads are idle, before and after each of its steps.
LEMMA Others ==
    ASSUME StackInv, NEW t \in Thread, Holding(t), NEW o, op' = [op EXCEPT ![t] = o]
    PROVE  /\ op[t] # Idle /\ op'[t] = o /\ DOMAIN op' = Thread
           /\ \A u \in Thread : u # t =>
                 /\ ~Holding(u) /\ ~Storing(u) /\ ~Popping(u) /\ ~At(u, "count")
                 /\ ~Holding(u)' /\ ~Storing(u)' /\ ~Popping(u)' /\ ~At(u, "count")'
                 /\ op'[u] = Idle /\ Shape(u)' /\ op'[u].pc = "idle"
<1>1. op[t] # Idle
  BY DEF Holding, PushPc, Idle
<1>2. op'[t] = o /\ DOMAIN op' = Thread /\ \A u \in Thread : u # t => op'[u] = op[u]
  BY Step, Zenon DEF StackInv
<1>3. \A u \in Thread : u # t => op[u] = Idle
  BY Alone, Zenon DEF StackInv
<1>4. \A u \in Thread : u # t => op'[u] = Idle /\ op[u].pc = "idle" /\ op'[u].pc = "idle"
  BY <1>2, <1>3 DEF Idle
<1>5. \A u \in Thread : u # t => Shape(u)'
  BY <1>4, Zenon DEF Shape, Idle
<1>6. QED
  BY <1>1, <1>2, <1>4, <1>5 DEF Holding, Storing, Popping, At, PushPc

\* stack_resize finds no memory.
LEMMA NoMemoryPreserves ==
    ASSUME StackInv, NEW t \in Thread, ResizeNoMemory(t)
    PROVE  StackInv'
<1>1. /\ op' = [op EXCEPT ![t] = Idle] /\ op[t].pc = "resize" /\ op[t] # Idle
      /\ UNCHANGED <<arrays, elements, index, count, out, fresh, usage>>
  BY DEF ResizeNoMemory, Goto, At, Idle
<1>2. op'[t] = Idle /\ Idle.pc = "idle"
  BY <1>1, Step, Zenon DEF StackInv, Idle
<1>3. Shape(t)'
  BY <1>2, Zenon DEF Shape
<1>4. QED
  BY <1>1, <1>2, <1>3, Quiet, Zenon DEF Holding, Storing, Popping, At, PushPc

\* A holder hands its buffer to stack_push.
LEMMA PushPreserves ==
    ASSUME StackInv, NEW t \in Thread, NEW b \in Buffer, stack_push(t, b)
    PROVE  StackInv'
<1> DEFINE o == [pc |-> "fetch_add", pointer |-> b]
<1>1. /\ t \in usage.releaser /\ MayStart(t) /\ op[t] = Idle /\ op[t].pc = "idle"
      /\ out[b] > 0 /\ out' = [out EXCEPT ![b] = @ - 1]
      /\ op' = [op EXCEPT ![t] = o]
      /\ UNCHANGED <<arrays, elements, index, count, fresh, usage>>
  BY DEF stack_push, MayStart, Idle
<1>2. o.pc = "fetch_add" /\ o.pointer = b /\ o \in [pc : {"fetch_add"}, pointer : Buffer]
  BY Zenon
<1> HIDE DEF o
<1>3. /\ op'[t] = o /\ DOMAIN op' = Thread
      /\ \A u \in Thread : u # t =>
            /\ op'[u] = op[u]
            /\ Holding(u)' = Holding(u) /\ Storing(u)' = Storing(u)
            /\ Popping(u)' = Popping(u) /\ (\A p : At(u, p)' = At(u, p))
  BY <1>1, Step, Zenon DEF StackInv
<1>4. /\ out[b] = 1 /\ out'[b] = 0 /\ b \in Value /\ out' \in [Value -> Nat]
      /\ \A v \in Value : v # b => out'[v] = out[v]
  BY <1>1 DEF StackInv, Owned, Types, Value
<1>5. /\ Holding(t)' /\ ~Storing(t)' /\ ~Popping(t)' /\ ~At(t, "count")'
      /\ ~Holding(t) /\ ~Storing(t) /\ ~Popping(t) /\ ~At(t, "count")
  BY <1>1, <1>2, <1>3, Zenon DEF Holding, Storing, Popping, At, PushPc
<1>6. Types'
  BY <1>1, <1>4, Zenon DEF StackInv, Types
<1>7. Shapes'
  <2>1. Shape(t)'
    BY <1>2, <1>3, Zenon DEF Shape
  <2>2. QED
    BY <2>1, <1>1, <1>3, ShapeKept, Zenon DEF StackInv, Shapes
<1>8. Users'
  BY <1>1, UsersKept, Zenon DEF StackInv
<1>9. Extent'
  <2>1. (\E u \in Thread : At(u, "count"))' <=> \E u \in Thread : At(u, "count")
    BY <1>3, <1>5, Zenon
  <2>2. QED
    BY <2>1, <1>1, Zenon DEF Extent, StackInv
<1>10. Claims'
  BY <1>1, <1>3, <1>5 DEF StackInv, Claims
<1>11. \A i : Top(i)' = Top(i)
  BY <1>1, Zenon DEF Top, Read
<1>12. \A i : Live(i)' => Live(i)
  BY <1>1, <1>3, <1>5, Zenon DEF Live
<1>13. ASSUME NEW c \in Buffer, Free(c) PROVE Free(c)'
  BY <1>13, <1>1, <1>2, <1>3, <1>4, <1>5 DEF Free, Value
<1>14. Unique'
  BY <1>11, <1>12, <1>13, UniqueKept, Zenon DEF StackInv
<1>15. Owned'
  <2>1. b \notin fresh
    BY <1>4 DEF StackInv, Owned
  <2>2. \A c \in Buffer : out'[c] <= 1
    BY <1>4 DEF StackInv, Owned, Value
  <2>3. \A c \in fresh : out'[c] = 0
    BY <1>4, Zenon DEF StackInv, Owned, Types, Value
  <2>4. ASSUME NEW u \in Thread, Holding(u)'
        PROVE  out'[op'[u].pointer] = 0 /\ op'[u].pointer \notin fresh
    <3>1. CASE u = t
      BY <3>1, <2>1, <1>2, <1>3, <1>4, Zenon
    <3>2. CASE u # t
      <4>1. Holding(u) /\ op'[u] = op[u] /\ op[u].pointer \in Buffer
        BY <3>2, <2>4, <1>3, Fields, Zenon DEF StackInv, Shapes
      <4>2. QED
        BY <4>1, <1>4 DEF StackInv, Owned, Value
    <3>3. QED
      BY <3>1, <3>2, Zenon
  <2>5. QED
    BY <1>1, <2>2, <2>3, <2>4, Zenon DEF Owned
<1>16. NoGarbage'
  <2>1. out'[Garbage] = out[Garbage]
    BY <1>4, LockFreeStackAssumption, Zenon DEF Value
  <2>2. QED
    BY <2>1, <1>1, <1>2, <1>3, <1>11, <1>12, Zenon DEF StackInv, NoGarbage
<1>17. QED
  BY <1>6, <1>7, <1>8, <1>9, <1>10, <1>14, <1>15, <1>16, Zenon DEF StackInv

\* stack_push claims a slot; of a pool, one of those it was created with.
LEMMA FetchAddPreserves ==
    ASSUME StackInv, NEW t \in Thread, FetchAdd(t), usage.prefilled => index < count
    PROVE  StackInv'
<1> DEFINE o == [pc |-> "test", pointer |-> op[t].pointer, index |-> index]
<1>1. /\ op[t].pc = "fetch_add" /\ At(t, "fetch_add")
      /\ op' = [op EXCEPT ![t] = o] /\ index' = index + 1
      /\ UNCHANGED <<arrays, elements, count, out, fresh, usage>>
  BY Zenon DEF FetchAdd, Goto, At
<1>2. /\ Holding(t) /\ ~Storing(t) /\ ~Popping(t) /\ ~At(t, "count")
      /\ op[t].pointer \in Buffer /\ index \in Nat
  BY <1>1, Fields, Zenon DEF StackInv, Shapes, Types, Holding, Storing, Popping, At, PushPc
<1>3. /\ o.pc = "test" /\ o.pointer = op[t].pointer /\ o.index = index
      /\ o \in [pc : {"test"}, pointer : Buffer, index : Nat]
  BY <1>2, Zenon
<1> HIDE DEF o
<1>4. /\ op[t] # Idle /\ op'[t] = o /\ DOMAIN op' = Thread
      /\ \A u \in Thread : u # t =>
            /\ ~Holding(u) /\ ~Storing(u) /\ ~Popping(u) /\ ~At(u, "count")
            /\ ~Holding(u)' /\ ~Storing(u)' /\ ~Popping(u)' /\ ~At(u, "count")'
            /\ op'[u] = Idle /\ Shape(u)' /\ op'[u].pc = "idle"
  BY <1>1, <1>2, Others, Zenon
<1>5. Storing(t)' /\ ~Popping(t)' /\ Holding(t)' /\ ~At(t, "count")'
  BY <1>3, <1>4, Zenon DEF Holding, Storing, Popping, At, PushPc
<1>6. Types' /\ Extent' /\ Claims'
  <2>1. Types' /\ Claims'
    BY <1>1, <1>2, <1>4, <1>5 DEF StackInv, Types, Claims
  <2>2. Extent'
    BY <1>1, <1>2, <1>4, <1>5, Zenon DEF StackInv, Extent
  <2>3. QED
    BY <2>1, <2>2, Zenon
<1>7. Shapes'
  <2>1. Shape(t)'
    BY <1>3, <1>4, Zenon DEF Shape
  <2>2. QED
    BY <2>1, <1>4, Zenon DEF Shapes
<1>8. Users'
  BY <1>1, <1>2, <1>4, UsersKept, Zenon DEF StackInv
<1>9. \A i : Top(i)' = Top(i)
  BY <1>1, Zenon DEF Top, Read
<1>10. ASSUME NEW i, Live(i)' PROVE Live(i)
  <2>1. i \in Nat /\ i < index + 1 /\ i # index
    BY <1>1, <1>3, <1>4, <1>5, <1>10, Zenon DEF Live
  <2>2. QED
    BY <2>1, <1>2, <1>4 DEF Live
<1>11. \A b : Free(b) => Free(b)'
  BY <1>1, <1>2, <1>3, <1>4 DEF Free
<1>12. Unique'
  BY <1>9, <1>10, <1>11, UniqueKept, Zenon DEF StackInv
<1>13. Owned'
  BY <1>1, <1>2, <1>3, <1>4, Zenon DEF StackInv, Owned
<1>14. NoGarbage'
  BY <1>1, <1>3, <1>4, <1>9, <1>10, Zenon DEF StackInv, NoGarbage
<1>15. QED
  BY <1>6, <1>7, <1>8, <1>12, <1>13, <1>14, Zenon DEF StackInv

\* stack_push finds its slot beyond the array, which leaves a slot without a
\* buffer behind.
LEMMA FullPreserves ==
    ASSUME StackInv, NEW t \in Thread, TestCount(t), op[t].index >= count
    PROVE  StackInv'
<1> DEFINE o == [pc |-> "resize", pointer |-> op[t].pointer, size |-> 2 * count,
                 original |-> 0, resized |-> <<>>]
<1>1. /\ op[t].pc = "test" /\ op' = [op EXCEPT ![t] = o]
      /\ UNCHANGED <<arrays, elements, index, count, out, fresh, usage>>
  BY Zenon DEF TestCount, Goto, At
<1>2. /\ Holding(t) /\ Storing(t) /\ ~Popping(t) /\ ~At(t, "count")
      /\ op[t].pointer \in Buffer /\ op[t].index \in Nat /\ index \in Nat /\ count \in Nat
  BY <1>1, Fields, Zenon DEF StackInv, Shapes, Types, Holding, Storing, Popping, At, PushPc
<1>3. /\ o.pc = "resize" /\ o.pointer = op[t].pointer
      /\ o \in [pc : {"resize"}, pointer : Buffer, size : {2 * count}, original : {0},
                resized : {<<>>}]
  BY <1>2, Zenon
<1> HIDE DEF o
<1>4. /\ op[t] # Idle /\ op'[t] = o /\ DOMAIN op' = Thread
      /\ \A u \in Thread : u # t =>
            /\ ~Holding(u) /\ ~Storing(u) /\ ~Popping(u) /\ ~At(u, "count")
            /\ ~Holding(u)' /\ ~Storing(u)' /\ ~Popping(u)' /\ ~At(u, "count")'
            /\ op'[u] = Idle /\ Shape(u)' /\ op'[u].pc = "idle"
  BY <1>1, <1>2, Others, Zenon
<1>5. ~Storing(t)' /\ ~Popping(t)' /\ Holding(t)' /\ ~At(t, "count")'
  BY <1>3, <1>4, Zenon DEF Holding, Storing, Popping, At, PushPc
<1>6. Types' /\ Claims' /\ Extent'
  <2>1. Types' /\ Claims'
    BY <1>1, <1>4, <1>5, Zenon DEF StackInv, Types, Claims
  <2>2. Extent'
    BY <1>1, <1>2, <1>4, <1>5, Zenon DEF StackInv, Extent
  <2>3. QED
    BY <2>1, <2>2, Zenon
<1>7. Shapes'
  <2>1. Shape(t)'
    BY <1>1, <1>3, <1>4, Zenon DEF Shape
  <2>2. QED
    BY <2>1, <1>4, Zenon DEF Shapes
<1>8. Users'
  BY <1>1, <1>2, <1>4, UsersKept, Zenon DEF StackInv
<1>9. \A i : Top(i)' = Top(i)
  BY <1>1, Zenon DEF Top, Read
<1>10. DOMAIN arrays[elements] = 0 .. count - 1
  BY <1>2, <1>4, Zenon DEF StackInv, Extent
<1>11. ASSUME NEW i, Live(i)' PROVE Live(i) \/ Top(i) \notin Buffer
  <2>1. CASE i = op[t].index
    <3>1. i \notin DOMAIN arrays[elements]
      BY <2>1, <1>2, <1>10
    <3>2. QED
      BY <3>1, TopValue, Zenon DEF StackInv
  <2>2. CASE i # op[t].index
    BY <2>2, <1>1, <1>4, <1>5, <1>11, Zenon DEF Live
  <2>3. QED
    BY <2>1, <2>2, Zenon
<1>12. \A b : Free(b) => Free(b)'
  BY <1>1, <1>2, <1>3, <1>4 DEF Free
<1>13. Unique'
  BY <1>9, <1>11, <1>12, UniqueKept, Zenon DEF StackInv
<1>14. Owned'
  BY <1>1, <1>2, <1>3, <1>4, Zenon DEF StackInv, Owned
<1>15. NoGarbage'
  <2>1. ~usage.prefilled
    BY <1>1, <1>2 DEF StackInv, NoGarbage
  <2>2. QED
    BY <2>1, <1>1, Zenon DEF NoGarbage
<1>16. QED
  BY <1>6, <1>7, <1>8, <1>13, <1>14, <1>15, Zenon DEF StackInv

\* stack_resize puts the larger array in place.
LEMMA ExchangePreserves ==
    ASSUME StackInv, NEW t \in Thread, ResizeExchange(t)
    PROVE  StackInv'
<1> DEFINE o == [op[t] EXCEPT !.pc = "count"]
<1>1. Types /\ Shapes /\ Shape(t) /\ op[t].pc = "cas"
  BY Zenon DEF StackInv, Shapes, ResizeExchange, At
<1>2. op[t] \in [pc : {"cas"}, pointer : Buffer, size : {2 * count}, original : {elements},
                 resized : {Larger}]
  BY <1>1 DEF Shape, Idle
<1>3. /\ op' = [op EXCEPT ![t] = o]
      /\ arrays' = Append(arrays, op[t].resized) /\ elements' = Len(arrays) + 1
      /\ UNCHANGED <<index, count, out, fresh, usage>>
  BY <1>2, Zenon DEF ResizeExchange, Goto
<1>4. op[t].resized = Larger
  BY <1>2, Zenon
<1>5. /\ Holding(t) /\ ~Storing(t) /\ ~Popping(t) /\ ~At(t, "count")
      /\ op[t].pointer \in Buffer
  BY <1>1, Fields, Zenon DEF Holding, Storing, Popping, At, PushPc
<1>6. Larger \in Array
  <2>1. \A i : Top(i) \in Value
    BY <1>1, TopValue, Zenon
  <2>2. 2 * count \in Nat /\ Garbage \in Value
    BY <1>1 DEF Types, Value
  <2>3. Larger \in [0 .. 2 * count - 1 -> Value]
    BY <2>1, <2>2, Zenon DEF Larger
  <2>4. QED
    BY <2>2, <2>3, Zenon DEF Array
<1>7. arrays' \in Seq(Array) /\ arrays'[elements'] = Larger /\ elements' \in 1 .. Len(arrays')
  BY <1>1, <1>3, <1>4, <1>6 DEF Types
<1>8. /\ o.pc = "count" /\ o.pointer = op[t].pointer
      /\ o \in [pc : {"count"}, pointer : Buffer, size : {2 * count}, original : Nat,
                resized : Array]
  <2> HIDE DEF Larger
  <2>1. elements \in Nat
    BY <1>1 DEF Types
  <2>2. QED
    BY <1>2, <1>6, <2>1, Zenon
<1> HIDE DEF o
<1>9. /\ op[t] # Idle /\ op'[t] = o /\ DOMAIN op' = Thread
      /\ \A u \in Thread : u # t =>
            /\ ~Holding(u) /\ ~Storing(u) /\ ~Popping(u) /\ ~At(u, "count")
            /\ ~Holding(u)' /\ ~Storing(u)' /\ ~Popping(u)' /\ ~At(u, "count")'
            /\ op'[u] = Idle /\ Shape(u)' /\ op'[u].pc = "idle"
  BY <1>3, <1>5, Others, Zenon
<1>10. ~Storing(t)' /\ ~Popping(t)' /\ Holding(t)' /\ At(t, "count")'
  BY <1>8, <1>9, Zenon DEF Holding, Storing, Popping, At, PushPc
<1>11. Types' /\ Claims'
  BY <1>1, <1>3, <1>7, <1>9, <1>10, Zenon DEF StackInv, Types, Claims
<1>12. DOMAIN arrays[elements] = 0 .. count - 1 /\ DOMAIN Larger = 0 .. 2 * count - 1
  BY <1>5, <1>9, Zenon DEF StackInv, Extent, Larger
<1>13. Extent'
  BY <1>3, <1>7, <1>10, <1>12, Zenon DEF Extent
<1>14. Shapes'
  <2>1. Shape(t)'
    BY <1>3, <1>8, <1>9, Zenon DEF Shape
  <2>2. QED
    BY <2>1, <1>9, Zenon DEF Shapes
<1>15. Users'
  BY <1>3, <1>5, <1>9, UsersKept, Zenon DEF StackInv
<1>16. ASSUME NEW i \in Nat PROVE Top(i)' = Top(i)
  <2>1. Top(i)' = IF i \in 0 .. 2 * count - 1 THEN Larger[i] ELSE Garbage
    BY <1>7, <1>12, Zenon DEF Top, Read
  <2>2. Top(i) = IF i \in 0 .. count - 1 THEN arrays[elements][i] ELSE Garbage
    BY <1>12, Zenon DEF Top, Read
  <2>3. ASSUME i \in 0 .. 2 * count - 1
        PROVE  Larger[i] = IF i < count THEN Top(i) ELSE Garbage
    BY <2>3, Zenon DEF Larger
  <2>4. count \in Nat
    BY <1>1, Zenon DEF Types
  <2>5. QED
    BY <2>1, <2>2, <2>3, <2>4
<1>17. \A i : Live(i)' => Live(i) /\ i \in Nat
  BY <1>3, <1>5, <1>9, <1>10, Zenon DEF Live
<1>18. \A b : Free(b) => Free(b)'
  BY <1>3, <1>5, <1>8, <1>9 DEF Free
<1>19. Unique'
  BY <1>16, <1>17, <1>18, UniqueKept, Zenon DEF StackInv
<1>20. Owned'
  BY <1>3, <1>5, <1>8, <1>9, Zenon DEF StackInv, Owned
<1>21. NoGarbage'
  <2>1. ~usage.prefilled
    BY <1>1, Zenon DEF StackInv, NoGarbage
  <2>2. QED
    BY <2>1, <1>3, Zenon DEF NoGarbage
<1>22. QED
  BY <1>11, <1>13, <1>14, <1>15, <1>19, <1>20, <1>21, Zenon DEF StackInv

\* stack_resize sets the count.
LEMMA CountPreserves ==
    ASSUME StackInv, NEW t \in Thread, ResizeCount(t)
    PROVE  StackInv'
<1> DEFINE o == [pc |-> "fetch_add", pointer |-> op[t].pointer]
<1>1. /\ op[t].pc = "count" /\ op' = [op EXCEPT ![t] = o] /\ count' = op[t].size
      /\ UNCHANGED <<arrays, elements, index, out, fresh, usage>>
  BY Zenon DEF ResizeCount, Goto, At
<1>2. /\ Holding(t) /\ ~Storing(t) /\ ~Popping(t) /\ At(t, "count")
      /\ op[t].pointer \in Buffer /\ count' = 2 * count /\ count \in Nat \ {0}
  BY <1>1, Fields, Zenon DEF StackInv, Shapes, Types, Holding, Storing, Popping, At, PushPc
<1>3. /\ o.pc = "fetch_add" /\ o.pointer = op[t].pointer
      /\ o \in [pc : {"fetch_add"}, pointer : Buffer]
  BY <1>2, Zenon
<1> HIDE DEF o
<1>4. /\ op[t] # Idle /\ op'[t] = o /\ DOMAIN op' = Thread
      /\ \A u \in Thread : u # t =>
            /\ ~Holding(u) /\ ~Storing(u) /\ ~Popping(u) /\ ~At(u, "count")
            /\ ~Holding(u)' /\ ~Storing(u)' /\ ~Popping(u)' /\ ~At(u, "count")'
            /\ op'[u] = Idle /\ Shape(u)' /\ op'[u].pc = "idle"
  BY <1>1, <1>2, Others, Zenon
<1>5. ~Storing(t)' /\ ~Popping(t)' /\ Holding(t)' /\ ~At(t, "count")'
  BY <1>3, <1>4, Zenon DEF Holding, Storing, Popping, At, PushPc
<1>6. Types' /\ Claims'
  BY <1>1, <1>2, <1>4, <1>5 DEF StackInv, Types, Claims
<1>7. Extent'
  <2>1. DOMAIN arrays[elements] = 0 .. 2 * count - 1
    BY <1>2, Zenon DEF StackInv, Extent
  <2>2. QED
    BY <2>1, <1>1, <1>2, <1>4, <1>5, Zenon DEF Extent
<1>8. Shapes'
  <2>1. Shape(t)'
    BY <1>3, <1>4, Zenon DEF Shape
  <2>2. QED
    BY <2>1, <1>4, Zenon DEF Shapes
<1>9. Users'
  BY <1>1, <1>2, <1>4, UsersKept, Zenon DEF StackInv
<1>10. \A i : Top(i)' = Top(i)
  BY <1>1, Zenon DEF Top, Read
<1>11. \A i : Live(i)' => Live(i)
  BY <1>1, <1>2, <1>4, <1>5, Zenon DEF Live
<1>12. \A b : Free(b) => Free(b)'
  BY <1>1, <1>2, <1>3, <1>4, Zenon DEF Free
<1>13. Unique'
  BY <1>10, <1>11, <1>12, UniqueKept, Zenon DEF StackInv
<1>14. Owned'
  BY <1>1, <1>2, <1>3, <1>4, Zenon DEF StackInv, Owned
<1>15. NoGarbage'
  <2>1. ~usage.prefilled
    BY <1>1, Zenon DEF StackInv, NoGarbage
  <2>2. QED
    BY <2>1, <1>1, Zenon DEF NoGarbage
<1>16. QED
  BY <1>6, <1>7, <1>8, <1>9, <1>13, <1>14, <1>15, Zenon DEF StackInv

\* stack_push stores the buffer to the slot it claimed.
LEMMA StorePreserves ==
    ASSUME StackInv, NEW t \in Thread, Store(t)
    PROVE  StackInv'
<1>1. /\ op[t].pc = "store" /\ op[t].index \in Nat /\ op[t].index < count
      /\ op[t].pointer \in Buffer /\ op[t].array = elements /\ count \in Nat
  BY Fields, Zenon DEF StackInv, Shapes, Types, Holding, Storing, PushPc, Store, At
<1>2. PICK s \in Nat, p \in Buffer : s = op[t].index /\ p = op[t].pointer
  BY <1>1, Zenon
<1>3. /\ op[t].pc = "store" /\ op' = [op EXCEPT ![t] = Idle]
      /\ arrays' = [arrays EXCEPT ![op[t].array][s] = p]
      /\ UNCHANGED <<elements, index, count, out, fresh, usage>>
  BY <1>2, Zenon DEF Store, Goto, At
<1>4. /\ Holding(t) /\ Storing(t) /\ ~Popping(t) /\ ~At(t, "count")
      /\ s < count /\ op[t].array = elements /\ count \in Nat
  BY <1>1, <1>2, Zenon DEF Holding, Storing, Popping, At, PushPc
<1>5. /\ op[t] # Idle /\ op'[t] = Idle /\ DOMAIN op' = Thread
      /\ \A u \in Thread : u # t =>
            /\ ~Holding(u) /\ ~Storing(u) /\ ~Popping(u) /\ ~At(u, "count")
            /\ ~Holding(u)' /\ ~Storing(u)' /\ ~Popping(u)' /\ ~At(u, "count")'
            /\ op'[u] = Idle /\ Shape(u)' /\ op'[u].pc = "idle"
  BY <1>3, <1>4, Others, Zenon
<1>6. op'[t].pc = "idle" /\ ~Storing(t)' /\ ~Popping(t)' /\ ~Holding(t)' /\ ~At(t, "count")'
  BY <1>5 DEF Idle, Holding, Storing, Popping, At, PushPc
<1>7. DOMAIN arrays[elements] = 0 .. count - 1
  BY <1>4, <1>5, Zenon DEF StackInv, Extent
<1>8. /\ elements \in 1 .. Len(arrays) /\ arrays \in Seq(Array)
      /\ arrays' = [arrays EXCEPT ![elements] = [arrays[elements] EXCEPT ![s] = p]]
  BY <1>3, <1>4, Zenon DEF StackInv, Types
<1>9. [arrays[elements] EXCEPT ![s] = p] \in Array
  <2>1. PICK n \in Nat : arrays[elements] \in [0 .. n - 1 -> Value]
    BY TopValue, Zenon DEF Array, StackInv
  <2>2. [arrays[elements] EXCEPT ![s] = p] \in [0 .. n - 1 -> Value]
    BY <2>1, <1>4, Zenon DEF Value
  <2>3. QED
    BY <2>2, Zenon DEF Array
<1>10. /\ arrays' \in Seq(Array) /\ Len(arrays') = Len(arrays)
      /\ arrays'[elements] = [arrays[elements] EXCEPT ![s] = p]
  BY <1>8, <1>9
<1>11. Types' /\ Claims'
  BY <1>3, <1>5, <1>6, <1>10, Zenon DEF StackInv, Types, Claims
<1>12. Extent'
  BY <1>3, <1>5, <1>6, <1>7, <1>10, Zenon DEF Extent
<1>13. Shapes'
  BY <1>5, Zenon DEF Shapes, Shape
<1>14. Users'
  BY <1>3, <1>4, <1>5, UsersKept, Zenon DEF StackInv
<1>15. Top(s)' = p /\ \A i : i # s => Top(i)' = Top(i)
  BY <1>3, <1>4, <1>7, <1>10 DEF Top, Read
<1>16. \A i : Live(i)' => Live(i) \/ i = s
  BY <1>3, <1>4, <1>5, <1>6, <1>2, Zenon DEF Live
<1>17. ~Live(s)
  BY <1>4, <1>2, Zenon DEF Live
<1>18. \A b : Free(b) => Free(b)'
  BY <1>3, <1>5, <1>6, Zenon DEF Free
<1>19. Free(p)'
  BY <1>3, <1>4, <1>5, <1>6, <1>2, Zenon DEF StackInv, Owned, Free
<1>20. \A i : Live(i) /\ Top(i) \in Buffer => Top(i) # p
  BY <1>4, <1>2, Zenon DEF StackInv, Unique, Free
<1>21. Unique'
  <2>1. ASSUME NEW i, Live(i)', Top(i)' \in Buffer
        PROVE  (Free(Top(i)))'
    BY <2>1, <1>15, <1>16, <1>18, <1>19, Zenon DEF StackInv, Unique
  <2>2. ASSUME NEW i, NEW j, Live(i)', Live(j)', Top(i)' \in Buffer, Top(i)' = Top(j)'
        PROVE  i = j
    BY <2>2, <1>15, <1>16, <1>17, <1>20, Zenon DEF StackInv, Unique
  <2>3. QED
    BY <2>1, <2>2, Zenon DEF Unique
<1>22. Owned'
  BY <1>3, <1>5, <1>6, Zenon DEF StackInv, Owned
<1>23. NoGarbage'
  BY <1>3, <1>4, <1>5, <1>6, <1>15, <1>16 DEF StackInv, NoGarbage
<1>24. QED
  BY <1>11, <1>12, <1>13, <1>14, <1>21, <1>22, <1>23, Zenon DEF StackInv

\* gracht_server_get_buffer allocates a buffer.
LEMMA AllocatePreserves ==
    ASSUME StackInv, NEW t \in Thread, LoadIndex(t), ~(index > 0 \/ fresh = {})
    PROVE  StackInv'
<1>1. /\ op[t].pc = "pop" /\ op[t] # Idle /\ op' = [op EXCEPT ![t] = Idle] /\ Idle.pc = "idle"
      /\ UNCHANGED <<arrays, elements, index, count, usage>>
  BY DEF LoadIndex, Goto, At, Idle
<1>2. PICK b \in fresh : fresh' = fresh \ {b} /\ out' = [out EXCEPT ![b] = @ + 1]
  BY Zenon DEF LoadIndex
<1>3. /\ op'[t] = Idle /\ DOMAIN op' = Thread
      /\ \A u \in Thread : u # t =>
            /\ op'[u] = op[u]
            /\ Holding(u)' = Holding(u) /\ Storing(u)' = Storing(u)
            /\ Popping(u)' = Popping(u) /\ (\A p : At(u, p)' = At(u, p))
  BY <1>1, Step, Zenon DEF StackInv
<1>4. /\ ~Holding(t)' /\ ~Storing(t)' /\ ~Popping(t)' /\ ~At(t, "count")'
      /\ ~Holding(t) /\ ~Storing(t) /\ ~Popping(t) /\ ~At(t, "count")
  BY <1>1, <1>3, Zenon DEF Holding, Storing, Popping, At, PushPc
<1>5. /\ b \in Buffer /\ out[b] = 0 /\ out'[b] = 1 /\ out' \in [Value -> Nat]
      /\ \A v \in Value : v # b => out'[v] = out[v]
  BY <1>2 DEF StackInv, Types, Owned, Value
<1>6. Types' /\ Claims'
  BY <1>1, <1>2, <1>3, <1>4, <1>5 DEF StackInv, Types, Claims
<1>7. Shapes'
  <2>1. Shape(t)'
    BY <1>3, Zenon DEF Shape
  <2>2. QED
    BY <2>1, <1>1, <1>3, ShapeKept, Zenon DEF StackInv, Shapes
<1>8. Users'
  BY <1>1, <1>4, UsersKept, Zenon DEF StackInv
<1>9. Extent'
  <2>1. (\E u \in Thread : At(u, "count"))' <=> \E u \in Thread : At(u, "count")
    BY <1>3, <1>4, Zenon
  <2>2. QED
    BY <2>1, <1>1, Zenon DEF Extent, StackInv
<1>10. \A i : Top(i)' = Top(i)
  BY <1>1, Zenon DEF Top, Read
<1>11. \A i : Live(i)' => Live(i)
  BY <1>1, <1>3, <1>4, Zenon DEF Live
<1>12. ASSUME NEW c \in Buffer, Free(c) PROVE Free(c)'
  BY <1>12, <1>2, <1>3, <1>4, <1>5, Zenon DEF Free, Value
<1>13. Unique'
  BY <1>10, <1>11, <1>12, UniqueKept, Zenon DEF StackInv
<1>14. Owned'
  <2>1. \A c \in Buffer : out'[c] <= 1
    BY <1>5 DEF StackInv, Owned, Value
  <2>2. \A c \in fresh' : out'[c] = 0
    BY <1>2, <1>5, Zenon DEF StackInv, Owned, Types, Value
  <2>3. ASSUME NEW u \in Thread, Holding(u)'
        PROVE  out'[op'[u].pointer] = 0 /\ op'[u].pointer \notin fresh'
    <3>1. Holding(u) /\ op'[u] = op[u] /\ op[u].pointer \in Buffer
      BY <2>3, <1>3, <1>4, Fields, Zenon DEF StackInv, Shapes
    <3>2. QED
      BY <3>1, <1>2, <1>5 DEF StackInv, Owned, Value
  <2>4. QED
    BY <2>1, <2>2, <2>3, Zenon DEF Owned
<1>15. NoGarbage'
  <2>1. out'[Garbage] = out[Garbage]
    BY <1>5, LockFreeStackAssumption, Zenon DEF Value
  <2>2. QED
    BY <2>1, <1>1, <1>3, <1>10, <1>11, Zenon DEF StackInv, NoGarbage
<1>16. QED
  BY <1>6, <1>7, <1>8, <1>9, <1>13, <1>14, <1>15, Zenon DEF StackInv

\* The compare-and-exchange of stack_pop fails.
LEMMA PopFails ==
    ASSUME StackInv, NEW t \in Thread, PopExchange(t), index # op[t].index
    PROVE  StackInv'
<1> DEFINE o == [pc |-> "pop"]
<1>1. /\ op' = [op EXCEPT ![t] = o] /\ op[t].pc = "pop_cas" /\ op[t] # Idle
      /\ o.pc = "pop" /\ o \in [pc : {"pop"}]
      /\ UNCHANGED <<arrays, elements, index, count, out, fresh, usage>>
  BY DEF PopExchange, Goto, At, Idle
<1> HIDE DEF o
<1>2. op'[t] = o
  BY <1>1, Step, Zenon DEF StackInv
<1>3. Shape(t)'
  BY <1>1, <1>2, Zenon DEF Shape
<1>4. QED
  BY <1>1, <1>2, <1>3, Quiet, Zenon DEF Holding, Storing, Popping, At, PushPc

\* The compare-and-exchange of stack_pop claims the topmost slot.
LEMMA PopClaims ==
    ASSUME StackInv, NEW t \in Thread, PopExchange(t), index = op[t].index
    PROVE  StackInv'
<1> DEFINE o == [pc |-> "pop_load", index |-> index]
<1>1. /\ op[t].pc = "pop_cas" /\ op[t] # Idle /\ op' = [op EXCEPT ![t] = o]
      /\ index' = index - 1
      /\ UNCHANGED <<arrays, elements, count, out, fresh, usage>>
  BY DEF PopExchange, Goto, At, Idle
<1>2. index \in Nat \ {0}
  BY <1>1, Fields, Zenon DEF StackInv, Shapes
<1>3. /\ o.pc = "pop_load" /\ o.index = index
      /\ o \in [pc : {"pop_cas", "pop_load"}, index : Nat \ {0}]
  BY <1>2, Zenon
<1> HIDE DEF o
<1>4. /\ op'[t] = o /\ DOMAIN op' = Thread
      /\ \A u \in Thread : u # t =>
            /\ op'[u] = op[u]
            /\ Holding(u)' = Holding(u) /\ Storing(u)' = Storing(u)
            /\ Popping(u)' = Popping(u) /\ (\A p : At(u, p)' = At(u, p))
  BY <1>1, Step, Zenon DEF StackInv
<1>5. /\ ~Holding(t)' /\ ~Storing(t)' /\ Popping(t)' /\ ~At(t, "count")'
      /\ ~Holding(t) /\ ~Storing(t) /\ ~Popping(t) /\ ~At(t, "count")
  BY <1>1, <1>3, <1>4, Zenon DEF Holding, Storing, Popping, At, PushPc
<1>6. Types'
  BY <1>1, <1>2 DEF StackInv, Types
<1>7. Shapes'
  <2>1. Shape(t)'
    BY <1>3, <1>4, Zenon DEF Shape
  <2>2. QED
    BY <2>1, <1>1, <1>4, ShapeKept, Zenon DEF StackInv, Shapes
<1>8. Users'
  BY <1>1, <1>5, UsersKept, Zenon DEF StackInv
<1>9. Extent'
  <2>1. (\E u \in Thread : At(u, "count"))' <=> \E u \in Thread : At(u, "count")
    BY <1>4, <1>5, Zenon
  <2>2. QED
    BY <2>1, <1>1, Zenon DEF Extent, StackInv
<1>10. \A u \in Thread : Popping(u) => op[u].index \in Nat
  BY Fields, Zenon DEF StackInv, Shapes, Popping
<1>11. Claims'
  <2>1. ASSUME NEW u \in Thread, Popping(u)' PROVE op'[u].index > index'
    BY <2>1, <1>1, <1>2, <1>3, <1>4, <1>10 DEF StackInv, Claims
  <2>2. ASSUME NEW u \in Thread, NEW v \in Thread, Popping(u)', Popping(v)',
               op'[u].index = op'[v].index
        PROVE  u = v
    BY <2>2, <1>2, <1>3, <1>4, <1>5, <1>10 DEF StackInv, Claims
  <2>3. QED
    BY <2>1, <2>2, Zenon DEF Claims
<1>12. \A i : Top(i)' = Top(i)
  BY <1>1, Zenon DEF Top, Read
<1>13. ASSUME NEW i, Live(i)' PROVE Live(i)
  <2>1. \A u \in Thread : Storing(u) => i # op[u].index
    BY <1>4, <1>5, <1>13, Zenon DEF Live
  <2>2. i \in Nat /\ (i < index - 1 \/ \E u \in Thread : Popping(u)' /\ i = op'[u].index - 1)
    BY <1>1, <1>13, Zenon DEF Live
  <2>3. i < index \/ \E u \in Thread : Popping(u) /\ i = op[u].index - 1
    BY <2>2, <1>2, <1>3, <1>4, <1>5
  <2>4. QED
    BY <2>1, <2>2, <2>3, Zenon DEF Live
<1>14. \A b : Free(b) => Free(b)'
  BY <1>1, <1>4, <1>5, Zenon DEF Free
<1>15. Unique'
  BY <1>12, <1>13, <1>14, UniqueKept, Zenon DEF StackInv
<1>16. Owned'
  BY <1>1, <1>4, <1>5, Zenon DEF StackInv, Owned
<1>17. NoGarbage'
  BY <1>1, <1>3, <1>4, <1>12, <1>13, Zenon DEF StackInv, NoGarbage
<1>18. QED
  BY <1>6, <1>7, <1>8, <1>9, <1>11, <1>15, <1>16, <1>17, Zenon DEF StackInv

\* stack_pop returns what the slot it claimed holds.
LEMMA PopReadPreserves ==
    ASSUME StackInv, NEW t \in Thread, PopRead(t)
    PROVE  StackInv'
<1>1. /\ op[t].pc = "pop_read" /\ op[t] # Idle /\ op' = [op EXCEPT ![t] = Idle]
      /\ Idle.pc = "idle"
      /\ UNCHANGED <<arrays, elements, index, count, fresh, usage>>
      /\ out' = [out EXCEPT ![Read(op[t].array, op[t].index - 1)] = @ + 1]
  <2>1. /\ op[t].pc = "pop_read" /\ op' = [op EXCEPT ![t] = Idle]
        /\ UNCHANGED <<arrays, elements, index, count, fresh, usage>>
        /\ out' = [out EXCEPT ![Read(op[t].array, op[t].index - 1)] = @ + 1]
    BY Zenon DEF PopRead, Goto, At
  <2>2. op[t] # Idle /\ Idle.pc = "idle"
    BY <2>1 DEF Idle
  <2>3. QED
    BY <2>1, <2>2, Zenon
<1>2. op[t].index \in Nat \ {0} /\ op[t].array = elements
  BY <1>1, Fields, Zenon DEF StackInv, Shapes
<1>3. PICK s \in Nat : s = op[t].index - 1
  BY <1>2
<1>4. PICK v \in Value : v = Top(s)
  BY TopValue, Zenon DEF StackInv
<1>5. out' = [out EXCEPT ![v] = @ + 1]
  BY <1>1, <1>2, <1>3, <1>4, Zenon DEF Top
<1>6. /\ op'[t] = Idle /\ DOMAIN op' = Thread
      /\ \A u \in Thread : u # t =>
            /\ op'[u] = op[u]
            /\ Holding(u)' = Holding(u) /\ Storing(u)' = Storing(u)
            /\ Popping(u)' = Popping(u) /\ (\A p : At(u, p)' = At(u, p))
  BY <1>1, Step, Zenon DEF StackInv
<1>7. /\ ~Holding(t)' /\ ~Storing(t)' /\ ~Popping(t)' /\ ~At(t, "count")'
      /\ ~Holding(t) /\ ~Storing(t) /\ Popping(t) /\ ~At(t, "count")
  BY <1>1, <1>6, Zenon DEF Holding, Storing, Popping, At, PushPc
<1>8. /\ out'[v] = out[v] + 1 /\ out' \in [Value -> Nat]
      /\ \A w \in Value : w # v => out'[w] = out[w]
  BY <1>4, <1>5 DEF StackInv, Types
<1>9. Live(s)
  <2>1. \A u \in Thread : ~Storing(u)
    BY <1>1, Alone, Zenon DEF StackInv, Storing, Holding, PushPc
  <2>2. QED
    BY <2>1, <1>3, <1>7, Zenon DEF Live
<1>10. v \in Buffer => Free(v)
  BY <1>4, <1>9, Zenon DEF StackInv, Unique
<1>11. Types' /\ Claims'
  <2>1. Types'
    BY <1>1, <1>8, Zenon DEF StackInv, Types
  <2>2. index' = index
    BY <1>1, Zenon
  <2>3. Claims'
    BY <2>2, <1>6, <1>7 DEF StackInv, Claims
  <2>4. QED
    BY <2>1, <2>3, Zenon
<1>12. Shapes'
  <2>1. Shape(t)'
    BY <1>6, Zenon DEF Shape
  <2>2. QED
    BY <2>1, <1>1, <1>6, ShapeKept, Zenon DEF StackInv, Shapes
<1>13. Users'
  BY <1>1, <1>7, UsersKept, Zenon DEF StackInv
<1>14. Extent'
  <2>1. (\E u \in Thread : At(u, "count"))' <=> \E u \in Thread : At(u, "count")
    BY <1>6, <1>7, Zenon
  <2>2. QED
    BY <2>1, <1>1, Zenon DEF Extent, StackInv
<1>15. \A i : Top(i)' = Top(i)
  BY <1>1, Zenon DEF Top, Read
<1>16. \A u \in Thread : Popping(u) => op[u].index \in Nat
  BY Fields, Zenon DEF StackInv, Shapes, Popping
<1>17. ASSUME NEW i, Live(i)' PROVE Live(i) /\ i # s
  <2>1. /\ i \in Nat /\ \A u \in Thread : Storing(u) => i # op[u].index
        /\ i < index \/ \E u \in Thread : u # t /\ Popping(u) /\ i = op[u].index - 1
    BY <1>1, <1>6, <1>7, <1>17, Zenon DEF Live
  <2>2. Live(i)
    BY <2>1, Zenon DEF Live
  <2>3. op[t].index > index /\ index \in Nat
    BY <1>7, Zenon DEF StackInv, Claims, Types
  <2>4. \A u \in Thread : u # t /\ Popping(u) => op[u].index # op[t].index
    BY <1>7, Zenon DEF StackInv, Claims
  <2>5. i # s
    BY <2>1, <2>3, <2>4, <1>2, <1>3, <1>16
  <2>6. QED
    BY <2>2, <2>5, Zenon
<1>18. ASSUME NEW c \in Buffer, Free(c), c # v PROVE Free(c)'
  BY <1>18, <1>1, <1>6, <1>7, <1>8, Zenon DEF Free, Value
<1>19. \A i : Live(i)' /\ Top(i) \in Buffer => Top(i) # v
  BY <1>4, <1>9, <1>17, Zenon DEF StackInv, Unique
<1>20. Unique'
  BY <1>15, <1>17, <1>18, <1>19, UniqueKept, Zenon DEF StackInv
<1>21. Owned'
  <2>1. \A c \in Buffer : out'[c] <= 1
    BY <1>8, <1>10 DEF StackInv, Owned, Value, Free
  <2>2. \A c \in fresh : out'[c] = 0
    BY <1>8, <1>10, Zenon DEF StackInv, Owned, Types, Value, Free
  <2>3. ASSUME NEW u \in Thread, Holding(u)'
        PROVE  out'[op'[u].pointer] = 0 /\ op'[u].pointer \notin fresh
    <3>1. Holding(u) /\ op'[u] = op[u] /\ op[u].pointer \in Buffer
      BY <2>3, <1>6, <1>7, Fields, Zenon DEF StackInv, Shapes
    <3>2. op[u].pointer # v
      BY <3>1, <1>10, Zenon DEF Free
    <3>3. QED
      BY <3>1, <3>2, <1>8, Zenon DEF StackInv, Owned, Value
  <2>4. QED
    BY <1>1, <2>1, <2>2, <2>3, Zenon DEF Owned
<1>22. NoGarbage'
  <2>1. usage.prefilled => v \in Buffer
    BY <1>4, <1>9, Zenon DEF StackInv, NoGarbage
  <2>2. usage.prefilled => out'[Garbage] = out[Garbage]
    BY <2>1, <1>8, LockFreeStackAssumption, Zenon DEF Value
  <2>3. QED
    BY <2>2, <1>1, <1>6, <1>15, <1>17, Zenon DEF StackInv, NoGarbage
<1>23. QED
  BY <1>11, <1>12, <1>13, <1>14, <1>20, <1>21, <1>22, Zenon DEF StackInv

-----------------------------------------------------------------------------
(* A buffer is in one of these places                                      *)

\* Buffer b is in the hand of a push; it is in a live slot.
InHand(b) == \E t \in Thread : Holding(t) /\ op[t].pointer = b
Stacked(b) == \E i \in Nat : Live(i) /\ Top(i) = b

\* Every buffer is somewhere, and a dropped one is nowhere else.
Whole ==
    /\ lost \subseteq Buffer
    /\ \A b \in Buffer \ fresh : out[b] > 0 \/ InHand(b) \/ Stacked(b) \/ b \in lost
    /\ \A b \in lost : Free(b) /\ ~Stacked(b)

\* The slot that a push has claimed is below the index.
Claimed == \A t \in Thread : Storing(t) => op[t].index < index

-----------------------------------------------------------------------------
\* Steps that move no buffer.
LEMMA NothingMoved ==
    ASSUME Whole, UNCHANGED <<out, fresh, lost>>,
           \A b \in Buffer : (InHand(b)' <=> InHand(b)) /\ (Stacked(b)' <=> Stacked(b))
    PROVE  Whole'
<1>1. \A b \in Buffer : Free(b) => Free(b)'
  BY Zenon DEF Free, InHand
<1>2. QED
  BY <1>1, Zenon DEF Whole

\* A push that goes on keeps its buffer in hand.
LEMMA HandsKept ==
    ASSUME Shapes, NEW t \in Thread, NEW o, op' = [op EXCEPT ![t] = o],
           Holding(t)' <=> Holding(t), Holding(t) => o.pointer = op[t].pointer
    PROVE  \A b : InHand(b)' <=> InHand(b)
<1>1. op'[t] = o /\ \A u \in Thread : u # t => op'[u] = op[u] /\ Holding(u)' = Holding(u)
  BY Step, Zenon
<1>2. \A u \in Thread : /\ Holding(u)' <=> Holding(u)
                        /\ Holding(u) => op'[u].pointer = op[u].pointer
  BY <1>1, Zenon
<1>3. ASSUME NEW b, InHand(b) PROVE InHand(b)'
  BY <1>2, <1>3, Zenon DEF InHand
<1>4. ASSUME NEW b, InHand(b)' PROVE InHand(b)
  BY <1>2, <1>4, Zenon DEF InHand
<1>5. QED
  BY <1>3, <1>4, Zenon

\* A step that claims and releases no slot.
LEMMA SlotsKept ==
    ASSUME Shapes, NEW t \in Thread, NEW o, op' = [op EXCEPT ![t] = o], UNCHANGED index,
           Popping(t)' <=> Popping(t), Popping(t) => o.index = op[t].index,
           Storing(t)' <=> Storing(t), Storing(t) => o.index = op[t].index
    PROVE  \A i : Live(i)' <=> Live(i)
<1>1. /\ op'[t] = o
      /\ \A u \in Thread : u # t => /\ op'[u] = op[u] /\ Storing(u)' = Storing(u)
                                    /\ Popping(u)' = Popping(u)
  BY Step, Zenon
<1>2. \A u \in Thread : /\ (Storing(u)' <=> Storing(u)) /\ (Popping(u)' <=> Popping(u))
                        /\ Storing(u) \/ Popping(u) => op'[u].index = op[u].index
  BY <1>1, Zenon
<1>3. ASSUME NEW i, Live(i) PROVE Live(i)'
  BY <1>2, <1>3, Zenon DEF Live
<1>4. ASSUME NEW i, Live(i)' PROVE Live(i)
  BY <1>2, <1>4, Zenon DEF Live
<1>5. QED
  BY <1>3, <1>4, Zenon

\* Steps of stack_pop and stack_push that read the shared fields.
LEMMA ReadsKeep ==
    ASSUME StackInv, Whole, NEW t \in Thread,
           \/ stack_pop(t) \/ LoadForRead(t) \/ LoadForStore(t) \/ ResizeCopy(t)
           \/ TestCount(t) /\ op[t].index < count
           \/ LoadIndex(t) /\ (index > 0 \/ fresh = {})
           \/ PopExchange(t) /\ index # op[t].index
    PROVE  Whole'
<1>1. /\ UNCHANGED <<arrays, elements, index, out, fresh, lost>>
      /\ \E o : op' = [op EXCEPT ![t] = o]
  BY Zenon DEF stack_pop, LoadForRead, LoadForStore, ResizeCopy, TestCount, LoadIndex, PopExchange, Goto
<1>2. PICK o : op' = [op EXCEPT ![t] = o]
  BY <1>1, Zenon
<1>3. Shapes /\ Types /\ Shape(t) /\ op'[t] = o
  BY <1>2, Step, Zenon DEF StackInv, Shapes
<1>4. \A i \in Nat : Top(i)' = Top(i)
  BY <1>1, Zenon DEF Top, Read
<1>5. /\ Holding(t)' <=> Holding(t)
      /\ Holding(t) => o.pointer = op[t].pointer
      /\ Popping(t)' <=> Popping(t)
      /\ Popping(t) => o.index = op[t].index
      /\ Storing(t)' <=> Storing(t)
      /\ Storing(t) => o.index = op[t].index
  <2> USE DEF Holding, Popping, Storing, PushPc, At, Goto
  <2>1. CASE stack_pop(t)
    BY <2>1, <1>3 DEF stack_pop, MayStart, Idle, Shapes
  <2>2. CASE LoadForRead(t)
    BY <2>2, <1>3, Zenon DEF LoadForRead, Shapes
  <2>3. CASE LoadForStore(t)
    BY <2>3, <1>3, Zenon DEF LoadForStore, Shapes
  <2>4. CASE ResizeCopy(t)
    <3>1. op[t] \in [pc : {"resize"}, pointer : Buffer, size : {2 * count}, original : {0},
                     resized : {<<>>}]
      BY <2>4, <1>3 DEF ResizeCopy, Shape, Idle
    <3>2. PICK r : op' = [op EXCEPT ![t] = [op[t] EXCEPT !.pc = "cas", !.original = elements,
                                                         !.resized = r]]
      BY <2>4, Zenon DEF ResizeCopy
    <3>3. o = [op[t] EXCEPT !.pc = "cas", !.original = elements, !.resized = r]
      BY <3>2, <1>3, Zenon DEF Shapes
    <3>4. o.pc = "cas" /\ o.pointer = op[t].pointer /\ op[t].pc = "resize"
      BY <3>1, <3>3, Zenon
    <3>5. QED
      BY <3>4, <1>3, Zenon
  <2>5. CASE TestCount(t) /\ op[t].index < count
    <3>1. op[t] \in [pc : {"test"}, pointer : Buffer, index : Nat] /\ count \in Nat
      BY <2>5, <1>3 DEF TestCount, Shape, Types, Idle
    <3>2. op' = [op EXCEPT ![t] = [op[t] EXCEPT !.pc = "load"]]
      BY <2>5, <3>1 DEF TestCount
    <3>3. o = [op[t] EXCEPT !.pc = "load"]
      BY <3>2, <1>3, Zenon DEF Shapes
    <3>4. o.pc = "load" /\ o.pointer = op[t].pointer /\ o.index = op[t].index /\ op[t].pc = "test"
      BY <3>1, <3>3, Zenon
    <3>5. QED
      BY <3>4, <1>3, Zenon
  <2>6. CASE LoadIndex(t) /\ (index > 0 \/ fresh = {})
    BY <2>6, <1>3 DEF LoadIndex, Shapes, Idle
  <2>7. CASE PopExchange(t) /\ index # op[t].index
    BY <2>7, <1>3 DEF PopExchange, Shapes
  <2>8. QED
    BY <2>1, <2>2, <2>3, <2>4, <2>5, <2>6, <2>7, Zenon
<1>6. \A b : InHand(b)' <=> InHand(b)
  BY <1>2, <1>3, <1>5, HandsKept, Zenon
<1>7. \A i : Live(i)' <=> Live(i)
  BY <1>1, <1>2, <1>3, <1>5, SlotsKept, Zenon
<1>8. \A b : Stacked(b)' <=> Stacked(b)
  BY <1>4, <1>7, Zenon DEF Stacked
<1>9. QED
  BY <1>1, <1>6, <1>8, NothingMoved, Zenon

\* stack_push claims a slot, which is not live before it stores.
LEMMA FetchAddKeeps ==
    ASSUME StackInv, Whole, NEW t \in Thread, FetchAdd(t)
    PROVE  Whole'
<1> DEFINE o == [pc |-> "test", pointer |-> op[t].pointer, index |-> index]
<1>1. /\ op[t].pc = "fetch_add" /\ op' = [op EXCEPT ![t] = o] /\ index' = index + 1
      /\ UNCHANGED <<arrays, elements, out, fresh, lost>>
  BY Zenon DEF FetchAdd, Goto, At
<1>2. Holding(t) /\ ~Storing(t) /\ ~Popping(t) /\ index \in Nat /\ Shapes
  BY <1>1, Zenon DEF StackInv, Types, Holding, Storing, Popping, PushPc
<1>3. o.pc = "test" /\ o.pointer = op[t].pointer /\ o.index = index
  BY Zenon
<1> HIDE DEF o
<1>4. /\ op'[t] = o
      /\ \A u \in Thread : u # t => ~Storing(u) /\ ~Popping(u) /\ ~Storing(u)' /\ ~Popping(u)'
  BY <1>1, <1>2, Others, Zenon
<1>5. Holding(t)' /\ Storing(t)' /\ ~Popping(t)'
  BY <1>3, <1>4, Zenon DEF Holding, Storing, Popping, PushPc
<1>6. \A i \in Nat : Top(i)' = Top(i)
  BY <1>1, Zenon DEF Top, Read
<1>7. ASSUME NEW i \in Nat PROVE Live(i)' <=> Live(i)
  <2>1. Live(i) <=> i < index
    BY <1>2, <1>4, Zenon DEF Live
  <2>2. Live(i)' <=> i < index + 1 /\ i # index
    BY <1>1, <1>3, <1>4, <1>5, Zenon DEF Live
  <2>3. QED
    BY <2>1, <2>2, <1>2
<1>8. \A b : InHand(b)' <=> InHand(b)
  BY <1>1, <1>2, <1>3, <1>5, HandsKept, Zenon
<1>9. \A b : Stacked(b)' <=> Stacked(b)
  BY <1>6, <1>7, Zenon DEF Stacked
<1>10. QED
  BY <1>1, <1>8, <1>9, NothingMoved, Zenon

\* A slot that a push gave up lies beyond the array and holds no buffer.
LEMMA FullKeeps ==
    ASSUME StackInv, Whole, NEW t \in Thread, TestCount(t), op[t].index >= count
    PROVE  Whole'
<1> DEFINE o == [pc |-> "resize", pointer |-> op[t].pointer, size |-> 2 * count,
                 original |-> 0, resized |-> <<>>]
<1>1. /\ op[t].pc = "test" /\ op' = [op EXCEPT ![t] = o]
      /\ UNCHANGED <<arrays, elements, index, out, fresh, lost>>
  BY Zenon DEF TestCount, Goto, At
<1>2. /\ Holding(t) /\ Storing(t) /\ ~Popping(t) /\ ~At(t, "count") /\ Shapes
      /\ op[t].index \in Nat /\ index \in Nat /\ count \in Nat
  BY <1>1, Fields, Zenon DEF StackInv, Shapes, Types, Holding, Storing, Popping, At, PushPc
<1>3. o.pc = "resize" /\ o.pointer = op[t].pointer
  BY Zenon
<1> HIDE DEF o
<1>4. /\ op'[t] = o
      /\ \A u \in Thread : u # t => /\ ~Storing(u) /\ ~Popping(u) /\ ~At(u, "count")
                                    /\ ~Storing(u)' /\ ~Popping(u)'
  BY <1>1, <1>2, Others, Zenon
<1>5. Holding(t)' /\ ~Storing(t)' /\ ~Popping(t)'
  BY <1>3, <1>4, Zenon DEF Holding, Storing, Popping, PushPc
<1>6. \A i \in Nat : Top(i)' = Top(i)
  BY <1>1, Zenon DEF Top, Read
<1>7. Top(op[t].index) \notin Buffer
  <2>1. DOMAIN arrays[elements] = 0 .. count - 1
    BY <1>2, <1>4, Zenon DEF StackInv, Extent
  <2>2. op[t].index \notin DOMAIN arrays[elements]
    BY <2>1, <1>2
  <2>3. QED
    BY <2>2, TopValue, Zenon DEF StackInv
<1>8. ASSUME NEW i \in Nat, Top(i) \in Buffer PROVE Live(i)' <=> Live(i)
  <2>1. i # op[t].index
    BY <1>7, <1>8, Zenon
  <2>2. Live(i) <=> i < index
    BY <2>1, <1>2, <1>4, Zenon DEF Live
  <2>3. Live(i)' <=> i < index
    BY <1>1, <1>4, <1>5, Zenon DEF Live
  <2>4. QED
    BY <2>2, <2>3, Zenon
<1>9. \A b : InHand(b)' <=> InHand(b)
  BY <1>1, <1>2, <1>3, <1>5, HandsKept, Zenon
<1>10. \A b \in Buffer : Stacked(b)' <=> Stacked(b)
  BY <1>6, <1>8, Zenon DEF Stacked
<1>11. QED
  BY <1>1, <1>9, <1>10, NothingMoved, Zenon

\* The larger array holds what the smaller one held.
LEMMA ExchangeKeeps ==
    ASSUME StackInv, Whole, NEW t \in Thread, ResizeExchange(t)
    PROVE  Whole'
<1> DEFINE o == [op[t] EXCEPT !.pc = "count"]
<1>1. Types /\ Shapes /\ Shape(t) /\ op[t].pc = "cas" /\ count \in Nat
  BY Zenon DEF StackInv, Shapes, Types, ResizeExchange, At
<1>2. op[t] \in [pc : {"cas"}, pointer : Buffer, size : {2 * count}, original : {elements},
                 resized : {Larger}]
  BY <1>1 DEF Shape, Idle
<1>3. /\ op' = [op EXCEPT ![t] = o]
      /\ arrays' = Append(arrays, op[t].resized) /\ elements' = Len(arrays) + 1
      /\ UNCHANGED <<index, out, fresh, lost>>
  BY <1>2, Zenon DEF ResizeExchange, Goto
<1>4. op[t].resized = Larger
  BY <1>2, Zenon
<1>5. Holding(t) /\ ~Storing(t) /\ ~Popping(t) /\ ~At(t, "count")
  BY <1>1, Zenon DEF Holding, Storing, Popping, At, PushPc
<1>6. o.pc = "count" /\ o.pointer = op[t].pointer
  BY <1>2, Zenon
<1> HIDE DEF o
<1>7. op'[t] = o /\ \A u \in Thread : u # t => ~At(u, "count")
  BY <1>3, <1>5, Others, Zenon
<1>8. Holding(t)' /\ ~Storing(t)' /\ ~Popping(t)'
  BY <1>6, <1>7, Zenon DEF Holding, Storing, Popping, PushPc
<1>9. arrays'[elements'] = Larger
  BY <1>1, <1>3, <1>4 DEF Types
<1>10. DOMAIN arrays[elements] = 0 .. count - 1 /\ DOMAIN Larger = 0 .. 2 * count - 1
  BY <1>5, <1>7, Zenon DEF StackInv, Extent, Larger
<1>11. ASSUME NEW i \in Nat PROVE Top(i)' = Top(i)
  <2>1. Top(i)' = IF i \in 0 .. 2 * count - 1 THEN Larger[i] ELSE Garbage
    BY <1>9, <1>10, Zenon DEF Top, Read
  <2>2. Top(i) = IF i \in 0 .. count - 1 THEN arrays[elements][i] ELSE Garbage
    BY <1>10, Zenon DEF Top, Read
  <2>3. ASSUME i \in 0 .. 2 * count - 1
        PROVE  Larger[i] = IF i < count THEN Top(i) ELSE Garbage
    BY <2>3, Zenon DEF Larger
  <2>4. QED
    BY <2>1, <2>2, <2>3, <1>1
<1>12. \A i : Live(i)' <=> Live(i)
  BY <1>1, <1>3, <1>5, <1>8, SlotsKept, Zenon
<1>13. \A b : InHand(b)' <=> InHand(b)
  BY <1>1, <1>3, <1>5, <1>6, <1>8, HandsKept, Zenon
<1>14. \A b : Stacked(b)' <=> Stacked(b)
  BY <1>11, <1>12, Zenon DEF Stacked
<1>15. QED
  BY <1>3, <1>13, <1>14, NothingMoved, Zenon

\* stack_resize sets the count.
LEMMA CountKeeps ==
    ASSUME StackInv, Whole, NEW t \in Thread, ResizeCount(t)
    PROVE  Whole'
<1> DEFINE o == [pc |-> "fetch_add", pointer |-> op[t].pointer]
<1>1. /\ op[t].pc = "count" /\ op' = [op EXCEPT ![t] = o] /\ Shapes
      /\ UNCHANGED <<arrays, elements, index, out, fresh, lost>>
  BY Zenon DEF ResizeCount, Goto, At, StackInv
<1>2. o.pc = "fetch_add" /\ o.pointer = op[t].pointer
  BY Zenon
<1> HIDE DEF o
<1>3. op'[t] = o
  BY <1>1, Step, Zenon
<1>4. /\ Holding(t) /\ ~Storing(t) /\ ~Popping(t)
      /\ Holding(t)' /\ ~Storing(t)' /\ ~Popping(t)'
  BY <1>1, <1>2, <1>3, Zenon DEF Holding, Storing, Popping, PushPc
<1>5. \A i \in Nat : Top(i)' = Top(i)
  BY <1>1, Zenon DEF Top, Read
<1>6. \A i : Live(i)' <=> Live(i)
  BY <1>1, <1>4, SlotsKept, Zenon
<1>7. \A b : InHand(b)' <=> InHand(b)
  BY <1>1, <1>2, <1>4, HandsKept, Zenon
<1>8. \A b : Stacked(b)' <=> Stacked(b)
  BY <1>5, <1>6, Zenon DEF Stacked
<1>9. QED
  BY <1>1, <1>7, <1>8, NothingMoved, Zenon

\* The slot that a pop claims stays live until it is read.
LEMMA ClaimKeeps ==
    ASSUME StackInv, Whole, NEW t \in Thread, PopExchange(t), index = op[t].index
    PROVE  Whole'
<1> DEFINE o == [pc |-> "pop_load", index |-> index]
<1>1. /\ op[t].pc = "pop_cas" /\ op' = [op EXCEPT ![t] = o] /\ index' = index - 1
      /\ UNCHANGED <<arrays, elements, out, fresh, lost>> /\ Shapes
  BY Zenon DEF PopExchange, Goto, At, StackInv
<1>2. index \in Nat \ {0}
  BY <1>1, Fields, Zenon DEF StackInv, Shapes
<1>3. o.pc = "pop_load" /\ o.index = index
  BY Zenon
<1> HIDE DEF o
<1>4. /\ op'[t] = o
      /\ \A u \in Thread : u # t => /\ op'[u] = op[u] /\ Storing(u)' = Storing(u)
                                    /\ Popping(u)' = Popping(u)
  BY <1>1, Step, Zenon
<1>5. /\ ~Holding(t)' /\ ~Storing(t)' /\ Popping(t)'
      /\ ~Holding(t) /\ ~Storing(t) /\ ~Popping(t)
  BY <1>1, <1>3, <1>4, Zenon DEF Holding, Storing, Popping, PushPc
<1>6. \A i \in Nat : Top(i)' = Top(i)
  BY <1>1, Zenon DEF Top, Read
<1>7. ASSUME NEW i \in Nat PROVE Live(i)' <=> Live(i)
  <2>1. (\A u \in Thread : Storing(u) => i # op[u].index)'
           <=> \A u \in Thread : Storing(u) => i # op[u].index
    BY <1>4, <1>5, Zenon
  <2>2. (\E u \in Thread : Popping(u) /\ i = op[u].index - 1)'
           <=> i = index - 1 \/ \E u \in Thread : Popping(u) /\ i = op[u].index - 1
    BY <1>3, <1>4, <1>5, Zenon
  <2>3. i < index <=> i < index - 1 \/ i = index - 1
    BY <1>2
  <2>4. QED
    BY <2>1, <2>2, <2>3, <1>1, Zenon DEF Live
<1>8. \A b : InHand(b)' <=> InHand(b)
  BY <1>1, <1>5, HandsKept, Zenon
<1>9. \A b : Stacked(b)' <=> Stacked(b)
  BY <1>6, <1>7, Zenon DEF Stacked
<1>10. QED
  BY <1>1, <1>8, <1>9, NothingMoved, Zenon

-----------------------------------------------------------------------------
\* Steps that move a buffer.

\* The caller of stack_push gives up its buffer.
LEMMA PushKeeps ==
    ASSUME StackInv, Whole, NEW t \in Thread, NEW b \in Buffer, stack_push(t, b)
    PROVE  Whole'
<1> DEFINE o == [pc |-> "fetch_add", pointer |-> b]
<1>1. /\ op[t].pc = "idle" /\ out[b] > 0 /\ out' = [out EXCEPT ![b] = @ - 1]
      /\ op' = [op EXCEPT ![t] = o] /\ Shapes
      /\ UNCHANGED <<arrays, elements, index, fresh, lost>>
  BY DEF stack_push, MayStart, Idle, StackInv
<1>2. o.pc = "fetch_add" /\ o.pointer = b
  BY Zenon
<1> HIDE DEF o
<1>3. op'[t] = o /\ \A u \in Thread : u # t => op'[u] = op[u] /\ Holding(u)' = Holding(u)
  BY <1>1, Step, Zenon
<1>4. /\ ~Holding(t) /\ ~Storing(t) /\ ~Popping(t)
      /\ Holding(t)' /\ ~Storing(t)' /\ ~Popping(t)'
  BY <1>1, <1>2, <1>3, Zenon DEF Holding, Storing, Popping, PushPc
<1>5. \A i \in Nat : Top(i)' = Top(i)
  BY <1>1, Zenon DEF Top, Read
<1>6. \A i : Live(i)' <=> Live(i)
  BY <1>1, <1>4, SlotsKept, Zenon
<1>7. \A c : Stacked(c)' <=> Stacked(c)
  BY <1>5, <1>6, Zenon DEF Stacked
<1>8. InHand(b)'
  BY <1>2, <1>3, <1>4, Zenon DEF InHand
<1>9. \A c : c # b => (InHand(c)' <=> InHand(c))
  <2>1. ASSUME NEW c, c # b, InHand(c) PROVE InHand(c)'
    BY <2>1, <1>3, <1>4, Zenon DEF InHand
  <2>2. ASSUME NEW c, c # b, InHand(c)' PROVE InHand(c)
    BY <2>2, <1>2, <1>3, <1>4, Zenon DEF InHand
  <2>3. QED
    BY <2>1, <2>2, Zenon
<1>10. \A c \in Buffer : c # b => out'[c] = out[c]
  BY <1>1, Zenon DEF StackInv, Types, Value
<1>11. b \notin lost
  BY <1>1 DEF Whole, Free
<1>12. ASSUME NEW c \in lost PROVE Free(c)'
  BY <1>1, <1>9, <1>10, <1>11, Zenon DEF Whole, Free, InHand
<1>13. QED
  BY <1>1, <1>7, <1>8, <1>9, <1>10, <1>12, Zenon DEF Whole

\* stack_push returns without having stored its buffer.
LEMMA NoMemoryKeeps ==
    ASSUME StackInv, Whole, NEW t \in Thread, ResizeNoMemory(t)
    PROVE  Whole'
<1>1. /\ op' = [op EXCEPT ![t] = Idle] /\ op[t].pc = "resize" /\ Shapes /\ Idle.pc = "idle"
      /\ UNCHANGED <<arrays, elements, index, out, fresh>>
      /\ lost' = lost \cup {op[t].pointer}
  BY Zenon DEF ResizeNoMemory, Goto, At, Idle, StackInv
<1>2. Holding(t) /\ ~Storing(t) /\ ~Popping(t)
  BY <1>1, Zenon DEF Holding, Storing, Popping, PushPc
<1>3. PICK p \in Buffer : p = op[t].pointer
  BY <1>2, Fields, Zenon DEF StackInv, Shapes
<1>4. op'[t] = Idle /\ \A u \in Thread : u # t => ~Holding(u) /\ ~Holding(u)'
  BY <1>1, <1>2, Others, Zenon
<1>5. ~Holding(t)' /\ ~Storing(t)' /\ ~Popping(t)'
  BY <1>1, <1>4, Zenon DEF Holding, Storing, Popping, PushPc
<1>6. \A i \in Nat : Top(i)' = Top(i)
  BY <1>1, Zenon DEF Top, Read
<1>7. \A i : Live(i)' <=> Live(i)
  BY <1>1, <1>2, <1>5, SlotsKept, Zenon
<1>8. \A c : Stacked(c)' <=> Stacked(c)
  BY <1>6, <1>7, Zenon DEF Stacked
<1>9. \A c : InHand(c) => c = p
  BY <1>3, <1>4, Zenon DEF InHand
<1>10. \A u \in Thread : ~Holding(u)'
  BY <1>4, <1>5, Zenon
<1>11. \A c \in Buffer : Free(c) => Free(c)'
  BY <1>1, <1>10, Zenon DEF Free
<1>12. Free(p)'
  BY <1>1, <1>2, <1>3, <1>10, Zenon DEF StackInv, Owned, Free
<1>13. ~Stacked(p)
  BY <1>2, <1>3, Zenon DEF StackInv, Unique, Free, Stacked
<1>14. QED
  BY <1>1, <1>3, <1>8, <1>9, <1>11, <1>12, <1>13, Zenon DEF Whole

\* stack_push stores its buffer.
LEMMA StoreKeeps ==
    ASSUME StackInv, Whole, Claimed, NEW t \in Thread, Store(t)
    PROVE  Whole'
<1>1. /\ op[t].pc = "store" /\ op[t].index \in Nat /\ op[t].index < count
      /\ op[t].pointer \in Buffer /\ op[t].array = elements /\ count \in Nat
      /\ index \in Nat
  BY Fields, Zenon DEF StackInv, Shapes, Types, Holding, Storing, PushPc, Store, At
<1>2. PICK s \in Nat, p \in Buffer : s = op[t].index /\ p = op[t].pointer
  BY <1>1, Zenon
<1>3. /\ op' = [op EXCEPT ![t] = Idle]
      /\ arrays' = [arrays EXCEPT ![elements][s] = p]
      /\ UNCHANGED <<elements, index, count, out, fresh, lost>>
  BY <1>1, <1>2, Zenon DEF Store, Goto
<1>4. Holding(t) /\ Storing(t) /\ ~Popping(t) /\ ~At(t, "count") /\ s < count
  BY <1>1, <1>2, Zenon DEF Holding, Storing, Popping, At, PushPc
<1>5. /\ op'[t] = Idle
      /\ \A u \in Thread : u # t =>
            /\ ~Holding(u) /\ ~Storing(u) /\ ~Popping(u) /\ ~At(u, "count")
            /\ ~Holding(u)' /\ ~Storing(u)' /\ ~Popping(u)'
  BY <1>3, <1>4, Others, Zenon
<1>6. ~Storing(t)' /\ ~Popping(t)' /\ ~Holding(t)'
  BY <1>5 DEF Idle, Holding, Storing, Popping, PushPc
<1>7. DOMAIN arrays[elements] = 0 .. count - 1
  BY <1>4, <1>5, Zenon DEF StackInv, Extent
<1>8. elements \in 1 .. Len(arrays) /\ arrays \in Seq(Array)
  BY Zenon DEF StackInv, Types
<1>9. arrays'[elements] = [arrays[elements] EXCEPT ![s] = p]
  BY <1>3, <1>8
<1>10. Top(s)' = p /\ \A i \in Nat : i # s => Top(i)' = Top(i)
  BY <1>1, <1>3, <1>4, <1>7, <1>9 DEF Top, Read
<1>11. \A i \in Nat : Live(i)' <=> i < index
  BY <1>3, <1>5, <1>6, Zenon DEF Live
<1>12. \A i \in Nat : Live(i) <=> i < index /\ i # s
  BY <1>2, <1>4, <1>5, Zenon DEF Live
<1>13. s < index
  BY <1>2, <1>4, Zenon DEF Claimed
<1>14. Stacked(p)' /\ \A c : c # p => (Stacked(c)' <=> Stacked(c))
  BY <1>10, <1>11, <1>12, <1>13, Zenon DEF Stacked
<1>15. \A u \in Thread : ~Holding(u)'
  BY <1>5, <1>6, Zenon
<1>16. \A c : InHand(c) => c = p
  BY <1>2, <1>5, Zenon DEF InHand
<1>17. \A c \in Buffer : Free(c) => Free(c)'
  BY <1>3, <1>15, Zenon DEF Free
<1>18. p \notin lost
  BY <1>2, <1>4, Zenon DEF Whole, Free
<1>19. QED
  BY <1>3, <1>14, <1>16, <1>17, <1>18, Zenon DEF Whole

\* gracht_server_get_buffer allocates a buffer.
LEMMA AllocateKeeps ==
    ASSUME StackInv, Whole, NEW t \in Thread, LoadIndex(t), ~(index > 0 \/ fresh = {})
    PROVE  Whole'
<1>1. /\ op[t].pc = "pop" /\ op' = [op EXCEPT ![t] = Idle] /\ Idle.pc = "idle" /\ Shapes
      /\ UNCHANGED <<arrays, elements, index, lost>>
  BY Zenon DEF LoadIndex, Goto, At, Idle, StackInv
<1>2. PICK b \in fresh : fresh' = fresh \ {b} /\ out' = [out EXCEPT ![b] = @ + 1]
  BY Zenon DEF LoadIndex
<1>3. op'[t] = Idle
  BY <1>1, Step, Zenon
<1>4. /\ ~Holding(t) /\ ~Storing(t) /\ ~Popping(t)
      /\ ~Holding(t)' /\ ~Storing(t)' /\ ~Popping(t)'
  BY <1>1, <1>3, Zenon DEF Holding, Storing, Popping, PushPc
<1>5. /\ b \in Buffer /\ out'[b] > 0
      /\ \A c \in Buffer : c # b => out'[c] = out[c]
  BY <1>2 DEF StackInv, Types, Value
<1>6. \A i \in Nat : Top(i)' = Top(i)
  BY <1>1, Zenon DEF Top, Read
<1>7. \A i : Live(i)' <=> Live(i)
  BY <1>1, <1>4, SlotsKept, Zenon
<1>8. \A c : Stacked(c)' <=> Stacked(c)
  BY <1>6, <1>7, Zenon DEF Stacked
<1>9. \A c : InHand(c)' <=> InHand(c)
  BY <1>1, <1>4, HandsKept, Zenon
<1>10. ASSUME NEW c \in lost PROVE Free(c)'
  <2>1. Free(c) /\ c \in Buffer /\ c # b
    BY <1>2, Zenon DEF Whole, Free
  <2>2. QED
    BY <2>1, <1>2, <1>5, <1>9, Zenon DEF Free, InHand
<1>11. QED
  BY <1>1, <1>2, <1>5, <1>8, <1>9, <1>10, Zenon DEF Whole

\* stack_pop takes the buffer out of the slot it claimed.
LEMMA PopReadKeeps ==
    ASSUME StackInv, Whole, NEW t \in Thread, PopRead(t)
    PROVE  Whole'
<1>1. /\ op[t].pc = "pop_read" /\ op' = [op EXCEPT ![t] = Idle] /\ Shapes
      /\ UNCHANGED <<arrays, elements, index, fresh, lost>>
      /\ out' = [out EXCEPT ![Read(op[t].array, op[t].index - 1)] = @ + 1]
  BY Zenon DEF PopRead, Goto, At, StackInv
<1>2. op[t].index \in Nat \ {0} /\ op[t].array = elements /\ op[t] # Idle
  BY <1>1, Fields, Zenon DEF StackInv, Shapes, Idle
<1>3. PICK s \in Nat : s = op[t].index - 1
  BY <1>2
<1>4. PICK v \in Value : v = Top(s)
  BY TopValue, Zenon DEF StackInv
<1>5. out' = [out EXCEPT ![v] = @ + 1]
  BY <1>1, <1>2, <1>3, <1>4, Zenon DEF Top
<1>6. /\ op'[t] = Idle
      /\ \A u \in Thread : u # t => /\ op'[u] = op[u] /\ Storing(u)' = Storing(u)
                                    /\ Popping(u)' = Popping(u)
  BY <1>1, Step, Zenon
<1>7. /\ ~Holding(t) /\ ~Storing(t) /\ Popping(t)
      /\ ~Holding(t)' /\ ~Storing(t)' /\ ~Popping(t)'
  BY <1>1, <1>6 DEF Holding, Storing, Popping, PushPc, Idle
<1>8. Live(s)
  <2>1. \A u \in Thread : ~Storing(u)
    BY <1>2, <1>7, Alone, Zenon DEF StackInv, Storing, Holding, PushPc
  <2>2. QED
    BY <2>1, <1>3, <1>7, Zenon DEF Live
<1>9. \A i \in Nat : Top(i)' = Top(i)
  BY <1>1, Zenon DEF Top, Read
<1>10. \A u \in Thread : Popping(u) => op[u].index \in Nat
  BY Fields, Zenon DEF StackInv, Shapes, Popping
<1>11. ASSUME NEW i \in Nat, Live(i)' PROVE Live(i)
  BY <1>11, <1>1, <1>6, <1>7, Zenon DEF Live
<1>12. ASSUME NEW i \in Nat, Live(i), i # s PROVE Live(i)'
  BY <1>12, <1>1, <1>3, <1>6, <1>7, Zenon DEF Live
<1>13. \A c : Stacked(c)' => Stacked(c)
  BY <1>9, <1>11, Zenon DEF Stacked
<1>14. \A c : Stacked(c) /\ c # v => Stacked(c)'
  BY <1>4, <1>9, <1>12, Zenon DEF Stacked
<1>15. \A c : InHand(c)' <=> InHand(c)
  BY <1>1, <1>7, HandsKept, Zenon
<1>16. out'[v] > 0 /\ \A c \in Buffer : c # v => out'[c] = out[c]
  BY <1>4, <1>5 DEF StackInv, Types, Value
<1>17. v \notin lost
  BY <1>4, <1>8, Zenon DEF Whole, Stacked
<1>18. ASSUME NEW c \in lost PROVE Free(c)'
  <2>1. Free(c) /\ c \in Buffer /\ c # v
    BY <1>17, Zenon DEF Whole
  <2>2. QED
    BY <2>1, <1>1, <1>15, <1>16, Zenon DEF Free, InHand
<1>19. QED
  BY <1>1, <1>13, <1>14, <1>15, <1>16, <1>18, Zenon DEF Whole

-----------------------------------------------------------------------------
\* Claimed slots stay below the index: no pop takes the index back during a push.
LEMMA ClaimedKept ==
    ASSUME StackInv, Claimed, NEW t \in Thread, NEW o, op' = [op EXCEPT ![t] = o],
           \/ index' = index /\ (Storing(t)' => Storing(t) /\ o.index = op[t].index)
           \/ Holding(t) /\ index' = index + 1 /\ o.index = index
           \/ op[t] # Idle /\ ~Holding(t) /\ ~Storing(t)'
    PROVE  Claimed'
<1>1. /\ op'[t] = o /\ index \in Nat
      /\ \A u \in Thread : u # t => op'[u] = op[u] /\ Storing(u)' = Storing(u)
  BY Step, Zenon DEF StackInv, Types
<1>2. CASE index' = index /\ (Storing(t)' => Storing(t) /\ o.index = op[t].index)
  BY <1>1, <1>2, Zenon DEF Claimed
<1>3. CASE Holding(t) /\ index' = index + 1 /\ o.index = index
  <2>1. \A u \in Thread : u # t => ~Storing(u)'
    BY <1>3, Others, Zenon
  <2>2. QED
    BY <1>1, <1>3, <2>1 DEF Claimed
<1>4. CASE op[t] # Idle /\ ~Holding(t) /\ ~Storing(t)'
  <2>1. \A u \in Thread : ~Storing(u)
    BY <1>4, Alone, Zenon DEF StackInv, Storing, Holding, PushPc
  <2>2. QED
    BY <1>1, <1>4, <2>1, Zenon DEF Claimed
<1>5. QED
  BY <1>2, <1>3, <1>4, Zenon

\* A step that ends, or does not make, a claim.
LEMMA NoClaim ==
    ASSUME StackInv, Claimed, NEW t \in Thread, NEW o, op' = [op EXCEPT ![t] = o],
           index' = index, o.pc \notin {"test", "load", "store"}
    PROVE  Claimed'
<1>1. op'[t] = o
  BY Step, Zenon DEF StackInv
<1>2. ~Storing(t)'
  BY <1>1, Zenon DEF Storing
<1>3. QED
  BY <1>2, ClaimedKept, Zenon

\* Every step keeps claimed slots below the index.
LEMMA ClaimedStep ==
    ASSUME StackInv, Claimed, [Next]_vars
    PROVE  Claimed'
<1> USE DEF Holding, Storing, PushPc, At, Goto
<1>1. Shapes /\ Types /\ DOMAIN op = Thread /\ \A t \in Thread : Shape(t)
  BY Zenon DEF StackInv, Shapes
<1>2. ASSUME NEW t \in Thread, NEW b \in Buffer, stack_push(t, b) PROVE Claimed'
  <2> DEFINE o == [pc |-> "fetch_add", pointer |-> b]
  <2>1. op' = [op EXCEPT ![t] = o] /\ index' = index /\ op'[t] = o
    BY <1>1, <1>2, Zenon DEF stack_push
  <2>2. o.pc = "fetch_add"
    BY Zenon
  <2> HIDE DEF o
  <2>3. QED
    BY <2>1, <2>2, NoClaim, Zenon
<1>3. ASSUME NEW t \in Thread, FetchAdd(t) PROVE Claimed'
  <2> DEFINE o == [pc |-> "test", pointer |-> op[t].pointer, index |-> index]
  <2>1. op' = [op EXCEPT ![t] = o] /\ index' = index + 1 /\ Holding(t) /\ o.index = index
    BY <1>3, Zenon DEF FetchAdd
  <2> HIDE DEF o
  <2>2. QED
    BY <2>1, ClaimedKept, Zenon
<1>4. ASSUME NEW t \in Thread, TestCount(t) PROVE Claimed'
  <2>1. op[t] \in [pc : {"test"}, pointer : Buffer, index : Nat] /\ index' = index
    BY <1>1, <1>4 DEF TestCount, Shape, Idle
  <2>2. PICK o \in {[pc |-> "resize", pointer |-> op[t].pointer, size |-> 2 * count,
                     original |-> 0, resized |-> <<>>], [op[t] EXCEPT !.pc = "load"]} :
            op' = [op EXCEPT ![t] = o]
    BY <1>4, Zenon DEF TestCount
  <2>3. op'[t] = o /\ (o.pc = "resize" \/ (o.pc = "load" /\ o.index = op[t].index))
    BY <1>1, <2>1, <2>2
  <2>4. Storing(t)' => Storing(t) /\ o.index = op[t].index
    BY <2>1, <2>3, Zenon
  <2>5. QED
    BY <2>1, <2>2, <2>4, ClaimedKept, Zenon
<1>5. ASSUME NEW t \in Thread, LoadForStore(t) PROVE Claimed'
  <2> DEFINE o == [pc |-> "store", pointer |-> op[t].pointer, index |-> op[t].index,
                   array |-> elements]
  <2>1. /\ op' = [op EXCEPT ![t] = o] /\ index' = index /\ Storing(t)
        /\ o.index = op[t].index
    BY <1>5, Zenon DEF LoadForStore
  <2> HIDE DEF o
  <2>2. QED
    BY <2>1, ClaimedKept, Zenon
<1>6. ASSUME NEW t \in Thread, Grow(t) PROVE Claimed'
  <2>1. PICK o : /\ op' = [op EXCEPT ![t] = o] /\ index' = index
                 /\ o.pc \notin {"test", "load", "store"}
    <3>1. CASE ResizeCopy(t)
      <4>1. op[t] \in [pc : {"resize"}, pointer : Buffer, size : {2 * count}, original : {0},
                       resized : {<<>>}]
        BY <3>1, <1>1 DEF ResizeCopy, Shape, Idle
      <4>2. PICK r : /\ op' = [op EXCEPT ![t] = [op[t] EXCEPT !.pc = "cas", !.original = elements,
                                                              !.resized = r]]
                     /\ index' = index
        BY <3>1, Zenon DEF ResizeCopy
      <4>3. [op[t] EXCEPT !.pc = "cas", !.original = elements, !.resized = r].pc = "cas"
        BY <4>1, Zenon
      <4>4. QED
        BY <4>2, <4>3, Zenon
    <3>2. CASE ResizeNoMemory(t) \/ ResizeCount(t)
      BY <3>2, Zenon DEF ResizeNoMemory, ResizeCount, Idle
    <3>3. CASE ResizeExchange(t)
      <4>1. op[t] \in [pc : {"cas"}, pointer : Buffer, size : {2 * count}, original : {elements},
                       resized : {Larger}]
        BY <3>3, <1>1 DEF ResizeExchange, Shape, Idle
      <4>2. op' = [op EXCEPT ![t] = [op[t] EXCEPT !.pc = "count"]] /\ index' = index
        BY <3>3, <4>1, Zenon DEF ResizeExchange
      <4>3. [op[t] EXCEPT !.pc = "count"].pc = "count"
        BY <4>1, Zenon
      <4>4. QED
        BY <4>2, <4>3, Zenon
    <3>4. QED
      BY <1>6, <3>1, <3>2, <3>3, Zenon DEF Grow
  <2>2. QED
    BY <2>1, NoClaim, Zenon
<1>7. ASSUME NEW t \in Thread, Store(t) \/ PopRead(t) \/ LoadIndex(t) PROVE Claimed'
  <2>1. PICK o : /\ op' = [op EXCEPT ![t] = o] /\ index' = index
                 /\ o.pc \notin {"test", "load", "store"}
    BY <1>7, Zenon DEF Store, PopRead, LoadIndex, Idle
  <2>2. QED
    BY <2>1, NoClaim, Zenon
<1>8. ASSUME NEW t \in Thread, stack_pop(t) \/ LoadForRead(t) PROVE Claimed'
  <2>1. CASE stack_pop(t)
    <3> DEFINE o == [pc |-> "pop"]
    <3>1. op' = [op EXCEPT ![t] = o] /\ index' = index /\ o.pc = "pop"
      BY <2>1, Zenon DEF stack_pop
    <3> HIDE DEF o
    <3>2. QED
      BY <3>1, NoClaim, Zenon
  <2>2. CASE LoadForRead(t)
    <3> DEFINE o == [pc |-> "pop_read", index |-> op[t].index, array |-> elements]
    <3>1. op' = [op EXCEPT ![t] = o] /\ index' = index /\ o.pc = "pop_read"
      BY <2>2, Zenon DEF LoadForRead
    <3> HIDE DEF o
    <3>2. QED
      BY <3>1, NoClaim, Zenon
  <2>3. QED
    BY <1>8, <2>1, <2>2, Zenon
<1>9. ASSUME NEW t \in Thread, PopExchange(t) PROVE Claimed'
  <2>1. PICK o : op' = [op EXCEPT ![t] = o] /\ o.pc \notin {"test", "load", "store"}
    BY <1>9, Zenon DEF PopExchange
  <2>2. ~Storing(t)' /\ op[t] # Idle /\ ~Holding(t)
    BY <1>1, <1>9, <2>1 DEF PopExchange, Idle
  <2>3. QED
    BY <2>1, <2>2, ClaimedKept, Zenon
<1>10. CASE UNCHANGED vars
  BY <1>10, Zenon DEF vars, Claimed
<1>11. QED
  BY <1>2, <1>3, <1>4, <1>5, <1>6, <1>7, <1>8, <1>9, <1>10, Zenon DEF Next

\* Every step keeps account of the buffers.
LEMMA WholeStep ==
    ASSUME StackInv, Claimed, Whole, [Next]_vars
    PROVE  Whole'
<1>1. ASSUME NEW t \in Thread, NEW b \in Buffer, stack_push(t, b) PROVE Whole'
  BY <1>1, PushKeeps, Zenon
<1>2. ASSUME NEW t \in Thread, FetchAdd(t) \/ LoadForStore(t) \/ Store(t) PROVE Whole'
  BY <1>2, FetchAddKeeps, ReadsKeep, StoreKeeps, Zenon
<1>3. ASSUME NEW t \in Thread, TestCount(t) PROVE Whole'
  <2>1. op[t].index \in Nat /\ count \in Nat
    BY <1>3, Fields, Zenon DEF StackInv, Shapes, Types, TestCount, At, Storing
  <2>2. op[t].index < count \/ op[t].index >= count
    BY <2>1
  <2>3. QED
    BY <1>3, <2>2, ReadsKeep, FullKeeps, Zenon
<1>4. ASSUME NEW t \in Thread, Grow(t) PROVE Whole'
  BY <1>4, ReadsKeep, NoMemoryKeeps, ExchangeKeeps, CountKeeps, Zenon DEF Grow
<1>5. ASSUME NEW t \in Thread, stack_pop(t) \/ LoadForRead(t) \/ PopRead(t) PROVE Whole'
  BY <1>5, ReadsKeep, PopReadKeeps, Zenon
<1>6. ASSUME NEW t \in Thread, LoadIndex(t) PROVE Whole'
  BY <1>6, ReadsKeep, AllocateKeeps, Zenon
<1>7. ASSUME NEW t \in Thread, PopExchange(t) PROVE Whole'
  BY <1>7, ReadsKeep, ClaimKeeps, Zenon
<1>8. CASE UNCHANGED vars
  <2>1. UNCHANGED <<arrays, elements, index, op, out, fresh, lost>>
    BY <1>8, Zenon DEF vars
  <2>2. \A b : (InHand(b)' <=> InHand(b)) /\ (Stacked(b)' <=> Stacked(b))
    BY <2>1, Zenon DEF InHand, Stacked, Live, Top, Read, Holding, Storing, Popping
  <2>3. QED
    BY <2>1, <2>2, NothingMoved, Zenon
<1>9. QED
  BY <1>1, <1>2, <1>3, <1>4, <1>5, <1>6, <1>7, <1>8, Zenon DEF Next

\* A pool starts with all of its buffers in its slots, and otherwise none is allocated.
LEMMA WholeAtFirst ==
    ASSUME StackInv, Init
    PROVE  Whole /\ Claimed
<1>1. /\ count \in Nat \ {0} /\ elements = 1 /\ lost = {}
      /\ \A t \in Thread : op[t] = Idle
  BY Zenon DEF Init, StackInv, Types
<1>2. \A t \in Thread : ~Storing(t) /\ ~Holding(t)
  BY <1>1 DEF Idle, Storing, Holding, PushPc
<1>3. ASSUME NEW b \in Buffer \ fresh PROVE Stacked(b)
  <2>1. usage.prefilled
    BY <1>3, Zenon DEF Init
  <2>2. PICK f \in [0 .. count - 1 -> Buffer] :
            {f[i] : i \in DOMAIN f} = Buffer /\ arrays = <<f>> /\ index = count
    BY <2>1, Zenon DEF Init
  <2>3. PICK i \in 0 .. count - 1 : f[i] = b
    BY <2>2, Zenon
  <2>4. arrays[elements] = f /\ DOMAIN f = 0 .. count - 1
    BY <1>1, <2>2, Zenon
  <2>5. Top(i) = b /\ Live(i) /\ i \in Nat
    BY <1>1, <1>2, <2>2, <2>3, <2>4 DEF Top, Read, Live
  <2>6. QED
    BY <2>5, Zenon DEF Stacked
<1>4. QED
  BY <1>1, <1>2, <1>3, Zenon DEF Whole, Claimed

-----------------------------------------------------------------------------
(* A pool has room, and the theorems                                       *)

\* The callers serialise the operations, or only acquire.
SafeUsage == \A u \in Usage : u.serialised \/ u.releaser = {}

\* A pool has a slot left for a buffer that is being pushed.
LEMMA Room ==
    ASSUME StackInv, NEW t \in Thread, At(t, "fetch_add"), usage.prefilled
    PROVE  index < count
<1>1. Holding(t) /\ op[t] # Idle /\ ~Storing(t) /\ op[t].pointer \in Buffer /\ index \in Nat
  BY Fields, Zenon DEF StackInv, Shapes, Types, At, Holding, Storing, PushPc, Idle
<1>2. \A u \in Thread : ~Storing(u)
  BY <1>1, Alone DEF StackInv, Storing, Idle
<1>3. \A i \in 0 .. index - 1 : Live(i) /\ Top(i) \in Buffer
  BY <1>1, <1>2 DEF Live, StackInv, NoGarbage
<1> DEFINE S == 0 .. index - 1
           T == Buffer \ {op[t].pointer}
           f == [i \in S |-> Top(i)]
<1>4. f \in [S -> T]
  BY <1>1, <1>3, Zenon DEF StackInv, Unique, Free
<1>5. \A i, j \in S : f[i] = f[j] => i = j
  BY <1>3, Zenon DEF StackInv, Unique
<1>6. f \in Injection(S, T)
  BY <1>4, <1>5, Zenon DEF Injection, IsInjective
<1>7. IsFiniteSet(T) /\ Cardinality(T) = Cardinality(Buffer) - 1
  <2>1. IsFiniteSet(Buffer)
    BY LockFreeStackAssumption, Zenon
  <2>2. QED
    BY <1>1, <2>1, FS_RemoveElement, Zenon
<1>8. Cardinality(S) <= Cardinality(T)
  BY <1>6, <1>7, FS_Injection
<1>9. Cardinality(S) = index
  <2>1. 0 \in Int /\ index - 1 \in Int
    BY <1>1
  <2>2. Cardinality(S) = IF 0 > index - 1 THEN 0 ELSE (index - 1) - 0 + 1
    BY <2>1, FS_Interval, Zenon
  <2>3. QED
    BY <2>2, <1>1
<1>10. Cardinality(Buffer) \in Nat /\ count = Cardinality(Buffer)
  BY FS_CardinalityType, LockFreeStackAssumption, Zenon DEF StackInv, NoGarbage
<1>11. QED
  BY <1>1, <1>7, <1>8, <1>9, <1>10

\* stack_construct, and the pushes that fill a pool, establish the invariant.
LEMMA InitStackInv == SafeUsage /\ Init => StackInv
<1> SUFFICES ASSUME SafeUsage, Init PROVE StackInv
  BY Zenon
<1>1. /\ usage \in Usage /\ count = usage.initialCount /\ count \in Nat \ {0}
      /\ usage.prefilled => Cardinality(Buffer) = count
      /\ elements = 1 /\ op = [t \in Thread |-> Idle] /\ out = [v \in Value |-> 0]
  BY LockFreeStackAssumption, Zenon DEF Init
<1>2. \A t \in Thread : op[t] = Idle /\ op[t].pc = "idle"
  BY <1>1, Zenon DEF Idle
<1>3. \A t \in Thread : ~Holding(t) /\ ~Storing(t) /\ ~Popping(t) /\ ~At(t, "count")
  BY <1>2, Zenon DEF Holding, Storing, Popping, At, PushPc
<1>4. PICK f : /\ f \in [0 .. count - 1 -> Value] /\ arrays = <<f>>
               /\ index \in Nat /\ fresh \subseteq Buffer
               /\ usage.prefilled => /\ f \in [0 .. count - 1 -> Buffer] /\ index = count
                                     /\ {f[i] : i \in DOMAIN f} = Buffer /\ fresh = {}
               /\ ~usage.prefilled => index = 0
  <2>1. CASE usage.prefilled
    BY <2>1, <1>1, Zenon DEF Init, Value
  <2>2. CASE ~usage.prefilled
    BY <2>2, <1>1 DEF Init, Value, Malloc
  <2>3. QED
    BY <2>1, <2>2, Zenon
<1>5. f \in Array
  BY <1>1, <1>4, Zenon DEF Array
<1>6. arrays \in Seq(Array) /\ Len(arrays) = 1 /\ arrays[elements] = f
  BY <1>1, <1>4, <1>5
<1>7. Types
  BY <1>1, <1>4, <1>6 DEF Types
<1>8. Shapes /\ Users /\ Claims
  BY <1>1, <1>2, <1>3, Zenon DEF SafeUsage, Shapes, Shape, Users, Claims
<1>9. Extent
  BY <1>3, <1>4, <1>6, Zenon DEF Extent
<1>10. \A i : Live(i) => usage.prefilled /\ i \in 0 .. count - 1
  BY <1>1, <1>3, <1>4 DEF Live
<1>11. \A i \in 0 .. count - 1 : Top(i) = f[i]
  BY <1>4, <1>6, Zenon DEF Top, Read
<1>12. ASSUME usage.prefilled, NEW i \in 0 .. count - 1, NEW j \in 0 .. count - 1, f[i] = f[j]
       PROVE  i = j
  <2> DEFINE S == 0 .. count - 1
  <2>1. f \in Surjection(S, Buffer)
    BY <1>4, <1>12, Zenon DEF Surjection
  <2>2. IsFiniteSet(S) /\ Cardinality(S) = count
    <3>1. 0 \in Int /\ count - 1 \in Int
      BY <1>1
    <3>2. IsFiniteSet(S) /\ Cardinality(S) = IF 0 > count - 1 THEN 0 ELSE (count - 1) - 0 + 1
      BY <3>1, FS_Interval, Zenon
    <3>3. QED
      BY <3>2, <1>1
  <2>3. f \in Injection(S, Buffer)
    BY <2>1, <2>2, <1>1, <1>12, FS_Surjection, Zenon
  <2>4. QED
    BY <2>3, <1>4, <1>12, Zenon DEF Injection, IsInjective
<1>13. \A b \in Value : out[b] = 0
  BY <1>1, Zenon
<1>14. Unique
  <2>1. \A i : Live(i) /\ Top(i) \in Buffer => Free(Top(i))
    BY <1>3, <1>4, <1>10, <1>13, Zenon DEF Free, Value
  <2>2. QED
    BY <2>1, <1>10, <1>11, <1>12, Zenon DEF Unique
<1>15. Owned
  BY <1>3, <1>4, <1>13 DEF Owned, Value
<1>16. NoGarbage
  BY <1>1, <1>2, <1>4, <1>10, <1>11, <1>13, Zenon DEF NoGarbage, Value
<1>17. QED
  BY <1>7, <1>8, <1>9, <1>14, <1>15, <1>16, Zenon DEF StackInv

\* Every step of every thread preserves it.
LEMMA NextStackInv == StackInv /\ [Next]_vars => StackInv'
<1> SUFFICES ASSUME StackInv, [Next]_vars PROVE StackInv'
  BY Zenon
<1>1. ASSUME NEW t \in Thread, NEW b \in Buffer, stack_push(t, b) PROVE StackInv'
  BY <1>1, PushPreserves, Zenon
<1>2. ASSUME NEW t \in Thread, FetchAdd(t) \/ LoadForStore(t) \/ Store(t) PROVE StackInv'
  <2>1. CASE FetchAdd(t)
    <3>1. usage.prefilled => index < count
      BY <2>1, Room, Zenon DEF FetchAdd
    <3>2. QED
      BY <2>1, <3>1, FetchAddPreserves, Zenon
  <2>2. QED
    BY <1>2, <2>1, PushLoads, StorePreserves, Zenon
<1>3. ASSUME NEW t \in Thread, TestCount(t) PROVE StackInv'
  <2>1. op[t].index \in Nat /\ count \in Nat
    BY <1>3, Fields, Zenon DEF StackInv, Shapes, Types, TestCount, At, Storing
  <2>2. op[t].index < count \/ op[t].index >= count
    BY <2>1
  <2>3. QED
    BY <1>3, <2>2, PushLoads, FullPreserves, Zenon
<1>4. ASSUME NEW t \in Thread, Grow(t) PROVE StackInv'
  BY <1>4, CopyPreserves, NoMemoryPreserves, ExchangePreserves, CountPreserves, Zenon DEF Grow
<1>5. ASSUME NEW t \in Thread, stack_pop(t) \/ LoadForRead(t) \/ PopRead(t) PROVE StackInv'
  BY <1>5, PopStarts, PopReadPreserves, Zenon
<1>6. ASSUME NEW t \in Thread, LoadIndex(t) PROVE StackInv'
  BY <1>6, LoadIndexPreserves, AllocatePreserves, Zenon
<1>7. ASSUME NEW t \in Thread, PopExchange(t) PROVE StackInv'
  BY <1>7, PopFails, PopClaims, Zenon
<1>8. CASE UNCHANGED vars
  <2>1. UNCHANGED <<arrays, elements, index, count, op, out, fresh, usage>>
    BY <1>8, Zenon DEF vars
  <2>2. Types' /\ Users' /\ Extent' /\ Claims'
    BY <2>1, Zenon DEF StackInv, Types, Users, Extent, Claims, Holding, Popping, At
  <2>3. Shapes'
    BY <2>1, ShapeKept, Zenon DEF StackInv, Shapes
  <2>4. /\ \A i : Top(i)' = Top(i)
        /\ \A i : Live(i)' = Live(i)
        /\ \A b : Free(b)' = Free(b)
    BY <2>1, Zenon DEF Top, Read, Live, Free, Holding, Storing, Popping
  <2>5. Unique'
    BY <2>4, UniqueKept, Zenon DEF StackInv
  <2>6. Owned' /\ NoGarbage'
    BY <2>1, <2>4, Zenon DEF StackInv, Owned, NoGarbage, Holding
  <2>7. QED
    BY <2>2, <2>3, <2>5, <2>6, Zenon DEF StackInv
<1>9. QED
  BY <1>1, <1>2, <1>3, <1>4, <1>5, <1>6, <1>7, <1>8, Zenon DEF Next

\* With a lock around the operations, or without releases, nobody acquires a buffer
\* that somebody has, and a pool returns nothing but its buffers.
THEOREM BuffersHaveOneHolder == SafeUsage => (Spec => []SingleHolder)
<1>1. StackInv => SingleHolder
  BY Zenon DEF StackInv, Owned, NoGarbage, SingleHolder, SafeBuffer
<1>2. QED
  BY <1>1, InitStackInv, NextStackInv, PTL DEF Spec

\* Between operations, a buffer that was allocated is held, or in one slot below the
\* index, or was dropped for lack of memory, and only one of these: the acquire that
\* finds a pool empty is right.
THEOREM BuffersAreConserved == SafeUsage => (Spec => []Conserved)
<1>1. ASSUME StackInv, Whole PROVE Conserved
  <2> SUFFICES ASSUME \A t \in Thread : op[t] = Idle, NEW b \in Buffer \ fresh
               PROVE  out[b] + Cardinality({i \in 0 .. index - 1 : Read(elements, i) = b})
                         + (IF b \in lost THEN 1 ELSE 0) = 1
    BY Zenon DEF Conserved
  <2> DEFINE S == {i \in 0 .. index - 1 : Read(elements, i) = b}
  <2>1. \A t \in Thread : ~Storing(t) /\ ~Holding(t) /\ ~Popping(t)
    BY DEF Idle, Storing, Holding, Popping, PushPc
  <2>2. index \in Nat /\ out[b] \in Nat /\ out[b] <= 1
    BY <1>1, Zenon DEF StackInv, Types, Owned, Value
  <2>3. \A i \in Nat : Live(i) <=> i \in 0 .. index - 1
    BY <2>1, <2>2 DEF Live
  <2>4. \A i \in S : Live(i) /\ Top(i) = b /\ i \in Nat
    BY <2>2, <2>3 DEF Top
  <2>5. ~InHand(b)
    BY <2>1, Zenon DEF InHand
  <2>6. Stacked(b) => out[b] = 0
    BY <1>1, Zenon DEF StackInv, Unique, Free, Stacked
  <2>7. b \in lost => out[b] = 0 /\ ~Stacked(b)
    BY <1>1, Zenon DEF Whole, Free
  <2>8. CASE Stacked(b)
    <3>1. PICK i \in Nat : Live(i) /\ Top(i) = b
      BY <2>8, Zenon DEF Stacked
    <3>2. i \in S
      BY <2>3, <3>1, Zenon DEF Top
    <3>3. \A j \in S : j = i
      BY <1>1, <2>4, <3>1, Zenon DEF StackInv, Unique
    <3>4. S = {i}
      BY <3>2, <3>3, Zenon
    <3>5. Cardinality(S) = 1
      BY <3>4, FS_Singleton, Zenon
    <3>6. QED
      BY <2>6, <2>7, <2>8, <3>5
  <2>9. CASE ~Stacked(b)
    <3>1. S = {}
      BY <2>4, <2>9, Zenon DEF Stacked
    <3>2. Cardinality(S) = 0
      BY <3>1, FS_EmptySet, Zenon
    <3>3. out[b] = 1 \/ b \in lost
      BY <1>1, <2>2, <2>5, <2>9 DEF Whole
    <3>4. QED
      BY <2>2, <2>7, <3>2, <3>3
  <2>10. QED
    BY <2>8, <2>9, Zenon
<1>2. SafeUsage /\ Init => StackInv /\ Claimed /\ Whole
  BY InitStackInv, WholeAtFirst, Zenon
<1>3. StackInv /\ Claimed /\ Whole /\ [Next]_vars => (StackInv /\ Claimed /\ Whole)'
  BY NextStackInv, ClaimedStep, WholeStep, Zenon
<1>4. QED
  BY <1>1, <1>2, <1>3, PTL DEF Spec

=============================================================================
