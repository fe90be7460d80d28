---------------------------- MODULE LockFreeStack ----------------------------
(***************************************************************************)
(* runtime/stack.c, the lockless stack under every buffer pool             *)
(* (runtime/buffer_pool.c) and under the server's stack of send buffers,   *)
(* together with the two ways the library uses it:                         *)
(*                                                                         *)
(*  - a pool: all buffers are pushed when the pool is created, and         *)
(*    gracht_buffer_pool_acquire fails when the stack is empty;            *)
(*  - gracht_server_get_buffer: the stack starts empty and a new buffer is *)
(*    allocated when there is none to pop.                                 *)
(*                                                                         *)
(* Every atomic operation of the code and every access to a slot is a      *)
(* step; the copy of the array in stack_resize is one.  A usage says       *)
(* whether the callers hold one lock around every operation, as the users  *)
(* of the stream pools do (stream_pools_lock).  buffer_stack is used       *)
(* without one; recv_pool is released to under that lock, but acquired     *)
(* from without it.                                                        *)
(***************************************************************************)
EXTENDS Integers, Sequences, FiniteSets

CONSTANTS Thread,
          Buffer,      \* the buffers of the pool, or those that can be allocated
          Garbage,     \* what uninitialised memory holds
          Usage        \* ways to use a stack, of which a behaviour follows one

ASSUME LockFreeStackAssumption ==
    /\ IsFiniteSet(Buffer) /\ Garbage \notin Buffer
    /\ \A u \in Usage :
          /\ u.acquirer \subseteq Thread      \* threads that pop
          /\ u.releaser \subseteq Thread      \* threads that push what was popped
          /\ u.initialCount \in Nat \ {0}     \* stack_construct's initialCount
          /\ u.prefilled \in BOOLEAN          \* a pool, or allocation on demand
          /\ u.serialised \in BOOLEAN         \* one operation at a time
          /\ u.prefilled => Cardinality(Buffer) = u.initialCount

Value == Buffer \cup {Garbage}

VARIABLES
    arrays,    \* every element array allocated so far; a replaced one is never freed
    elements,  \* stack->elements: the current one of them
    index,     \* stack->index
    count,     \* stack->count
    op,        \* per thread, the operation in progress and its locals
    out,       \* how many holders each value has outside the stack
    fresh,     \* buffers not allocated yet
    usage,     \* how the stack is used
    lost       \* buffers dropped by a push that could not grow the stack

vars == <<arrays, elements, index, count, op, out, fresh, usage, lost>>

Idle == [pc |-> "idle"]
PushPc == {"fetch_add", "test", "resize", "cas", "count", "load", "store"}
PopPc == {"pop", "pop_cas", "pop_load", "pop_read"}

\* The type invariant.
TypeOK ==
    /\ \A a \in DOMAIN arrays : \A i \in DOMAIN arrays[a] : i \in Nat /\ arrays[a][i] \in Value
    /\ elements \in DOMAIN arrays
    /\ index \in Nat
    /\ count \in Nat
    /\ DOMAIN op = Thread
    /\ \A t \in Thread : op[t].pc \in PushPc \cup PopPc \cup {"idle"}
    /\ out \in [Value -> Nat]
    /\ fresh \subseteq Buffer /\ lost \subseteq Buffer

\* malloc: an array whose slots hold whatever the memory held.
Malloc(n) == [i \in 0 .. n - 1 |-> Garbage]

Read(a, i) == IF i \in DOMAIN arrays[a] THEN arrays[a][i] ELSE Garbage

\* stack_construct, and for a pool the pushes of gracht_buffer_pool_create_internal.
Init ==
    /\ elements = 1
    /\ usage \in Usage
    /\ count = usage.initialCount
    /\ op = [t \in Thread |-> Idle]
    /\ out = [v \in Value |-> 0]
    /\ lost = {}
    /\ IF usage.prefilled
       THEN /\ index = count
            /\ fresh = {}
            /\ \E f \in [0 .. count - 1 -> Buffer] :
                  /\ {f[i] : i \in DOMAIN f} = Buffer
                  /\ arrays = <<f>>
       ELSE /\ index = 0
            /\ fresh = Buffer
            /\ arrays = <<Malloc(count)>>

At(t, pc) == op[t].pc = pc
Goto(t, o) == op' = [op EXCEPT ![t] = o]

\* The caller may start an operation: always, unless a lock is held around them.
MayStart(t) == op[t] = Idle /\ (usage.serialised => \A u \in Thread : op[u] = Idle)

----------------------------------------------------------------------------
(* Mutated forms of the operations below.                                  *)

\* stack_pop looks at the top without taking it.
pop_no_decrement(t) ==
    /\ At(t, "pop_cas")
    /\ Goto(t, [pc |-> "pop_load", index |-> op[t].index])
    /\ UNCHANGED <<arrays, elements, index, count, out, fresh, lost, usage>>

\* stack_resize does not copy the old slots.
resize_no_copy(t) ==
    /\ At(t, "resize")
    /\ Goto(t, [op[t] EXCEPT !.pc = "cas", !.original = elements,
                                       !.resized = Malloc(op[t].size)])
    /\ UNCHANGED <<arrays, elements, index, count, out, fresh, lost, usage>>

----------------------------------------------------------------------------
(* stack_push                                                              *)

\* gracht_buffer_pool_release and __release_send_buffer: a buffer that is out is pushed.
stack_push(t, b) ==
    /\ t \in usage.releaser /\ MayStart(t)
    /\ out[b] > 0
    /\ out' = [out EXCEPT ![b] = @ - 1]
    /\ op' = [op EXCEPT ![t] = [pc |-> "fetch_add", pointer |-> b]]
    /\ UNCHANGED <<arrays, elements, index, count, fresh, lost, usage>>

\* atomic_fetch_add(&stack->index, 1)
FetchAdd(t) ==
    /\ At(t, "fetch_add")
    /\ Goto(t, [pc |-> "test", pointer |-> op[t].pointer, index |-> index])
    /\ index' = index + 1
    /\ UNCHANGED <<arrays, elements, count, out, fresh, lost, usage>>

\* if (index >= stack->count) stack_resize(stack, stack->count * 2)
TestCount(t) ==
    /\ At(t, "test")
    /\ IF op[t].index >= count
       THEN Goto(t, [pc |-> "resize", pointer |-> op[t].pointer, size |-> 2 * count,
                             original |-> 0, resized |-> <<>>])
       ELSE Goto(t, [op[t] EXCEPT !.pc = "load"])
    /\ UNCHANGED <<arrays, elements, index, count, out, fresh, lost, usage>>

\* stack_resize: load elements, malloc, memcpy of stack->count elements.
ResizeCopy(t) ==
    /\ At(t, "resize")
    /\ Goto(t, [op[t] EXCEPT !.pc = "cas", !.original = elements,
                !.resized = [i \in 0 .. op[t].size - 1 |->
                                IF i < count THEN Read(elements, i) ELSE Garbage]])
    /\ UNCHANGED <<arrays, elements, index, count, out, fresh, lost, usage>>

\* stack_resize fails to allocate: stack_push returns and the buffer is gone.
ResizeNoMemory(t) ==
    /\ At(t, "resize")
    /\ Goto(t, Idle)
    /\ lost' = lost \cup {op[t].pointer}
    /\ UNCHANGED <<arrays, elements, index, count, out, fresh, usage>>

\* The compare-and-exchange of stack->elements; when another thread was first,
\* the copy is freed and the push starts again.
ResizeExchange(t) ==
    /\ At(t, "cas")
    /\ IF elements = op[t].original
       THEN /\ arrays' = Append(arrays, op[t].resized)
            /\ elements' = Len(arrays) + 1
            /\ Goto(t, [op[t] EXCEPT !.pc = "count"])
       ELSE /\ UNCHANGED <<arrays, elements>>
            /\ Goto(t, [pc |-> "fetch_add", pointer |-> op[t].pointer])
    /\ UNCHANGED <<index, count, out, fresh, lost, usage>>

\* stack->count = newSize, and goto perform_push: another fetch_add.
ResizeCount(t) ==
    /\ At(t, "count")
    /\ Goto(t, [pc |-> "fetch_add", pointer |-> op[t].pointer])
    /\ count' = op[t].size
    /\ UNCHANGED <<arrays, elements, index, out, fresh, lost, usage>>

\* atomic_load(&stack->elements) for the store.
LoadForStore(t) ==
    /\ At(t, "load")
    /\ Goto(t, [pc |-> "store", pointer |-> op[t].pointer, index |-> op[t].index,
                        array |-> elements])
    /\ UNCHANGED <<arrays, elements, index, count, out, fresh, lost, usage>>

\* elements[index] = pointer
Store(t) ==
    /\ At(t, "store")
    /\ Goto(t, Idle)
    /\ arrays' = [arrays EXCEPT ![op[t].array][op[t].index] = op[t].pointer]
    /\ UNCHANGED <<elements, index, count, out, fresh, lost, usage>>

----------------------------------------------------------------------------
(* stack_pop                                                               *)

\* gracht_buffer_pool_acquire and gracht_server_get_buffer start a pop.
stack_pop(t) ==
    /\ t \in usage.acquirer /\ MayStart(t)
    /\ op' = [op EXCEPT ![t] = [pc |-> "pop"]]
    /\ UNCHANGED <<arrays, elements, index, count, out, fresh, lost, usage>>

\* atomic_load(&stack->index); on 0 the pool is exhausted, or a buffer is allocated.
LoadIndex(t) ==
    /\ At(t, "pop")
    /\ IF index > 0
       THEN /\ Goto(t, [pc |-> "pop_cas", index |-> index])
            /\ UNCHANGED <<out, fresh>>
       ELSE /\ Goto(t, Idle)
            /\ IF fresh = {}
               THEN UNCHANGED <<out, fresh>>
               ELSE \E b \in fresh : /\ fresh' = fresh \ {b}
                                     /\ out' = [out EXCEPT ![b] = @ + 1]
    /\ UNCHANGED <<arrays, elements, index, count, lost, usage>>

\* The compare-and-exchange of index; a failure starts the pop again.
PopExchange(t) ==
    /\ At(t, "pop_cas")
    /\ IF index = op[t].index
       THEN /\ Goto(t, [pc |-> "pop_load", index |-> index])
            /\ index' = index - 1
       ELSE /\ Goto(t, [pc |-> "pop"])
            /\ UNCHANGED index
    /\ UNCHANGED <<arrays, elements, count, out, fresh, lost, usage>>

\* atomic_load(&stack->elements) for the read.
LoadForRead(t) ==
    /\ At(t, "pop_load")
    /\ Goto(t, [pc |-> "pop_read", index |-> op[t].index, array |-> elements])
    /\ UNCHANGED <<arrays, elements, index, count, out, fresh, lost, usage>>

\* return elements[index - 1]
PopRead(t) ==
    LET v == Read(op[t].array, op[t].index - 1) IN
    /\ At(t, "pop_read")
    /\ Goto(t, Idle)
    /\ out' = [out EXCEPT ![v] = @ + 1]
    /\ UNCHANGED <<arrays, elements, index, count, fresh, lost, usage>>

----------------------------------------------------------------------------
Grow(t) ==
    \/ ResizeCopy(t) \/ ResizeNoMemory(t) \/ ResizeExchange(t) \/ ResizeCount(t)

Next ==
    \E t \in Thread :
        \/ \E b \in Buffer : stack_push(t, b)
        \/ FetchAdd(t) \/ TestCount(t) \/ LoadForStore(t) \/ Store(t)
        \/ Grow(t)
        \/ stack_pop(t) \/ LoadIndex(t) \/ PopExchange(t) \/ LoadForRead(t) \/ PopRead(t)

Spec == Init /\ [][Next]_vars

----------------------------------------------------------------------------
(* Properties                                                              *)

\* stack_pop never returns a slot nobody stored to: what the callers get is a buffer.
SafeBuffer == out[Garbage] = 0

\* What gracht_buffer_pool_acquire or gracht_server_get_buffer hands out has no other
\* holder: stack_pop never returns a buffer twice without a push between.  From a
\* pool, whose stack never grows, nothing but buffers comes out.
SingleHolder ==
    /\ \A b \in Buffer : out[b] <= 1
    /\ usage.prefilled => SafeBuffer

\* Between operations every allocated buffer is in exactly one place: held, in exactly
\* one slot below the index, or dropped by a push that found no memory.  A pool with a
\* buffer that nobody holds therefore never reports that it is exhausted.
Conserved ==
    (\A t \in Thread : op[t] = Idle) =>
        \A b \in Buffer \ fresh :
            LET slots == {i \in 0 .. index - 1 : Read(elements, i) = b} IN
            out[b] + Cardinality(slots) + (IF b \in lost THEN 1 ELSE 0) = 1

=============================================================================
