---------------------------- MODULE StreamPools -----------------------------
(***************************************************************************)
(* runtime/stream_pool_registry.c and runtime/buffer_pool.c as client and  *)
(* server use them for what they receive (stream_recv_pools, under         *)
(* stream_pools_lock): pools of buffers by size, created when a size is    *)
(* first asked for, beside the pool of buffers for packets (recv_pool).  A *)
(* released buffer carries no size: its pool is found by comparing         *)
(* addresses.                                                              *)
(*                                                                         *)
(* An address is a number and malloc takes any room that is free.  Which   *)
(* of its free buffers a pool hands out does not matter (LockFreeStack     *)
(* models the stack).  The growth of the entry array is left out; that it  *)
(* may fail is one way for get_or_create to fail.                          *)
(***************************************************************************)
EXTENDS Integers, Sequences, FiniteSets

CONSTANTS Request,      \* the sizes callers ask for, 0: no size given
          Fallback,     \* stream_buffer_size
          DefaultSize,  \* GRACHT_DEFAULT_MESSAGE_SIZE
          Alignment,    \* GRACHT_STREAM_BUFFER_ALIGNMENT
          BufferCount,  \* stream_buffer_count
          RecvSize,     \* the size of the buffers of recv_pool
          LastAddress,  \* bound: the memory malloc has
          MaxHeld       \* bound: buffers in use at the same time

ASSUME PoolsAssumption ==
    /\ Request \subseteq Nat /\ Fallback \in Nat
    /\ {DefaultSize, Alignment, BufferCount, RecvSize} \subseteq Nat \ {0}
    /\ {LastAddress, MaxHeld} \subseteq Nat

VARIABLES
    entries,    \* registry->entries: the pools in the order they were created
    recv_pool,  \* the pool beside the registry
    held        \* buffers in use: where they are and the size wanted

vars == <<entries, recv_pool, held>>

Address == 1 .. LastAddress
\* The buffers of a pool of the given size at an address.
BuffersAt(storage, size) == {storage + i * size : i \in 0 .. BufferCount - 1}

gracht_buffer_pool_create(storage, size) ==
    [size |-> size, storage |-> storage, free |-> BuffersAt(storage, size)]

Block(pool) == pool.storage .. pool.storage + pool.size * BufferCount - 1

\* The size asked for, or else the fallback.
Wanted(request) ==
    IF request # 0 THEN request ELSE IF Fallback # 0 THEN Fallback ELSE DefaultSize

\* Where malloc may put a pool of the given size.
Room(size) ==
    {a \in Address :
        LET block == a .. a + size * BufferCount - 1 IN
        /\ block \subseteq Address
        /\ block \cap Block(recv_pool) = {}
        /\ \A i \in DOMAIN entries : block \cap Block(entries[i]) = {}}

Init ==
    /\ entries = <<>>
    /\ \E a \in {1, 2} : recv_pool = gracht_buffer_pool_create(a, RecvSize)
    /\ held = {}

----------------------------------------------------------------------------
(* Mutated forms                                                           *)

\* The end of the storage counts as part of it.
owns_end(pool, b) == b >= pool.storage /\ b <= pool.storage + pool.size * BufferCount

\* The size is rounded down.
normalize_down(request) == (Wanted(request) \div Alignment) * Alignment

----------------------------------------------------------------------------
(* Operations                                                              *)

gracht_buffer_pool_owns(pool, b) ==
    b >= pool.storage /\ b < pool.storage + pool.size * BufferCount

\* The size wanted, rounded up to the alignment.
gracht_stream_normalize_buffer_size(request) ==
    ((Wanted(request) + Alignment - 1) \div Alignment) * Alignment

PoolsOf(size) == {i \in DOMAIN entries : entries[i].size = size}

\* gracht_stream_pool_registry_get_or_create finds a pool, and the caller takes a buffer.
AcquireFound(request) ==
    \E i \in PoolsOf(gracht_stream_normalize_buffer_size(request)) :
        \E b \in entries[i].free :
            /\ entries' = [entries EXCEPT ![i].free = @ \ {b}]
            /\ held' = held \cup {[at |-> b, size |-> Wanted(request)]}
            /\ UNCHANGED recv_pool

\* gracht_stream_pool_registry_get_or_create creates the pool first.
AcquireCreated(request) ==
    LET size == gracht_stream_normalize_buffer_size(request) IN
    /\ PoolsOf(size) = {}
    /\ \E a \in Room(size) : LET pool == gracht_buffer_pool_create(a, size) IN
          \E b \in pool.free :
              /\ entries' = Append(entries, [pool EXCEPT !.free = @ \ {b}])
              /\ held' = held \cup {[at |-> b, size |-> Wanted(request)]}
              /\ UNCHANGED recv_pool

\* A buffer of recv_pool for a packet, which may fill all of it.
gracht_buffer_pool_acquire ==
    \E b \in recv_pool.free :
        /\ recv_pool' = [recv_pool EXCEPT !.free = @ \ {b}]
        /\ held' = held \cup {[at |-> b, size |-> RecvSize]}
        /\ UNCHANGED entries

\* gracht_stream_pool_registry_release: the first pool that owns the address takes the
\* buffer back, and otherwise the caller gives it to recv_pool.
gracht_stream_pool_registry_release(b) ==
    LET owners == {i \in DOMAIN entries : gracht_buffer_pool_owns(entries[i], b.at)} IN
    /\ held' = held \ {b}
    /\ \/ /\ owners # {}
          /\ LET i == CHOOSE i \in owners : \A j \in owners : i <= j IN
             entries' = [entries EXCEPT ![i].free = @ \cup {b.at}]
          /\ UNCHANGED recv_pool
       \/ /\ owners = {}
          /\ recv_pool' = [recv_pool EXCEPT !.free = @ \cup {b.at}]
          /\ UNCHANGED entries

\* Without room, or without a free buffer, nothing changes and the caller gets NULL.
Next ==
    \/ /\ Cardinality(held) < MaxHeld
       /\ \/ \E request \in Request : AcquireFound(request) \/ AcquireCreated(request)
          \/ gracht_buffer_pool_acquire
    \/ \E b \in held : gracht_stream_pool_registry_release(b)

Spec == Init /\ [][Next]_vars

----------------------------------------------------------------------------
(* Properties                                                              *)

Pools == {entries[i] : i \in DOMAIN entries} \cup {recv_pool}

\* Buffers in use do not overlap, neither each other nor a free buffer, over the whole
\* length their users asked for: however the pools lie in memory, a buffer was cut large
\* enough and went back to the pool it came from.
NoOverlap ==
    \A b \in held :
        LET used == b.at .. b.at + b.size - 1 IN
        /\ \A c \in held \ {b} : used \cap (c.at .. c.at + c.size - 1) = {} /\ b.at # c.at
        /\ \A pool \in Pools : \A f \in pool.free : used \cap (f .. f + pool.size - 1) = {}

\* No buffer is lost and none is filed with another pool: each pool's buffers are the
\* ones it was created with, free or in use.
AtHome ==
    \A pool \in Pools :
        /\ pool.free \subseteq BuffersAt(pool.storage, pool.size)
        /\ BuffersAt(pool.storage, pool.size) \subseteq pool.free \cup {b.at : b \in held}
=============================================================================
