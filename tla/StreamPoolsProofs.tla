------------------------- MODULE StreamPoolsProofs --------------------------
(***************************************************************************)
(* Proofs about StreamPools, for all sizes, alignments and pool lengths    *)
(* and any placement of the pools in memory: buffers in use never overlap, *)
(* and a released buffer goes back to the pool it was taken from.          *)
(*                                                                         *)
(* The address of a buffer is all that gracht_stream_pool_registry_release *)
(* has.  It determines the pool because every buffer in use lies in the    *)
(* block of some pool, was handed out by it, and blocks do not meet; so    *)
(* the buffer is missing from that pool and from no other one.  The        *)
(* invariant says this of all pools at once, recv_pool being number 0.     *)
(***************************************************************************)
EXTENDS StreamPools, TLAPS

Pool == [size : Nat \ {0}, storage : Nat, free : SUBSET Nat]
Use == [at : Nat, size : Nat \ {0}]

\* The pools, recv_pool first.
last == Len(entries)
pools == [i \in 0 .. last |-> IF i = 0 THEN recv_pool ELSE entries[i]]

\* The buffers a pool was cut into.
Cut(pool) == BuffersAt(pool.storage, pool.size)

\* A buffer in use was handed out by the pool and is large enough.
From(pool, b) == b.at \in Cut(pool) /\ b.at \notin pool.free /\ b.size <= pool.size

\* Pools 0 to n and the buffers in use.
Good(n, ps, h) ==
    /\ ps \in [0 .. n -> Pool] /\ h \subseteq Use
    /\ \A i, j \in 0 .. n : i # j => Block(ps[i]) \cap Block(ps[j]) = {}
    /\ \A i \in 0 .. n : ps[i].free \subseteq Cut(ps[i])
    /\ \A b, c \in h : b.at = c.at => b = c
    /\ \A b \in h : \E i \in 0 .. n : From(ps[i], b)
    /\ \A i \in 0 .. n : \A x \in Cut(ps[i]) : x \in ps[i].free \/ \E b \in h : b.at = x

PoolsInv ==
    /\ entries \in Seq(Pool) /\ recv_pool.size = RecvSize
    /\ Good(last, pools, held)

-----------------------------------------------------------------------------
\* Addresses.

\* The next buffer begins where a buffer ends, or later.
LEMMA Multiples ==
    ASSUME NEW i \in Nat, NEW j \in Nat, NEW z \in Nat \ {0}, i < j
    PROVE  i * z + z <= j * z /\ i * z \in Nat /\ j * z \in Nat
<1> DEFINE d == j - (i + 1)
<1>1. d \in Nat /\ j = i + (1 + d)
  OBVIOUS
<1> HIDE DEF d
<1>2. j * z = i * z + (z + d * z)
  BY <1>1
<1>3. i * z \in Nat /\ d * z \in Nat
  BY <1>1
<1>4. QED
  BY <1>2, <1>3

\* A buffer lies in the block of its pool, and gracht_buffer_pool_owns says so.
LEMMA InBlock ==
    ASSUME NEW pool \in Pool, NEW x \in Cut(pool)
    PROVE  /\ x \in Nat /\ x .. x + pool.size - 1 \subseteq Block(pool)
           /\ x \in Block(pool)
<1>1. pool.size \in Nat \ {0} /\ pool.storage \in Nat /\ BufferCount \in Nat \ {0}
  BY PoolsAssumption DEF Pool
<1>2. PICK i \in 0 .. BufferCount - 1 : x = pool.storage + i * pool.size
  BY DEF Cut, BuffersAt
<1>3. /\ i * pool.size + pool.size <= BufferCount * pool.size /\ i * pool.size \in Nat
      /\ BufferCount * pool.size \in Nat
  <2>1. i \in Nat /\ BufferCount \in Nat /\ i < BufferCount
    BY <1>1
  <2>2. QED
    BY <1>1, <2>1, Multiples
<1>4. pool.size * BufferCount = BufferCount * pool.size
  BY <1>1
<1>5. QED
  BY <1>1, <1>2, <1>3, <1>4 DEF Block

\* Two buffers of a pool do not meet.
LEMMA Apart ==
    ASSUME NEW pool \in Pool, NEW x \in Cut(pool), NEW y \in Cut(pool), x # y
    PROVE  (x .. x + pool.size - 1) \cap (y .. y + pool.size - 1) = {}
<1>1. pool.size \in Nat \ {0} /\ pool.storage \in Nat /\ BufferCount \in Nat \ {0}
  BY PoolsAssumption DEF Pool
<1>2. PICK i \in 0 .. BufferCount - 1 : x = pool.storage + i * pool.size
  BY DEF Cut, BuffersAt
<1>3. PICK j \in 0 .. BufferCount - 1 : y = pool.storage + j * pool.size
  BY DEF Cut, BuffersAt
<1>4. i \in Nat /\ j \in Nat /\ i # j
  BY <1>1, <1>2, <1>3
<1>5. CASE i < j
  <2>1. i * pool.size + pool.size <= j * pool.size /\ i * pool.size \in Nat /\ j * pool.size \in Nat
    BY <1>1, <1>4, <1>5, Multiples
  <2>2. QED
    BY <2>1, <1>1, <1>2, <1>3
<1>6. CASE j < i
  <2>1. j * pool.size + pool.size <= i * pool.size /\ i * pool.size \in Nat /\ j * pool.size \in Nat
    BY <1>1, <1>4, <1>6, Multiples
  <2>2. QED
    BY <2>1, <1>1, <1>2, <1>3
<1>7. QED
  BY <1>4, <1>5, <1>6

\* gracht_stream_normalize_buffer_size does not round down.
LEMMA LargeEnough ==
    ASSUME NEW request \in Request
    PROVE  /\ Wanted(request) \in Nat \ {0}
           /\ gracht_stream_normalize_buffer_size(request) \in Nat
           /\ Wanted(request) <= gracht_stream_normalize_buffer_size(request)
<1> DEFINE w == Wanted(request)
           a == Alignment
           d == (w + a - 1) \div a
<1>1. w \in Nat \ {0} /\ a \in Nat \ {0}
  BY PoolsAssumption DEF Wanted
<1> HIDE DEF w, a
<1>2. ASSUME NEW k \in Nat PROVE k \div a \in Nat /\ k < a * (k \div a) + a
  BY <1>1
<1>3. w + a - 1 \in Nat
  BY <1>1
<1>4. d \in Nat /\ w + a - 1 < a * d + a
  BY <1>2, <1>3
<1> HIDE DEF d
<1>5. d * a = a * d /\ a * d \in Nat
  BY <1>1, <1>4
<1>6. d * a \in Nat /\ w <= d * a
  BY <1>1, <1>4, <1>5
<1>7. QED
  BY <1>1, <1>6 DEF gracht_stream_normalize_buffer_size, w, a, d

-----------------------------------------------------------------------------
\* What the operations do to the pools and to the buffers in use.

\* The pools, with other free buffers in pool k.
WithFree(ps, k, f) == [ps EXCEPT ![k] = [ps[k] EXCEPT !.free = f]]

\* The free buffers of one pool change, and nothing else of it.
LEMMA OnePool ==
    ASSUME NEW n \in Nat, NEW ps \in [0 .. n -> Pool], NEW k \in 0 .. n, NEW f \in SUBSET Nat
    PROVE  LET qs == WithFree(ps, k, f) IN
           /\ qs \in [0 .. n -> Pool]
           /\ \A i \in 0 .. n : /\ qs[i].size = ps[i].size /\ qs[i].storage = ps[i].storage
                                /\ Cut(qs[i]) = Cut(ps[i]) /\ Block(qs[i]) = Block(ps[i])
           /\ qs[k].free = f /\ \A i \in 0 .. n : i # k => qs[i] = ps[i]
<1> DEFINE qs == [ps EXCEPT ![k] = [ps[k] EXCEPT !.free = f]]
<1>1. ps[k] \in Pool
  OBVIOUS
<1>2. /\ [ps[k] EXCEPT !.free = f] \in Pool
      /\ [ps[k] EXCEPT !.free = f].size = ps[k].size
      /\ [ps[k] EXCEPT !.free = f].storage = ps[k].storage
      /\ [ps[k] EXCEPT !.free = f].free = f
  BY <1>1 DEF Pool
<1>3. qs \in [0 .. n -> Pool] /\ qs[k] = [ps[k] EXCEPT !.free = f]
  BY <1>2
<1>4. \A i \in 0 .. n : i # k => qs[i] = ps[i]
  OBVIOUS
<1>5. \A i \in 0 .. n : qs[i].size = ps[i].size /\ qs[i].storage = ps[i].storage
  BY <1>2, <1>3, <1>4
<1>6. QED
  BY <1>2, <1>3, <1>4, <1>5 DEF Cut, Block, WithFree

\* A buffer in use, or free, belongs to one pool only.
LEMMA OneHome ==
    ASSUME NEW n \in Nat, NEW ps, NEW h, Good(n, ps, h), NEW i \in 0 .. n, NEW j \in 0 .. n,
           NEW x \in Cut(ps[i]), x \in Block(ps[j])
    PROVE  i = j
<1>1. ps[i] \in Pool /\ (i # j => Block(ps[i]) \cap Block(ps[j]) = {})
  BY DEF Good
<1>2. x \in Block(ps[i])
  BY <1>1, InBlock
<1>3. QED
  BY <1>1, <1>2

\* gracht_buffer_pool_acquire: a free buffer of a pool comes into use.
LEMMA Acquired ==
    ASSUME NEW n \in Nat, NEW ps, NEW h, Good(n, ps, h),
           NEW k \in 0 .. n, NEW x \in ps[k].free, NEW z \in Nat \ {0}, z <= ps[k].size
    PROVE  Good(n, WithFree(ps, k, ps[k].free \ {x}), h \cup {[at |-> x, size |-> z]})
<1> DEFINE f == ps[k].free \ {x}
           qs == WithFree(ps, k, f)
           u == [at |-> x, size |-> z]
           g == h \cup {u}
<1>1. ps \in [0 .. n -> Pool] /\ h \subseteq Use
  BY DEF Good
<1>2. ps[k] \in Pool /\ ps[k].free \subseteq Cut(ps[k]) /\ x \in Cut(ps[k]) /\ x \in Nat
  BY <1>1 DEF Good, Pool
<1>3. f \in SUBSET Nat /\ x \notin f /\ f \subseteq ps[k].free
  BY <1>2 DEF Pool
<1>4. u \in Use /\ u.at = x /\ u.size = z
  BY <1>2 DEF Use
<1> HIDE DEF f, u
<1>5. /\ qs \in [0 .. n -> Pool]
      /\ \A i \in 0 .. n : /\ qs[i].size = ps[i].size /\ qs[i].storage = ps[i].storage
                           /\ Cut(qs[i]) = Cut(ps[i]) /\ Block(qs[i]) = Block(ps[i])
      /\ qs[k].free = f /\ \A i \in 0 .. n : i # k => qs[i] = ps[i]
  BY <1>1, <1>3, OnePool
<1> HIDE DEF qs
<1>6. \A i \in 0 .. n : qs[i].free \subseteq ps[i].free
  BY <1>3, <1>5
<1>7. \A b \in h : b.at # x
  <2> SUFFICES ASSUME NEW b \in h, b.at = x PROVE FALSE
    OBVIOUS
  <2>1. PICK i \in 0 .. n : From(ps[i], b)
    BY DEF Good
  <2>2. b.at \in Cut(ps[i]) /\ b.at \in Block(ps[k])
    BY <1>2, <2>1, InBlock DEF From
  <2>3. i = k
    BY <2>2, OneHome
  <2>4. QED
    BY <2>1, <2>3 DEF From
<1>8. g \subseteq Use /\ \A b, c \in g : b.at = c.at => b = c
  <2>1. g \subseteq Use
    BY <1>1, <1>4
  <2>2. \A b, c \in h : b.at = c.at => b = c
    BY DEF Good
  <2>3. QED
    BY <2>1, <2>2, <1>4, <1>7
<1>9. \A i, j \in 0 .. n : i # j => Block(qs[i]) \cap Block(qs[j]) = {}
  BY <1>5 DEF Good
<1>10. \A i \in 0 .. n : qs[i].free \subseteq Cut(qs[i])
  <2>1. \A i \in 0 .. n : ps[i].free \subseteq Cut(ps[i])
    BY DEF Good
  <2>2. QED
    BY <2>1, <1>5, <1>6
<1>11. \A b \in g : \E i \in 0 .. n : From(qs[i], b)
  <2>1. ASSUME NEW b \in h PROVE \E i \in 0 .. n : From(qs[i], b)
    <3>1. PICK i \in 0 .. n : From(ps[i], b)
      BY DEF Good
    <3>2. From(qs[i], b)
      BY <3>1, <1>5, <1>6 DEF From
    <3>3. QED
      BY <3>2
  <2>2. From(qs[k], u)
    BY <1>2, <1>3, <1>4, <1>5 DEF From
  <2>3. QED
    BY <2>1, <2>2
<1>12. ASSUME NEW i \in 0 .. n, NEW y \in Cut(qs[i]), y \notin qs[i].free
       PROVE  \E b \in g : b.at = y
  <2>1. y \in Cut(ps[i])
    BY <1>5
  <2>2. CASE y \in ps[i].free
    <3>1. i = k /\ y = x
      BY <1>5, <1>12, <2>2 DEF f
    <3>2. QED
      BY <3>1, <1>4
  <2>3. CASE y \notin ps[i].free
    BY <2>1, <2>3 DEF Good
  <2>4. QED
    BY <2>2, <2>3
<1>13. Good(n, qs, g)
  BY <1>5, <1>8, <1>9, <1>10, <1>11, <1>12 DEF Good
<1>14. QED
  BY <1>13 DEF qs, f, g, u

\* gracht_buffer_pool_release to the pool in whose block the buffer lies.
LEMMA Released ==
    ASSUME NEW n \in Nat, NEW ps, NEW h, Good(n, ps, h),
           NEW k \in 0 .. n, NEW u \in h, u.at \in Block(ps[k])
    PROVE  Good(n, WithFree(ps, k, ps[k].free \cup {u.at}), h \ {u})
<1> DEFINE f == ps[k].free \cup {u.at}
           qs == WithFree(ps, k, f)
           g == h \ {u}
<1>1. ps \in [0 .. n -> Pool] /\ h \subseteq Use /\ ps[k] \in Pool
  BY DEF Good
<1>2. From(ps[k], u)
  <2>1. PICK i \in 0 .. n : From(ps[i], u)
    BY DEF Good
  <2>2. i = k
    BY <2>1, OneHome DEF From
  <2>3. QED
    BY <2>1, <2>2
<1>3. f \in SUBSET Nat
  BY <1>1 DEF Pool, Use
<1> HIDE DEF f
<1>4. /\ qs \in [0 .. n -> Pool]
      /\ \A i \in 0 .. n : /\ qs[i].size = ps[i].size /\ qs[i].storage = ps[i].storage
                           /\ Cut(qs[i]) = Cut(ps[i]) /\ Block(qs[i]) = Block(ps[i])
      /\ qs[k].free = f /\ \A i \in 0 .. n : i # k => qs[i] = ps[i]
  BY <1>1, <1>3, OnePool
<1> HIDE DEF qs
<1>5. \A i, j \in 0 .. n : i # j => Block(qs[i]) \cap Block(qs[j]) = {}
  BY <1>4 DEF Good
<1>6. \A i \in 0 .. n : qs[i].free \subseteq Cut(qs[i])
  <2>1. \A i \in 0 .. n : ps[i].free \subseteq Cut(ps[i])
    BY DEF Good
  <2>2. QED
    BY <2>1, <1>2, <1>4 DEF f, From
<1>7. g \subseteq Use /\ (\A b, c \in g : b.at = c.at => b = c) /\ \A b \in g : b.at # u.at
  BY <1>1 DEF Good
<1>8. ASSUME NEW b \in g PROVE \E i \in 0 .. n : From(qs[i], b)
  <2>1. PICK i \in 0 .. n : From(ps[i], b)
    BY DEF Good
  <2>2. b.at \notin qs[i].free
    BY <2>1, <1>4, <1>7 DEF f, From
  <2>3. From(qs[i], b)
    BY <2>1, <2>2, <1>4 DEF From
  <2>4. QED
    BY <2>3
<1>9. ASSUME NEW i \in 0 .. n, NEW y \in Cut(qs[i]), y \notin qs[i].free
      PROVE  \E b \in g : b.at = y
  <2>1. y \in Cut(ps[i]) /\ y \notin ps[i].free
    BY <1>4, <1>9 DEF f
  <2>2. PICK b \in h : b.at = y
    BY <2>1 DEF Good
  <2>3. b # u
    <3>1. SUFFICES ASSUME b = u PROVE FALSE
      OBVIOUS
    <3>2. i = k
      BY <2>1, <2>2, <3>1, OneHome
    <3>3. QED
      BY <2>2, <3>1, <3>2, <1>4, <1>9 DEF f
  <2>4. QED
    BY <2>2, <2>3
<1>10. Good(n, qs, g)
  BY <1>4, <1>5, <1>6, <1>7, <1>8, <1>9 DEF Good
<1>11. QED
  BY <1>10 DEF qs, f

\* gracht_buffer_pool_create in memory that no other pool has.
LEMMA Created ==
    ASSUME NEW n \in Nat, NEW ps, NEW h, Good(n, ps, h), NEW pool \in Pool,
           pool.free = Cut(pool), \A i \in 0 .. n : Block(pool) \cap Block(ps[i]) = {},
           NEW qs \in [0 .. n + 1 -> Pool], qs[n + 1] = pool, \A i \in 0 .. n : qs[i] = ps[i]
    PROVE  Good(n + 1, qs, h)
<1>1. \A i \in 0 .. n + 1 : i \in 0 .. n \/ i = n + 1
  OBVIOUS
<1>2. 0 .. n \subseteq 0 .. n + 1 /\ n + 1 \in 0 .. n + 1
  OBVIOUS
<1>3. \A i, j \in 0 .. n + 1 : i # j => Block(qs[i]) \cap Block(qs[j]) = {}
  <2>1. ASSUME NEW i \in 0 .. n + 1, NEW j \in 0 .. n + 1, i # j
        PROVE  Block(qs[i]) \cap Block(qs[j]) = {}
    <3>1. CASE i \in 0 .. n /\ j \in 0 .. n
      BY <2>1, <3>1 DEF Good
    <3>2. CASE i \in 0 .. n /\ j = n + 1
      <4>1. qs[i] = ps[i] /\ qs[j] = pool /\ Block(pool) \cap Block(ps[i]) = {}
        BY <3>2
      <4>2. QED
        BY <4>1
    <3>3. CASE i = n + 1 /\ j \in 0 .. n
      <4>1. qs[j] = ps[j] /\ qs[i] = pool /\ Block(pool) \cap Block(ps[j]) = {}
        BY <3>3
      <4>2. QED
        BY <4>1
    <3>4. QED
      BY <2>1, <3>1, <3>2, <3>3, <1>1
  <2>2. QED
    BY <2>1
<1>4. /\ \A i \in 0 .. n + 1 : qs[i].free \subseteq Cut(qs[i])
      /\ \A i \in 0 .. n + 1 : \A x \in Cut(qs[i]) : x \in qs[i].free \/ \E b \in h : b.at = x
  BY <1>1 DEF Good
<1>5. /\ h \subseteq Use /\ \A b, c \in h : b.at = c.at => b = c
      /\ \A b \in h : \E i \in 0 .. n + 1 : From(qs[i], b)
  <2>1. ASSUME NEW b \in h PROVE \E i \in 0 .. n + 1 : From(qs[i], b)
    <3>1. PICK i \in 0 .. n : From(ps[i], b)
      BY DEF Good
    <3>2. QED
      BY <3>1, <1>2
  <2>2. QED
    BY <2>1 DEF Good
<1>6. QED
  BY <1>3, <1>4, <1>5 DEF Good

-----------------------------------------------------------------------------
\* The steps, for pools and entries as the code has them.

\* The pools by number.
LEMMA Numbers ==
    ASSUME PoolsInv
    PROVE  /\ last \in Nat /\ DOMAIN entries = 1 .. last /\ pools \in [0 .. last -> Pool]
           /\ pools[0] = recv_pool /\ recv_pool \in Pool
           /\ \A i \in 1 .. last : pools[i] = entries[i] /\ i \in 0 .. last
           /\ Pools = {pools[i] : i \in 0 .. last}
<1>1. last \in Nat /\ DOMAIN entries = 1 .. last /\ pools \in [0 .. last -> Pool]
  BY DEF PoolsInv, Good, last
<1>2. pools[0] = recv_pool /\ \A i \in 1 .. last : pools[i] = entries[i] /\ i \in 0 .. last
  BY <1>1 DEF pools
<1>3. recv_pool \in Pool
  BY <1>1, <1>2
<1>4. \A i \in 0 .. last : i = 0 \/ i \in 1 .. last
  BY <1>1
<1>5. QED
  BY <1>1, <1>2, <1>3, <1>4 DEF Pools

\* A step that only changes the free buffers of an entry.
LEMMA EntryChanged ==
    ASSUME PoolsInv, NEW i \in DOMAIN entries, NEW f \in SUBSET Nat, NEW h,
           entries' = [entries EXCEPT ![i].free = f], recv_pool' = recv_pool, held' = h,
           Good(last, WithFree(pools, i, f), h)
    PROVE  PoolsInv'
<1>1. /\ last \in Nat /\ DOMAIN entries = 1 .. last /\ pools \in [0 .. last -> Pool]
      /\ pools[0] = recv_pool /\ \A j \in 1 .. last : pools[j] = entries[j]
  BY Numbers
<1>2. entries \in Seq(Pool) /\ recv_pool.size = RecvSize /\ entries[i] \in Pool
  BY DEF PoolsInv
<1>3. [entries[i] EXCEPT !.free = f] \in Pool
  BY <1>2 DEF Pool
<1>4. entries' \in Seq(Pool) /\ last' = last
  BY <1>2, <1>3 DEF last
<1>5. pools' = WithFree(pools, i, f)
  <2>1. pools' = [j \in 0 .. last |-> IF j = 0 THEN recv_pool ELSE entries'[j]]
    BY <1>4 DEF pools
  <2>2. \A j \in 1 .. last :
            entries'[j] = IF j = i THEN [entries[i] EXCEPT !.free = f] ELSE entries[j]
    BY <1>1
  <2>3. \A j \in 0 .. last : pools'[j] = WithFree(pools, i, f)[j]
    BY <2>1, <2>2, <1>1 DEF WithFree
  <2>4. QED
    BY <2>1, <2>3, <1>1 DEF WithFree
<1>6. QED
  BY <1>2, <1>4, <1>5 DEF PoolsInv

\* A step that only changes the free buffers of recv_pool.
LEMMA RecvPoolChanged ==
    ASSUME PoolsInv, NEW f \in SUBSET Nat, NEW h,
           recv_pool' = [recv_pool EXCEPT !.free = f], entries' = entries, held' = h,
           Good(last, WithFree(pools, 0, f), h)
    PROVE  PoolsInv'
<1>1. /\ last \in Nat /\ DOMAIN entries = 1 .. last /\ pools \in [0 .. last -> Pool]
      /\ pools[0] = recv_pool /\ recv_pool \in Pool /\ \A j \in 1 .. last : pools[j] = entries[j]
  BY Numbers
<1>2. entries' \in Seq(Pool) /\ recv_pool'.size = RecvSize /\ last' = last
  BY <1>1 DEF PoolsInv, last, Pool
<1>3. pools' = WithFree(pools, 0, f)
  <2>1. pools' = [j \in 0 .. last |-> IF j = 0 THEN [recv_pool EXCEPT !.free = f] ELSE entries[j]]
    BY <1>2 DEF pools
  <2>2. \A j \in 0 .. last : pools'[j] = WithFree(pools, 0, f)[j]
    BY <2>1, <1>1 DEF WithFree
  <2>3. QED
    BY <2>1, <2>2, <1>1 DEF WithFree
<1>4. QED
  BY <1>2, <1>3 DEF PoolsInv

\* A pool created by gracht_buffer_pool_create.
LEMMA NewPool ==
    ASSUME NEW a \in Nat, NEW z \in Nat \ {0}
    PROVE  LET pool == gracht_buffer_pool_create(a, z) IN
           /\ pool \in Pool /\ pool.free = Cut(pool) /\ pool.size = z /\ pool.storage = a
           /\ Block(pool) = a .. a + z * BufferCount - 1
<1>1. \A i \in 0 .. BufferCount - 1 : a + i * z \in Nat
  BY PoolsAssumption
<1>2. BuffersAt(a, z) \in SUBSET Nat
  BY <1>1 DEF BuffersAt
<1>3. QED
  BY <1>2 DEF gracht_buffer_pool_create, Pool, Cut, Block

\* gracht_stream_pool_registry_get_or_create with a pool of the size.
LEMMA FoundStep ==
    ASSUME PoolsInv, NEW request \in Request, AcquireFound(request)
    PROVE  PoolsInv'
<1>0. PICK i \in PoolsOf(gracht_stream_normalize_buffer_size(request)) :
          \E b \in entries[i].free :
              /\ entries' = [entries EXCEPT ![i].free = @ \ {b}]
              /\ held' = held \cup {[at |-> b, size |-> Wanted(request)]}
              /\ recv_pool' = recv_pool
  BY DEF AcquireFound
<1>1. PICK b \in entries[i].free :
          /\ entries' = [entries EXCEPT ![i].free = @ \ {b}]
          /\ held' = held \cup {[at |-> b, size |-> Wanted(request)]}
          /\ recv_pool' = recv_pool
  BY <1>0, ZenonT(60)
<1>2. i \in DOMAIN entries /\ entries[i].size = gracht_stream_normalize_buffer_size(request)
  BY DEF PoolsOf
<1>3. i \in 0 .. last /\ pools[i] = entries[i] /\ pools[i] \in Pool /\ last \in Nat
  BY <1>2, Numbers
<1>4. Wanted(request) \in Nat \ {0} /\ Wanted(request) <= pools[i].size
  BY <1>2, <1>3, LargeEnough
<1>5. Good(last, pools, held)
  BY DEF PoolsInv
<1>6. Good(last, WithFree(pools, i, pools[i].free \ {b}),
           held \cup {[at |-> b, size |-> Wanted(request)]})
  BY <1>3, <1>4, <1>5, Acquired
<1>7. entries[i].free \ {b} \in SUBSET Nat
  BY <1>3 DEF Pool
<1>8. QED
  BY <1>1, <1>2, <1>3, <1>6, <1>7, EntryChanged

\* gracht_stream_pool_registry_get_or_create that creates the pool.
LEMMA CreatedStep ==
    ASSUME PoolsInv, NEW request \in Request, AcquireCreated(request)
    PROVE  PoolsInv'
<1> DEFINE z == gracht_stream_normalize_buffer_size(request)
<1>0. PICK a \in Room(z) :
          \E b \in gracht_buffer_pool_create(a, z).free :
              /\ entries' = Append(entries,
                                   [gracht_buffer_pool_create(a, z) EXCEPT !.free = @ \ {b}])
              /\ held' = held \cup {[at |-> b, size |-> Wanted(request)]}
              /\ recv_pool' = recv_pool
  BY DEF AcquireCreated
<1>1. PICK b \in gracht_buffer_pool_create(a, z).free :
          /\ entries' = Append(entries, [gracht_buffer_pool_create(a, z) EXCEPT !.free = @ \ {b}])
          /\ held' = held \cup {[at |-> b, size |-> Wanted(request)]}
          /\ recv_pool' = recv_pool
  BY <1>0, ZenonT(60)
<1>2. Wanted(request) \in Nat \ {0} /\ z \in Nat \ {0} /\ Wanted(request) <= z
  BY LargeEnough
<1> HIDE DEF z
<1>3. /\ a \in Nat /\ (a .. a + z * BufferCount - 1) \cap Block(recv_pool) = {}
      /\ \A i \in DOMAIN entries : (a .. a + z * BufferCount - 1) \cap Block(entries[i]) = {}
  BY PoolsAssumption DEF Room, Address
<1>4. PICK pool : pool = gracht_buffer_pool_create(a, z)
  OBVIOUS
<1>5. /\ pool \in Pool /\ pool.free = Cut(pool) /\ pool.size = z
      /\ Block(pool) = a .. a + z * BufferCount - 1
  BY <1>2, <1>3, <1>4, NewPool
<1>6. /\ last \in Nat /\ DOMAIN entries = 1 .. last /\ pools \in [0 .. last -> Pool]
      /\ pools[0] = recv_pool /\ \A i \in 1 .. last : pools[i] = entries[i]
  BY Numbers
<1>7. \A i \in 0 .. last : Block(pool) \cap Block(pools[i]) = {}
  <2>1. \A i \in 0 .. last : i = 0 \/ i \in 1 .. last
    BY <1>6
  <2>2. QED
    BY <2>1, <1>3, <1>5, <1>6
<1> DEFINE qs == [i \in 0 .. last + 1 |-> IF i = last + 1 THEN pool ELSE pools[i]]
           f == pool.free \ {b}
<1>8. /\ qs \in [0 .. last + 1 -> Pool] /\ qs[last + 1] = pool
      /\ \A i \in 0 .. last : qs[i] = pools[i]
  BY <1>5, <1>6
<1>9. Good(last, pools, held)
  BY DEF PoolsInv
<1> HIDE DEF qs
<1>10. Good(last + 1, qs, held)
  BY <1>5, <1>6, <1>7, <1>8, <1>9, Created, ZenonT(60)
<1>11. Good(last + 1, WithFree(qs, last + 1, f), held \cup {[at |-> b, size |-> Wanted(request)]})
  <2>1. last + 1 \in Nat /\ last + 1 \in 0 .. last + 1 /\ b \in qs[last + 1].free
    BY <1>4, <1>6, <1>8
  <2>2. Wanted(request) <= qs[last + 1].size
    BY <1>2, <1>5, <1>8
  <2>3. Good(last + 1, WithFree(qs, last + 1, qs[last + 1].free \ {b}),
             held \cup {[at |-> b, size |-> Wanted(request)]})
    BY <2>1, <2>2, <1>2, <1>10, Acquired, ZenonT(60)
  <2>4. QED
    BY <2>3, <1>8
<1>12. entries \in Seq(Pool) /\ recv_pool.size = RecvSize
  BY DEF PoolsInv
<1>13. f \in SUBSET Nat /\ [pool EXCEPT !.free = f] \in Pool
  BY <1>5 DEF Pool
<1>14. entries' = Append(entries, [pool EXCEPT !.free = f])
  BY <1>1, <1>4
<1> HIDE DEF f
<1>15. entries' \in Seq(Pool) /\ last' = last + 1
  BY <1>12, <1>13, <1>14 DEF last
<1>16. /\ entries'[last + 1] = [pool EXCEPT !.free = f]
       /\ \A i \in 1 .. last : entries'[i] = entries[i]
  BY <1>12, <1>13, <1>14 DEF last
<1>17. pools' = WithFree(qs, last + 1, f)
  <2>1. pools' = [i \in 0 .. last + 1 |-> IF i = 0 THEN recv_pool ELSE entries'[i]]
    BY <1>1, <1>15 DEF pools
  <2>2. \A i \in 0 .. last + 1 : i = 0 \/ i \in 1 .. last \/ i = last + 1
    BY <1>6
  <2>3. \A i \in 0 .. last + 1 : pools'[i] = WithFree(qs, last + 1, f)[i]
    <3>1. pools'[0] = WithFree(qs, last + 1, f)[0]
      BY <2>1, <1>6, <1>8 DEF WithFree
    <3>2. \A i \in 1 .. last : pools'[i] = WithFree(qs, last + 1, f)[i]
      BY <2>1, <1>6, <1>8, <1>16 DEF WithFree
    <3>3. pools'[last + 1] = WithFree(qs, last + 1, f)[last + 1]
      BY <2>1, <1>6, <1>8, <1>16 DEF WithFree
    <3>4. QED
      BY <2>2, <3>1, <3>2, <3>3
  <2>4. QED
    BY <2>1, <2>3, <1>8, ZenonT(60) DEF WithFree
<1>18. QED
  BY <1>1, <1>11, <1>12, <1>15, <1>17 DEF PoolsInv

\* gracht_buffer_pool_acquire of recv_pool.
LEMMA RecvStep ==
    ASSUME PoolsInv, gracht_buffer_pool_acquire
    PROVE  PoolsInv'
<1>1. PICK b \in recv_pool.free :
          /\ recv_pool' = [recv_pool EXCEPT !.free = @ \ {b}]
          /\ held' = held \cup {[at |-> b, size |-> RecvSize]}
          /\ entries' = entries
  BY DEF gracht_buffer_pool_acquire
<1>2. last \in Nat /\ 0 \in 0 .. last /\ pools[0] = recv_pool /\ recv_pool \in Pool
  BY Numbers
<1>3. recv_pool.size = RecvSize /\ RecvSize \in Nat \ {0} /\ RecvSize <= pools[0].size
  BY <1>2, PoolsAssumption DEF PoolsInv
<1>4. Good(last, WithFree(pools, 0, pools[0].free \ {b}), held \cup {[at |-> b, size |-> RecvSize]})
  BY <1>2, <1>3, Acquired, ZenonT(60) DEF PoolsInv
<1>5. recv_pool.free \ {b} \in SUBSET Nat
  BY <1>2 DEF Pool
<1>6. QED
  BY <1>1, <1>2, <1>4, <1>5, RecvPoolChanged

\* gracht_buffer_pool_owns compares the address with the ends of the block.
LEMMA OwnsBlock ==
    ASSUME NEW pool \in Pool, NEW x \in Nat
    PROVE  gracht_buffer_pool_owns(pool, x) <=> x \in Block(pool)
<1>1. pool.size \in Nat \ {0} /\ pool.storage \in Nat /\ BufferCount \in Nat \ {0}
  BY PoolsAssumption DEF Pool
<1>2. pool.size * BufferCount \in Nat
  BY <1>1
<1>3. QED
  BY <1>1, <1>2 DEF gracht_buffer_pool_owns, Block

\* gracht_stream_pool_registry_release: the pool that takes the buffer gave it out.
LEMMA ReleaseStep ==
    ASSUME PoolsInv, NEW b \in held, gracht_stream_pool_registry_release(b)
    PROVE  PoolsInv'
<1> DEFINE owners == {i \in DOMAIN entries : gracht_buffer_pool_owns(entries[i], b.at)}
<1>1. /\ last \in Nat /\ DOMAIN entries = 1 .. last /\ pools[0] = recv_pool /\ recv_pool \in Pool
      /\ pools \in [0 .. last -> Pool]
      /\ \A i \in 1 .. last : pools[i] = entries[i] /\ i \in 0 .. last
  BY Numbers
<1>2. Good(last, pools, held) /\ b.at \in Nat
  BY DEF PoolsInv, Good, Use
<1>3. PICK k \in 0 .. last : From(pools[k], b)
  BY <1>2 DEF Good
<1>4. b.at \in Cut(pools[k]) /\ pools[k] \in Pool /\ b.at \in Block(pools[k])
  BY <1>1, <1>3, InBlock DEF From
<1>5. \A i \in 1 .. last : i \in owners <=> i = k
  <2>1. ASSUME NEW i \in 1 .. last PROVE i \in owners <=> i = k
    <3>1. entries[i] = pools[i] /\ pools[i] \in Pool /\ i \in 0 .. last
      BY <1>1
    <3>2. i \in owners <=> b.at \in Block(pools[i])
      BY <1>1, <1>2, <3>1, OwnsBlock
    <3>3. b.at \in Block(pools[i]) => i = k
      BY <1>1, <1>2, <1>4, <3>1, OneHome, ZenonT(60)
    <3>4. QED
      BY <1>4, <3>2, <3>3
  <2>2. QED
    BY <2>1
<1>6. Good(last, WithFree(pools, k, pools[k].free \cup {b.at}), held \ {b})
  BY <1>1, <1>2, <1>4, Released
<1>7. pools[k].free \cup {b.at} \in SUBSET Nat
  BY <1>2, <1>4 DEF Pool
<1>8. held' = held \ {b}
  BY DEF gracht_stream_pool_registry_release
<1>9. CASE owners # {}
  <2>1. owners = {k} /\ k \in 1 .. last
    BY <1>1, <1>5, <1>9
  <2>2. PICK i : i = CHOOSE j \in owners : \A l \in owners : j <= l
    OBVIOUS
  <2>3. i = k
    <3>1. \E j \in owners : \A l \in owners : j <= l
      BY <2>1
    <3>2. i \in owners
      BY <2>2, <3>1
    <3>3. QED
      BY <2>1, <3>2
  <2>4. entries' = [entries EXCEPT ![i].free = @ \cup {b.at}] /\ recv_pool' = recv_pool
    BY <1>9, <2>2 DEF gracht_stream_pool_registry_release
  <2>5. entries[k] = pools[k] /\ k \in DOMAIN entries
    BY <1>1, <2>1
  <2>6. entries' = [entries EXCEPT ![k].free = pools[k].free \cup {b.at}]
    BY <2>3, <2>4, <2>5
  <2>7. QED
    BY <1>6, <1>7, <1>8, <2>4, <2>5, <2>6, EntryChanged, ZenonT(60)
<1>10. CASE owners = {}
  <2>1. k = 0
    BY <1>1, <1>5, <1>10
  <2>2. recv_pool' = [recv_pool EXCEPT !.free = pools[0].free \cup {b.at}] /\ entries' = entries
    BY <1>1, <1>10 DEF gracht_stream_pool_registry_release
  <2>3. QED
    BY <1>6, <1>7, <1>8, <2>1, <2>2, RecvPoolChanged
<1>11. QED
  BY <1>9, <1>10

-----------------------------------------------------------------------------
\* The invariant holds when the pools have been set up: recv_pool is alone.
LEMMA PoolsAtFirst == Init => PoolsInv
<1> SUFFICES ASSUME Init PROVE PoolsInv
  OBVIOUS
<1>1. PICK a \in {1, 2} : recv_pool = gracht_buffer_pool_create(a, RecvSize)
  BY DEF Init
<1>2. a \in Nat /\ RecvSize \in Nat \ {0}
  BY PoolsAssumption
<1>3. recv_pool \in Pool /\ recv_pool.free = Cut(recv_pool) /\ recv_pool.size = RecvSize
  BY <1>1, <1>2, NewPool
<1>4. entries = <<>> /\ held = {} /\ last = 0
  BY DEF Init, last
<1>5. pools \in [0 .. 0 -> Pool] /\ pools[0] = recv_pool
  BY <1>3, <1>4 DEF pools
<1>6. \A i \in 0 .. 0 : i = 0
  OBVIOUS
<1>7. Good(0, pools, {})
  BY <1>3, <1>5, <1>6 DEF Good
<1>8. QED
  BY <1>3, <1>4, <1>7 DEF PoolsInv

\* Every operation on the pools preserves the invariant.
LEMMA PoolsPreserved == PoolsInv /\ [Next]_vars => PoolsInv'
<1> SUFFICES ASSUME PoolsInv, [Next]_vars PROVE PoolsInv'
  OBVIOUS
<1>1. ASSUME NEW request \in Request, AcquireFound(request) PROVE PoolsInv'
  BY <1>1, FoundStep
<1>2. ASSUME NEW request \in Request, AcquireCreated(request) PROVE PoolsInv'
  BY <1>2, CreatedStep
<1>3. CASE gracht_buffer_pool_acquire
  BY <1>3, RecvStep
<1>4. ASSUME NEW b \in held, gracht_stream_pool_registry_release(b) PROVE PoolsInv'
  BY <1>4, ReleaseStep
<1>5. CASE UNCHANGED vars
  BY <1>5 DEF vars, PoolsInv, pools, last
<1>6. QED
  BY <1>1, <1>2, <1>3, <1>4, <1>5 DEF Next

\* Buffers at two places, cut from pools and used within their size, do not meet.
LEMMA CutsApart ==
    ASSUME NEW n \in Nat, NEW ps, NEW h, Good(n, ps, h), NEW i \in 0 .. n, NEW j \in 0 .. n,
           NEW x \in Cut(ps[i]), NEW y \in Cut(ps[j]), x # y,
           NEW v \in Nat, v <= ps[i].size, NEW w \in Nat, w <= ps[j].size
    PROVE  (x .. x + v - 1) \cap (y .. y + w - 1) = {}
<1>1. ps[i] \in Pool /\ ps[j] \in Pool /\ (i # j => Block(ps[i]) \cap Block(ps[j]) = {})
  BY DEF Good
<1>2. /\ x \in Nat /\ x .. x + ps[i].size - 1 \subseteq Block(ps[i])
      /\ y \in Nat /\ y .. y + ps[j].size - 1 \subseteq Block(ps[j])
  BY <1>1, InBlock
<1>3. (x .. x + ps[i].size - 1) \cap (y .. y + ps[j].size - 1) = {}
  BY <1>1, <1>2, Apart
<1>4. x .. x + v - 1 \subseteq x .. x + ps[i].size - 1
  BY <1>1, <1>2 DEF Pool
<1>5. y .. y + w - 1 \subseteq y .. y + ps[j].size - 1
  BY <1>1, <1>2 DEF Pool
<1>6. QED
  BY <1>3, <1>4, <1>5

\* Two buffers in use never share memory, nor does a buffer in use with a free one: what
\* gracht_stream_pool_registry_release decides from an address is right.
THEOREM BuffersNeverOverlap == Spec => []NoOverlap
<1>1. ASSUME PoolsInv PROVE NoOverlap
  <2>1. Good(last, pools, held) /\ last \in Nat /\ Pools = {pools[i] : i \in 0 .. last}
    BY <1>1, Numbers DEF PoolsInv
  <2>2. held \subseteq Use /\ pools \in [0 .. last -> Pool]
    BY <2>1 DEF Good
  <2> SUFFICES ASSUME NEW b \in held
               PROVE  /\ \A c \in held \ {b} :
                            /\ (b.at .. b.at + b.size - 1) \cap (c.at .. c.at + c.size - 1) = {}
                            /\ b.at # c.at
                      /\ \A pool \in Pools : \A f \in pool.free :
                            (b.at .. b.at + b.size - 1) \cap (f .. f + pool.size - 1) = {}
    BY DEF NoOverlap
  <2>3. PICK i \in 0 .. last : From(pools[i], b)
    BY <2>1 DEF Good
  <2>4. b.at \in Cut(pools[i]) /\ b.size \in Nat /\ b.size <= pools[i].size
    BY <2>2, <2>3 DEF From, Use
  <2>5. ASSUME NEW c \in held \ {b}
        PROVE  /\ (b.at .. b.at + b.size - 1) \cap (c.at .. c.at + c.size - 1) = {}
               /\ b.at # c.at
    <3>1. PICK j \in 0 .. last : From(pools[j], c)
      BY <2>1 DEF Good
    <3>2. c.at \in Cut(pools[j]) /\ c.size \in Nat /\ c.size <= pools[j].size
      BY <2>2, <3>1 DEF From, Use
    <3>3. b.at # c.at
      BY <2>1 DEF Good
    <3>4. QED
      BY <2>1, <2>4, <3>2, <3>3, CutsApart
  <2>6. ASSUME NEW j \in 0 .. last, NEW f \in pools[j].free
        PROVE  (b.at .. b.at + b.size - 1) \cap (f .. f + pools[j].size - 1) = {}
    <3>1. f \in Cut(pools[j]) /\ pools[j].size \in Nat /\ pools[j].size <= pools[j].size
      <4>1. pools[j] \in Pool /\ pools[j].free \subseteq Cut(pools[j])
        BY <2>1, <2>6, ZenonT(60) DEF Good
      <4>2. pools[j].size \in Nat
        BY <4>1, SMTT(30) DEF Pool
      <4>3. QED
        BY <2>6, <4>1, <4>2, SMTT(30)
    <3>2. b.at # f
      <4>1. SUFFICES ASSUME b.at = f PROVE FALSE
        OBVIOUS
      <4>2. b.at \in Block(pools[j])
        BY <2>2, <3>1, <4>1, InBlock
      <4>3. i = j
        BY <2>1, <2>4, <4>2, OneHome
      <4>4. QED
        BY <2>3, <4>1, <4>3 DEF From
    <3>3. QED
      BY <2>1, <2>4, <3>1, <3>2, CutsApart
  <2>7. QED
    BY <2>1, <2>5, <2>6
<1>2. QED
  BY <1>1, PoolsAtFirst, PoolsPreserved, PTL DEF Spec

\* No pool loses a buffer or is given one of another pool.
THEOREM BuffersGoHome == Spec => []AtHome
<1>1. ASSUME PoolsInv PROVE AtHome
  <2>1. Good(last, pools, held) /\ Pools = {pools[i] : i \in 0 .. last}
    BY <1>1, Numbers DEF PoolsInv
  <2>2. ASSUME NEW i \in 0 .. last
        PROVE  /\ pools[i].free \subseteq Cut(pools[i])
               /\ Cut(pools[i]) \subseteq pools[i].free \cup {b.at : b \in held}
    BY <2>1 DEF Good
  <2>3. QED
    BY <2>1, <2>2 DEF AtHome, Cut
<1>2. QED
  BY <1>1, PoolsAtFirst, PoolsPreserved, PTL DEF Spec
=============================================================================
