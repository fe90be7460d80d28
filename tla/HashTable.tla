----------------------------- MODULE HashTable ------------------------------
(***************************************************************************)
(* runtime/hashtable.c: the open-addressed robin-hood table that holds the *)
(* clients and protocols of a server and the messages and awaiters of a    *)
(* client.  A slot has the probe count of its element, 0 when it is free;  *)
(* the payload left in a free slot is never read and is not kept here.     *)
(* A result is what the returned pointer refers to at the time of return   *)
(* (Client models a caller that reads it later).                           *)
(***************************************************************************)
EXTENDS Integers, FiniteSets, Functions, FiniteSetsExt

CONSTANTS Key, Value, NULL,
          Hash,             \* Key -> the hash of its element
          MinimumCapacity,  \* HASHTABLE_MINIMUM_CAPACITY
          RequestCapacity,  \* requestCapacity of gr_hashtable_construct
          MayFail           \* TRUE: malloc may fail in a resize

ASSUME TableAssumption ==
    /\ IsFiniteSet(Key) /\ Hash \in [Key -> Nat]
    /\ NULL \notin Key \cup Value
    /\ MinimumCapacity \in {2^n : n \in 1 .. 16}
    /\ RequestCapacity \in Nat
    /\ MayFail \in BOOLEAN

VARIABLES capacity, element_count, elements, call, result

vars == <<capacity, element_count, elements, call, result>>

Free == [probe |-> 0]
Element(k, v, p) == [probe |-> p, key |-> k, value |-> v]
Index(i, size) == i % size
Storage(size) == [i \in 0 .. size - 1 |-> Free]

Taken == {i \in DOMAIN elements : elements[i].probe > 0}

RECURSIVE PowerOfTwo(_, _)
RECURSIVE InsertFirstFree(_, _, _)
RECURSIVE Insert(_, _, _)
RECURSIVE Find(_, _, _)
RECURSIVE gr_hashtable_remove_and_bump(_, _)
RECURSIVE Transfer(_, _, _)

PowerOfTwo(size, request) == IF size < request THEN PowerOfTwo(2 * size, request) ELSE size

Init ==
    /\ capacity = PowerOfTwo(MinimumCapacity, RequestCapacity)
    /\ element_count = 0
    /\ elements = Storage(capacity)
    /\ call = [op |-> "construct"]
    /\ result = NULL

\* Mutated form: the table grows when it is full.
grow_count_full == capacity

grow_count == (capacity * 75) \div 100
shrink_count == (capacity * 20) \div 100

----------------------------------------------------------------------------
(* Mutated forms                                                           *)

\* Plain linear probing: an element never makes room for one further from home.
InsertFirstFree(slots, i, e) ==
    LET current == slots[i]
        next == Index(i + 1, Cardinality(DOMAIN slots))
    IN IF current.probe = 0
       THEN [slots |-> [slots EXCEPT ![i] = e], old |-> NULL]
       ELSE IF current.key = e.key
       THEN [slots |-> [slots EXCEPT ![i] = e], old |-> current.value]
       ELSE InsertFirstFree(slots, next, [e EXCEPT !.probe = @ + 1])

----------------------------------------------------------------------------
(* The probing loops                                                       *)

\* The loop of gr_hashtable_set: take a free slot, replace the element with the same key,
\* or take the slot of an element nearer to its home and go on with that one.
Insert(slots, i, e) ==
    LET current == slots[i]
        next == Index(i + 1, Cardinality(DOMAIN slots))
        Further(x) == [x EXCEPT !.probe = @ + 1]
    IN IF current.probe = 0
       THEN [slots |-> [slots EXCEPT ![i] = e], old |-> NULL]
       ELSE IF current.key = e.key
       THEN [slots |-> [slots EXCEPT ![i] = e], old |-> current.value]
       ELSE IF current.probe < e.probe
       THEN Insert([slots EXCEPT ![i] = e], next, Further(current))
       ELSE Insert(slots, next, Further(e))

\* The loop of gr_hashtable_get and gr_hashtable_remove: the slot of the key, or -1.
Find(slots, i, k) ==
    IF slots[i].probe = 0 THEN -1
    ELSE IF slots[i].key = k THEN i
    ELSE Find(slots, Index(i + 1, Cardinality(DOMAIN slots)), k)

\* Move the elements after slot i one slot nearer to their homes, up to an element that
\* is at home or a free slot.
gr_hashtable_remove_and_bump(slots, i) ==
    LET next == Index(i + 1, Cardinality(DOMAIN slots)) IN
    IF slots[next].probe <= 1 THEN [slots EXCEPT ![i] = Free]
    ELSE gr_hashtable_remove_and_bump(
            [slots EXCEPT ![i] = [slots[next] EXCEPT !.probe = @ - 1]], next)

\* The loop of hashtable_resize: insert what is in the old slots from i on.
Transfer(old, i, new) ==
    IF i \notin DOMAIN old THEN new
    ELSE IF old[i].probe = 0 THEN Transfer(old, i + 1, new)
    ELSE LET e == Element(old[i].key, old[i].value, 1)
             home == Index(Hash[e.key], Cardinality(DOMAIN new))
         IN Transfer(old, i + 1, Insert(new, home, e).slots)

hashtable_resize(size) ==
    IF size < MinimumCapacity THEN elements ELSE Transfer(elements, 0, Storage(size))

\* The storage an operation works on: resized on entry when the count is at the threshold.
Entered(threshold, size) ==
    IF element_count = threshold THEN hashtable_resize(size) ELSE elements

Resizes(threshold, size) == element_count = threshold /\ size >= MinimumCapacity

----------------------------------------------------------------------------
(* Mutated forms of the operations                                         *)

\* remove returns the slot of the element, which by then holds the one after it.
remove_returns_slot(k) ==
    LET slots == Entered(shrink_count, capacity \div 2)
        size == Cardinality(DOMAIN slots)
        i == Find(slots, Index(Hash[k], size), k)
        bumped == gr_hashtable_remove_and_bump(slots, i)
    IN /\ i # -1
       /\ capacity' = size
       /\ call' = [op |-> "remove", key |-> k]
       /\ elements' = bumped
       /\ result' = IF bumped[i].probe = 0 THEN slots[i].value ELSE bumped[i].value
       /\ element_count' = element_count - 1

----------------------------------------------------------------------------
(* Operations                                                              *)

gr_hashtable_set(k, v) ==
    LET slots == Entered(grow_count, 2 * capacity)
        size == Cardinality(DOMAIN slots)
        done == Insert(slots, Index(Hash[k], size), Element(k, v, 1))
    IN /\ elements' = done.slots
       /\ capacity' = size
       /\ element_count' = IF done.old = NULL THEN element_count + 1 ELSE element_count
       /\ call' = [op |-> "set", key |-> k, value |-> v]
       /\ result' = done.old

gr_hashtable_get(k) ==
    LET i == Find(elements, Index(Hash[k], capacity), k) IN
    /\ call' = [op |-> "get", key |-> k]
    /\ result' = IF i = -1 THEN NULL ELSE elements[i].value
    /\ UNCHANGED <<capacity, element_count, elements>>

gr_hashtable_remove(k) ==
    LET slots == Entered(shrink_count, capacity \div 2)
        size == Cardinality(DOMAIN slots)
        i == Find(slots, Index(Hash[k], size), k)
    IN /\ capacity' = size
       /\ call' = [op |-> "remove", key |-> k]
       /\ \/ /\ i = -1
             /\ elements' = slots /\ result' = NULL
             /\ UNCHANGED element_count
          \/ /\ i # -1
             /\ elements' = gr_hashtable_remove_and_bump(slots, i)
             /\ result' = slots[i].value
             /\ element_count' = element_count - 1

\* Both return NULL when the resize on entry runs out of memory.
ResizeFails ==
    /\ MayFail
    /\ \/ /\ Resizes(grow_count, 2 * capacity)
          /\ \E k \in Key, v \in Value : call' = [op |-> "set", key |-> k, value |-> v]
       \/ /\ Resizes(shrink_count, capacity \div 2)
          /\ \E k \in Key : call' = [op |-> "remove", key |-> k]
    /\ result' = NULL
    /\ UNCHANGED <<capacity, element_count, elements>>

Next ==
    \/ \E k \in Key, v \in Value : gr_hashtable_set(k, v)
    \/ \E k \in Key : gr_hashtable_get(k)
    \/ \E k \in Key : gr_hashtable_remove(k)
    \/ ResizeFails

Spec == Init /\ [][Next]_vars

----------------------------------------------------------------------------
(* Properties                                                              *)

\* What gr_hashtable_enumerate visits.
Contents ==
    [k \in {elements[i].key : i \in Taken} |->
        elements[CHOOSE i \in Taken : elements[i].key = k].value]

M == INSTANCE KeyMap WITH map <- Contents

\* Seen through get, set, remove and enumerate the table is a map, across displacement,
\* backward shifts on removal, growing and shrinking.
IsMap == M!Spec

\* Every probe count is the distance from the home slot, no key is stored twice, and an
\* element away from home follows one that is at most one step nearer to its own: the
\* order that lets set displace elements without first looking for the key.
RobinHood ==
    /\ \A i \in Taken : Index(Hash[elements[i].key] + elements[i].probe - 1, capacity) = i
    /\ \A i, j \in Taken : elements[i].key = elements[j].key => i = j
    /\ \A i \in Taken : elements[i].probe > 1 =>
          elements[Index(i + capacity - 1, capacity)].probe >= elements[i].probe - 1

\* The count the resize thresholds are compared with is the number of elements, and a
\* slot is always free: every probing loop of set, get and remove ends.
LoopsEnd == element_count = Cardinality(Taken) /\ Cardinality(Taken) < capacity

\* set returns NULL only when the element was inserted, as hashtable.h says.
NullMeansInserted ==
    call.op = "set" /\ result = NULL =>
        call.key \in DOMAIN Contents /\ Contents[call.key] = call.value
=============================================================================
