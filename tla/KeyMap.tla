------------------------------- MODULE KeyMap -------------------------------
(***************************************************************************)
(* What runtime/hashtable.c promises its callers: a map from keys to       *)
(* values.  When the table cannot be resized, set and remove change        *)
(* nothing and return NULL.                                                *)
(***************************************************************************)
EXTENDS Functions

CONSTANTS Key, Value, NULL,
          MayFail    \* TRUE: a resize may run out of memory

VARIABLES map, call, result

Lookup(k) == IF k \in DOMAIN map THEN map[k] ELSE NULL

Init == map = <<>> /\ call = [op |-> "construct"] /\ result = NULL

Set(k, v) ==
    /\ call' = [op |-> "set", key |-> k, value |-> v]
    /\ map' = [x \in DOMAIN map \cup {k} |-> IF x = k THEN v ELSE map[x]]
    /\ result' = Lookup(k)

Get(k) ==
    /\ call' = [op |-> "get", key |-> k]
    /\ result' = Lookup(k)
    /\ UNCHANGED map

Remove(k) ==
    /\ call' = [op |-> "remove", key |-> k]
    /\ map' = Restrict(map, DOMAIN map \ {k})
    /\ result' = Lookup(k)

Fail ==
    /\ MayFail
    /\ \E k \in Key :
          \/ call' = [op |-> "remove", key |-> k]
          \/ \E v \in Value : call' = [op |-> "set", key |-> k, value |-> v]
    /\ result' = NULL
    /\ UNCHANGED map

Next == Fail \/ \E k \in Key : Get(k) \/ Remove(k) \/ \E v \in Value : Set(k, v)

Spec == Init /\ [][Next]_<<map, call, result>>
=============================================================================
