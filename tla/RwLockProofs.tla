---------------------------- MODULE RwLockProofs ----------------------------
(***************************************************************************)
(* Proofs about the reader/writer lock of include/rwlock.h, for every      *)
(* finite set of threads and every nesting depth.                          *)
(*                                                                         *)
(* Exclusion is not inductive: that a writer finds no reader rests on the  *)
(* counter being the number of read sections, and that readers stay out    *)
(* rests on the writer holding the mutex.  IInv adds both.                 *)
(***************************************************************************)
EXTENDS RwLock, FiniteSetTheorems, TLAPS

IInv ==
    /\ TypeOK
    /\ CounterExact
    /\ \A t \in Thread : pc[t] = "writing" <=> mutex = t
    /\ mutex # NoThread => sections = {}
    /\ NoLostWakeup

\* The sections are a set of pairs over two finite sets, so they can be counted.
LEMMA SectionsFinite == TypeOK => IsFiniteSet(sections)
<1> SUFFICES ASSUME TypeOK PROVE IsFiniteSet(sections)
  OBVIOUS
<1>1. IsFiniteSet(Thread \X Level)
  BY RwLockAssumption, FS_Product
<1>2. QED
  BY <1>1, FS_Subset DEF TypeOK

\* What cnd_signal does to the program counters: it changes nothing but a
\* sleeper into a woken thread, and if there is a sleeper it wakes one.
LEMMA SignalledWakes ==
    ASSUME NEW p \in [Thread -> {"idle", "waiting", "woken", "writing", "unlocked"}],
           NEW q \in Signalled(p)
    PROVE  /\ q \in [Thread -> {"idle", "waiting", "woken", "writing", "unlocked"}]
           /\ \A t \in Thread : q[t] = "writing" <=> p[t] = "writing"
           /\ \A t \in Thread : p[t] # "waiting" => q[t] = p[t]
           /\ (\E t \in Thread : q[t] = "waiting") => \E t \in Thread : q[t] = "woken"
<1>1. CASE {t \in Thread : p[t] = "waiting"} = {}
  BY <1>1 DEF Signalled
<1>2. CASE {t \in Thread : p[t] = "waiting"} # {}
  <2>1. PICK s \in Thread : p[s] = "waiting" /\ q = [p EXCEPT ![s] = "woken"]
    BY <1>2 DEF Signalled
  <2>2. QED
    BY <2>1
<1>3. QED
  BY <1>1, <1>2

\* The counter of an empty set of sections is zero and only of an empty one.
LEMMA CounterZero == TypeOK /\ CounterExact => (readers = 0 <=> sections = {})
BY SectionsFinite, FS_EmptySet DEF CounterExact

\* A reader that enters adds one section and one to the counter.
LEMMA RLockPreserves ==
    ASSUME IInv, NEW t \in Thread, rwlock_r_lock(t)
    PROVE  IInv'
<1>1. PICK l \in Level : <<t, l>> \notin sections /\ sections' = sections \cup {<<t, l>>}
  BY DEF rwlock_r_lock
<1>2. Cardinality(sections') = Cardinality(sections) + 1
  BY <1>1, SectionsFinite, FS_AddElement DEF IInv
<1>3. TypeOK' /\ CounterExact'
  BY <1>1, <1>2 DEF IInv, TypeOK, CounterExact, rwlock_r_lock
<1>4. QED
  BY <1>1, <1>3 DEF IInv, rwlock_r_lock, NoLostWakeup, Waiting

\* A reader that leaves takes both away, and the last one signals a writer.
LEMMA RUnlockPreserves ==
    ASSUME IInv, NEW t \in Thread, rwlock_r_unlock(t)
    PROVE  IInv'
<1>1. PICK l \in Level : <<t, l>> \in sections /\ sections' = sections \ {<<t, l>>}
  BY DEF rwlock_r_unlock
<1>2. IsFiniteSet(sections) /\ readers = Cardinality(sections)
  BY SectionsFinite DEF IInv, CounterExact
<1>3. Cardinality(sections') = Cardinality(sections) - 1
  BY <1>1, <1>2, FS_RemoveElement
<1>4. IsFiniteSet(sections') /\ Cardinality(sections') \in Nat
  BY <1>1, <1>2, FS_RemoveElement, FS_CardinalityType
<1>5. readers' = Cardinality(sections') /\ readers' \in Nat
  BY <1>2, <1>3, <1>4 DEF rwlock_r_unlock
<1>6. readers' = 0 <=> sections' = {}
  BY <1>4, <1>5, FS_EmptySet
<1>7. mutex = NoThread /\ mutex' = NoThread
  BY DEF rwlock_r_unlock
<1>8. CASE readers' = 0
  <2>1. pc' \in Signalled(pc)
    BY <1>8 DEF rwlock_r_unlock
  <2>2. QED
    BY <2>1, <1>1, <1>5, <1>7, SignalledWakes
    DEF IInv, TypeOK, CounterExact, NoLostWakeup, Waiting
<1>9. CASE readers' # 0
  <2>1. pc' = pc
    BY <1>9 DEF rwlock_r_unlock
  <2>2. QED
    BY <2>1, <1>1, <1>5, <1>6, <1>7, <1>9
    DEF IInv, TypeOK, CounterExact, NoLostWakeup, Waiting
<1>10. QED
  BY <1>8, <1>9

\* Both entries into the loop of rwlock_w_lock.
LEMMA TestReadersPreserves ==
    ASSUME IInv, NEW t \in Thread, pc[t] \in {"idle", "woken"}, TestReaders(t)
    PROVE  IInv'
<1>1. readers = 0 <=> sections = {}
  BY CounterZero DEF IInv
<1>2. QED
  BY <1>1, RwLockAssumption
  DEF IInv, TypeOK, CounterExact, TestReaders, NoLostWakeup, Waiting

\* cnd_wait may return without a signal.
LEMMA SpuriousPreserves ==
    ASSUME IInv, NEW t \in Thread, SpuriousWakeUp(t)
    PROVE  IInv'
BY DEF IInv, TypeOK, CounterExact, SpuriousWakeUp, NoLostWakeup, Waiting

\* A writer that unlocks still has its signal to give.
LEMMA WUnlockPreserves ==
    ASSUME IInv, NEW t \in Thread, rwlock_w_unlock(t)
    PROVE  IInv'
BY RwLockAssumption
DEF IInv, TypeOK, CounterExact, rwlock_w_unlock, NoLostWakeup, Waiting

\* The signal after the unlock wakes a sleeper, if there is one.
LEMMA SignalPreserves ==
    ASSUME IInv, NEW t \in Thread, SignalAfterUnlock(t)
    PROVE  IInv'
<1> DEFINE p == [pc EXCEPT ![t] = "idle"]
<1>1. /\ p \in [Thread -> {"idle", "waiting", "woken", "writing", "unlocked"}]
      /\ \A s \in Thread : p[s] = "writing" <=> pc[s] = "writing"
  BY DEF IInv, TypeOK, SignalAfterUnlock
<1>2. pc' \in Signalled(p)
  BY DEF SignalAfterUnlock
<1> HIDE DEF p
<1>3. QED
  BY <1>1, <1>2, SignalledWakes
  DEF IInv, TypeOK, CounterExact, SignalAfterUnlock, NoLostWakeup, Waiting

\* A new lock satisfies the invariant.
LEMMA InitIInv == Init => IInv
BY RwLockAssumption, FS_EmptySet
DEF Init, IInv, TypeOK, CounterExact, NoLostWakeup, Waiting

\* Every step of every thread preserves it.
LEMMA NextIInv == IInv /\ [Next]_vars => IInv'
<1> SUFFICES ASSUME IInv, [Next]_vars PROVE IInv'
  OBVIOUS
<1>1. ASSUME NEW t \in Thread, rwlock_r_lock(t) PROVE IInv'
  BY <1>1, RLockPreserves
<1>2. ASSUME NEW t \in Thread, rwlock_r_unlock(t) PROVE IInv'
  BY <1>2, RUnlockPreserves
<1>3. ASSUME NEW t \in Thread, rwlock_w_lock(t) PROVE IInv'
  BY <1>3, TestReadersPreserves DEF rwlock_w_lock
<1>4. ASSUME NEW t \in Thread, WakeUp(t) PROVE IInv'
  BY <1>4, TestReadersPreserves DEF WakeUp
<1>5. ASSUME NEW t \in Thread, SpuriousWakeUp(t) PROVE IInv'
  BY <1>5, SpuriousPreserves
<1>6. ASSUME NEW t \in Thread, rwlock_w_unlock(t) PROVE IInv'
  BY <1>6, WUnlockPreserves
<1>7. ASSUME NEW t \in Thread, SignalAfterUnlock(t) PROVE IInv'
  BY <1>7, SignalPreserves
<1>8. CASE UNCHANGED vars
  BY <1>8 DEF vars, IInv, TypeOK, CounterExact, NoLostWakeup, Waiting
<1>9. QED
  BY <1>1, <1>2, <1>3, <1>4, <1>5, <1>6, <1>7, <1>8 DEF Next

\* The strengthened invariant holds in every reachable state of the lock.
THEOREM LockInvariant == Spec => []IInv
BY InitIInv, NextIInv, PTL DEF Spec

\* Every value of the lock's state keeps its type; the reader counter never
\* goes below zero, so the assert in rwlock_r_unlock holds.
THEOREM TypeCorrect == Spec => []TypeOK
<1>1. IInv => TypeOK
  BY DEF IInv
<1>2. QED
  BY <1>1, LockInvariant, PTL

\* rwlock_w_lock gives exclusive access: no reader and no second writer.
THEOREM MutualExclusion == Spec => []Exclusion
<1>1. IInv => Exclusion
  BY RwLockAssumption DEF IInv, Exclusion, TypeOK
<1>2. QED
  BY <1>1, LockInvariant, PTL

\* No interleaving of readers, writers and spurious wake-ups leaves a writer
\* asleep with nobody left to wake it.
THEOREM WakeupsAreNotLost == Spec => []NoLostWakeup
<1>1. IInv => NoLostWakeup
  BY DEF IInv
<1>2. QED
  BY <1>1, LockInvariant, PTL
=============================================================================
