------------------------------- MODULE RwLock -------------------------------
(***************************************************************************)
(* The reader/writer lock of include/rwlock.h: a plain mutex, a reader     *)
(* counter and a condition variable.  The server keeps two of them,        *)
(* clients_lock and protocols_lock.                                        *)
(*                                                                         *)
(* Readers hold the mutex only while they change the counter; a writer     *)
(* keeps it for its whole critical section.  Read sections nest: the main  *)
(* thread holds clients_lock for reading in handle_client_event while the  *)
(* handler it invokes responds, which takes the lock for reading again.    *)
(* A thread never asks for the write lock inside a read section.           *)
(*                                                                         *)
(* A short mutex section that ends in an unlock is one step, because       *)
(* everything it touches is protected by that mutex.  cnd_wait splits the  *)
(* writer's section, and rwlock_w_unlock signals after it has unlocked, so *)
(* those are steps of their own.                                           *)
(***************************************************************************)
EXTENDS Integers, FiniteSets

CONSTANTS Thread,    \* the threads of the server
          Level,     \* names for the nested read sections of one thread
          NoThread   \* the mutex is free

ASSUME RwLockAssumption ==
    /\ IsFiniteSet(Thread)
    /\ IsFiniteSet(Level)
    /\ NoThread \notin Thread

VARIABLES mutex,     \* sync_object: its holder, or NoThread
          readers,   \* the reader counter
          sections,  \* the read sections in progress: pairs <<thread, level>>
          pc         \* where each thread is in rwlock_w_lock / rwlock_w_unlock

vars == <<mutex, readers, sections, pc>>

TypeOK ==
    /\ mutex \in Thread \cup {NoThread}
    /\ readers \in Nat
    /\ sections \subseteq Thread \X Level
    /\ pc \in [Thread -> {"idle", "waiting", "woken", "writing", "unlocked"}]

Init ==
    /\ mutex = NoThread
    /\ readers = 0
    /\ sections = {}
    /\ pc = [t \in Thread |-> "idle"]

Waiting == {t \in Thread : pc[t] = "waiting"}

\* cnd_signal wakes at least one of the threads blocked on the condition
\* variable, if there is one: p is the program counter it leaves behind.
Signalled(p) ==
    LET sleeping == {t \in Thread : p[t] = "waiting"}
    IN  IF sleeping = {} THEN {p}
        ELSE {[p EXCEPT ![t] = "woken"] : t \in sleeping}

-----------------------------------------------------------------------------
\* Mutants, used only to show that the properties below can fail.

\* The last reader leaves without cnd_signal.
r_unlock_no_signal(t) ==
    /\ mutex = NoThread
    /\ \E l \in Level : /\ <<t, l>> \in sections
                        /\ sections' = sections \ {<<t, l>>}
    /\ readers' = readers - 1
    /\ UNCHANGED <<mutex, pc>>

\* rwlock_w_lock tests the counter with if instead of while.
wake_up_no_retest(t) ==
    /\ pc[t] = "woken"
    /\ mutex = NoThread
    /\ pc' = [pc EXCEPT ![t] = "writing"]
    /\ mutex' = t
    /\ UNCHANGED <<readers, sections>>

\* rwlock_w_unlock does not signal.
w_unlock_no_signal(t) ==
    /\ pc[t] = "unlocked"
    /\ pc' = [pc EXCEPT ![t] = "idle"]
    /\ UNCHANGED <<mutex, readers, sections>>

-----------------------------------------------------------------------------
rwlock_r_lock(t) ==
    /\ pc[t] = "idle"
    /\ mutex = NoThread
    /\ readers' = readers + 1
    /\ \E l \in Level : /\ <<t, l>> \notin sections
                        /\ sections' = sections \cup {<<t, l>>}
    /\ UNCHANGED <<mutex, pc>>

rwlock_r_unlock(t) ==
    /\ mutex = NoThread
    /\ \E l \in Level : /\ <<t, l>> \in sections
                        /\ sections' = sections \ {<<t, l>>}
    /\ readers' = readers - 1
    /\ pc' \in (IF readers' = 0 THEN Signalled(pc) ELSE {pc})
    /\ UNCHANGED mutex

\* The loop of rwlock_w_lock, entered with the mutex: sleep while there are
\* readers (cnd_wait gives the mutex back), otherwise keep it and write.
TestReaders(t) ==
    /\ mutex = NoThread
    /\ \/ /\ readers # 0
          /\ pc' = [pc EXCEPT ![t] = "waiting"]
          /\ UNCHANGED mutex
       \/ /\ readers = 0
          /\ pc' = [pc EXCEPT ![t] = "writing"]
          /\ mutex' = t
    /\ UNCHANGED <<readers, sections>>

rwlock_w_lock(t) ==
    /\ pc[t] = "idle"
    /\ \A l \in Level : <<t, l>> \notin sections
    /\ TestReaders(t)

\* A woken writer takes the mutex again and re-tests the counter.
WakeUp(t) ==
    /\ pc[t] = "woken"
    /\ TestReaders(t)

\* cnd_wait may return without a signal.
SpuriousWakeUp(t) ==
    /\ pc[t] = "waiting"
    /\ pc' = [pc EXCEPT ![t] = "woken"]
    /\ UNCHANGED <<mutex, readers, sections>>

\* rwlock_w_unlock: first the mutex is released ...
rwlock_w_unlock(t) ==
    /\ pc[t] = "writing"
    /\ mutex' = NoThread
    /\ pc' = [pc EXCEPT ![t] = "unlocked"]
    /\ UNCHANGED <<readers, sections>>

\* ... and only then is the condition variable signalled.
SignalAfterUnlock(t) ==
    /\ pc[t] = "unlocked"
    /\ pc' \in Signalled([pc EXCEPT ![t] = "idle"])
    /\ UNCHANGED <<mutex, readers, sections>>

Next ==
    \E t \in Thread :
        \/ rwlock_r_lock(t)
        \/ rwlock_r_unlock(t)
        \/ rwlock_w_lock(t)
        \/ WakeUp(t)
        \/ SpuriousWakeUp(t)
        \/ rwlock_w_unlock(t)
        \/ SignalAfterUnlock(t)

Spec == Init /\ [][Next]_vars

\* Critical sections are finite and the mutex is fair: a thread that can go on
\* does, and one that asks for the mutex again and again gets it.
FairSpec ==
    /\ Spec
    /\ \A t \in Thread : /\ WF_vars(rwlock_r_unlock(t))
                         /\ WF_vars(rwlock_w_unlock(t))
                         /\ WF_vars(SignalAfterUnlock(t))
                         /\ SF_vars(WakeUp(t))

-----------------------------------------------------------------------------
\* While a thread is between rwlock_w_lock and rwlock_w_unlock no other thread
\* writes and no thread is in a read section: what every user of clients_lock
\* and protocols_lock in server.c relies on when it changes the tables.
Exclusion ==
    \A w \in Thread : pc[w] = "writing" =>
        /\ sections = {}
        /\ \A t \in Thread : pc[t] = "writing" => t = w

\* The counter is the number of read sections in progress, so the
\* assert(lock->readers) of rwlock_r_unlock never fails.
CounterExact == readers = Cardinality(sections)

\* No wake-up is lost: a writer sleeps on the condition variable only while
\* somebody is still going to signal it (a reader, or a writer that has not
\* signalled yet) or another sleeper has been woken and will.
NoLostWakeup ==
    Waiting # {} =>
        \/ sections # {}
        \/ \E t \in Thread : pc[t] \in {"woken", "writing", "unlocked"}

\* Once readers stop coming, every writer that sleeps in rwlock_w_lock gets
\* the lock.  (While they keep coming it may starve: the lock prefers readers.)
WriterProgress ==
    \A w \in Thread :
        <>[](sections = {}) => (pc[w] = "waiting" ~> pc[w] = "writing")
=============================================================================
