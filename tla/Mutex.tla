------------------------------- MODULE Mutex --------------------------------
(***************************************************************************)
(* The kernel's sleeping lock (kernel/src/proc/mutex.c) as the socket      *)
(* layer and the ATA driver use it: a process unlocks what it locked.      *)
(* Kernel code runs with interrupts off on one CPU, so a call is one step  *)
(* from its entry, or from the moment its process is switched in again,    *)
(* to its return or to k_proc_process_sleep_and_unlock; mutex->lock, the   *)
(* spinlock around the body, is therefore free whenever a step begins.     *)
(* Retry_Once and mutex_unlock_Silent are faulty variants.                 *)
(***************************************************************************)
EXTENDS Integers, Sequences, SequencesExt, Lists

CONSTANTS Procs, None

ASSUME MutexAssumption == None \notin Procs

VARIABLES
  locked,       \* mutex->locked
  owner,        \* mutex->owner
  wait_queue,   \* mutex->wait_queue
  at            \* where a process is: "out", "asleep", "woken" (both inside
                \* mutex_lock) or "inside" (between mutex_lock and mutex_unlock)

vars == <<locked, owner, wait_queue, at>>

Init ==
  /\ locked = FALSE
  /\ owner = None
  /\ wait_queue = << >>
  /\ at = [p \in Procs |-> "out"]

(* The lock is free: it is taken.                                          *)
Acquire(p) ==
  /\ ~locked
  /\ locked' = TRUE
  /\ owner' = p
  /\ at' = [at EXCEPT ![p] = "inside"]
  /\ UNCHANGED wait_queue

(* k_proc_process_sleep_and_unlock.                                        *)
Sleep(p) ==
  /\ locked
  /\ wait_queue' = list_push_back(wait_queue, p)
  /\ at' = [at EXCEPT ![p] = "asleep"]
  /\ UNCHANGED <<locked, owner>>

mutex_lock(p) ==
  /\ at[p] = "out"
  /\ Acquire(p) \/ Sleep(p)

Retry_Once(p) ==
  /\ at[p] = "woken"
  /\ locked' = TRUE
  /\ owner' = p
  /\ at' = [at EXCEPT ![p] = "inside"]
  /\ UNCHANGED wait_queue

(* A process that slept is switched in and tests mutex->locked again:      *)
(* another one may have come first.                                        *)
Retry(p) ==
  /\ at[p] = "woken"
  /\ Acquire(p) \/ Sleep(p)

mutex_unlock_Silent(p) ==
  /\ at[p] = "inside"
  /\ locked' = FALSE
  /\ owner' = None
  /\ at' = [at EXCEPT ![p] = "out"]
  /\ UNCHANGED wait_queue

(* k_proc_process_wakeup_queue_single takes the process that came last.    *)
mutex_unlock(p) ==
  /\ at[p] = "inside"
  /\ locked' = FALSE
  /\ owner' = None
  /\ IF wait_queue = << >>
       THEN /\ at' = [at EXCEPT ![p] = "out"]
            /\ UNCHANGED wait_queue
       ELSE /\ at' = [at EXCEPT ![p] = "out", ![list_tail(wait_queue)] = "woken"]
            /\ wait_queue' = list_pop_back(wait_queue)

(* A signal takes a waiter off the queue; mutex_lock ignores what          *)
(* k_proc_process_sleep_and_unlock returns and tries again.                *)
Signal(p) ==
  /\ at[p] = "asleep"
  /\ at' = [at EXCEPT ![p] = "woken"]
  /\ wait_queue' = list_delete_element(wait_queue, p)
  /\ UNCHANGED <<locked, owner>>

Next == \E p \in Procs : mutex_lock(p) \/ Retry(p) \/ mutex_unlock(p) \/ Signal(p)

Spec == Init /\ [][Next]_vars
----------------------------------------------------------------------------
TypeOK ==
  /\ locked \in BOOLEAN
  /\ owner \in Procs \cup {None}
  /\ wait_queue \in Seq(Procs)
  /\ at \in [Procs -> {"out", "asleep", "woken", "inside"}]

(* mutex_lock lets one process through at a time, the recorded owner,      *)
(* although a woken waiter, a newcomer and a signalled waiter race for it. *)
MutualExclusion ==
  /\ \A p \in Procs : at[p] = "inside" <=> locked /\ owner = p
  /\ locked => owner \in Procs

(* No lost wakeup: while the lock is free and somebody sleeps on it,       *)
(* another process has been woken and is about to try.  A waiter that      *)
(* finds the lock taken again may go back to sleep because its next        *)
(* mutex_unlock wakes somebody.                                            *)
FreeLockHasSuccessor ==
  ~locked /\ wait_queue # << >> => \E p \in Procs : at[p] = "woken"

(* The wait queue holds exactly the sleepers, each once.                   *)
QueueIsExact ==
  /\ Range(wait_queue) = {p \in Procs : at[p] = "asleep"}
  /\ IsInjective(wait_queue)

MutexInv == TypeOK /\ MutualExclusion /\ FreeLockHasSuccessor /\ QueueIsExact

(***************************************************************************)
(* Proofs, for any set of processes.                                       *)
(***************************************************************************)

LEMMA MutexAcquire ==
  ASSUME MutexInv, NEW p \in Procs, at[p] \in {"out", "woken"}, Acquire(p)
  PROVE  MutexInv'
<1> USE MutexAssumption DEF MutexInv
<1>1. TypeOK'
  BY DEF Acquire, TypeOK
<1>2. MutualExclusion'
  BY DEF Acquire, TypeOK, MutualExclusion
<1>3. FreeLockHasSuccessor'
  BY DEF Acquire, FreeLockHasSuccessor
<1>4. QueueIsExact'
  BY DEF Acquire, TypeOK, QueueIsExact
<1> QED  BY <1>1, <1>2, <1>3, <1>4

LEMMA MutexSleep ==
  ASSUME MutexInv, NEW p \in Procs, at[p] \in {"out", "woken"}, Sleep(p)
  PROVE  MutexInv'
<1> USE MutexAssumption DEF MutexInv
<1>1. /\ wait_queue' \in Seq(Procs)
      /\ Range(wait_queue') = Range(wait_queue) \cup {p}
      /\ IsInjective(wait_queue')
  BY PushBack DEF Sleep, TypeOK, QueueIsExact
<1>2. TypeOK'
  BY <1>1 DEF Sleep, TypeOK
<1>3. MutualExclusion'
  BY DEF Sleep, TypeOK, MutualExclusion
<1>4. FreeLockHasSuccessor'
  BY DEF Sleep, FreeLockHasSuccessor
<1>5. QueueIsExact'
  BY <1>1 DEF Sleep, TypeOK, QueueIsExact
<1> QED  BY <1>2, <1>3, <1>4, <1>5

LEMMA MutexUnlock ==
  ASSUME MutexInv, NEW p \in Procs, mutex_unlock(p)
  PROVE  MutexInv'
<1> USE MutexAssumption DEF MutexInv
<1>1. CASE wait_queue = << >>
  <2>1. at' = [at EXCEPT ![p] = "out"] /\ UNCHANGED wait_queue /\ locked' = FALSE /\ owner' = None
    BY <1>1 DEF mutex_unlock
  <2>2. TypeOK'
    BY <2>1 DEF TypeOK
  <2>3. MutualExclusion'
    BY <2>1 DEF mutex_unlock, TypeOK, MutualExclusion
  <2>4. FreeLockHasSuccessor'
    BY <1>1, <2>1 DEF FreeLockHasSuccessor
  <2>5. QueueIsExact'
    BY <2>1 DEF mutex_unlock, TypeOK, QueueIsExact
  <2> QED  BY <2>2, <2>3, <2>4, <2>5
<1>2. CASE wait_queue # << >>
  <2> DEFINE q == list_tail(wait_queue)
  <2>1. /\ at' = [at EXCEPT ![p] = "out", ![q] = "woken"]
        /\ wait_queue' = list_pop_back(wait_queue) /\ locked' = FALSE /\ owner' = None
    BY <1>2 DEF mutex_unlock
  <2>2. /\ q \in Procs /\ q \in Range(wait_queue)
        /\ wait_queue' \in Seq(Procs)
        /\ Range(wait_queue') = Range(wait_queue) \ {q}
        /\ IsInjective(wait_queue')
    BY <1>2, <2>1, PopBack DEF TypeOK, QueueIsExact
  <2> HIDE DEF q
  <2>3. at[q] = "asleep" /\ q # p
    BY <2>2 DEF mutex_unlock, QueueIsExact
  <2>4. TypeOK'
    BY <2>1, <2>2 DEF mutex_unlock, TypeOK
  <2>5. MutualExclusion'
    BY <2>1, <2>2, <2>3 DEF mutex_unlock, TypeOK, MutualExclusion
  <2>6. FreeLockHasSuccessor'
    BY <2>1, <2>2 DEF TypeOK, FreeLockHasSuccessor
  <2>7. QueueIsExact'
    BY <2>1, <2>2, <2>3 DEF mutex_unlock, TypeOK, QueueIsExact
  <2> QED  BY <2>4, <2>5, <2>6, <2>7
<1> QED  BY <1>1, <1>2

LEMMA MutexSignal ==
  ASSUME MutexInv, NEW p \in Procs, Signal(p)
  PROVE  MutexInv'
<1> USE MutexAssumption DEF MutexInv
<1>1. /\ wait_queue' \in Seq(Procs)
      /\ Range(wait_queue') = Range(wait_queue) \ {p}
      /\ IsInjective(wait_queue')
  BY DeleteElement DEF Signal, TypeOK, QueueIsExact
<1>2. TypeOK'
  BY <1>1 DEF Signal, TypeOK
<1>3. MutualExclusion'
  BY DEF Signal, TypeOK, MutualExclusion
<1>4. FreeLockHasSuccessor'
  BY DEF Signal, TypeOK, FreeLockHasSuccessor
<1>5. QueueIsExact'
  BY <1>1 DEF Signal, TypeOK, QueueIsExact
<1> QED  BY <1>2, <1>3, <1>4, <1>5

(* The inductive invariant of mutex_lock and mutex_unlock, for any number  *)
(* of processes and any signals.                                           *)
THEOREM MutexInvariance == Spec => []MutexInv
<1>1. Init => MutexInv
  <2> SUFFICES ASSUME Init PROVE MutexInv
    OBVIOUS
  <2>1. TypeOK
    BY EmptySeq DEF Init, TypeOK
  <2>2. MutualExclusion
    BY DEF Init, MutualExclusion
  <2>3. FreeLockHasSuccessor
    BY DEF Init, FreeLockHasSuccessor
  <2>4. QueueIsExact
    BY EmptyList DEF Init, QueueIsExact
  <2> QED  BY <2>1, <2>2, <2>3, <2>4 DEF MutexInv
<1>2. MutexInv /\ [Next]_vars => MutexInv'
  <2> SUFFICES ASSUME MutexInv, [Next]_vars PROVE MutexInv'
    OBVIOUS
  <2>1. ASSUME NEW p \in Procs, mutex_lock(p) PROVE MutexInv'
    BY <2>1, MutexAcquire, MutexSleep DEF mutex_lock
  <2>2. ASSUME NEW p \in Procs, Retry(p) PROVE MutexInv'
    BY <2>2, MutexAcquire, MutexSleep DEF Retry
  <2>3. ASSUME NEW p \in Procs, mutex_unlock(p) PROVE MutexInv'
    BY <2>3, MutexUnlock
  <2>4. ASSUME NEW p \in Procs, Signal(p) PROVE MutexInv'
    BY <2>4, MutexSignal
  <2>5. CASE UNCHANGED vars
    BY <2>5 DEF vars, MutexInv, TypeOK, MutualExclusion, FreeLockHasSuccessor, QueueIsExact
  <2> QED  BY <2>1, <2>2, <2>3, <2>4, <2>5 DEF Next
<1> QED  BY <1>1, <1>2, PTL DEF Spec

(* The mutex never has two owners.                                         *)
THEOREM MutexExcludes == Spec => []MutualExclusion
<1>1. MutexInv => MutualExclusion
  BY DEF MutexInv
<1> QED  BY <1>1, MutexInvariance, PTL

(* A mutex that is free while processes sleep on it has a process on its   *)
(* way that will take it: the wakeup of mutex_unlock is never lost.        *)
THEOREM FreeMutexIsTaken == Spec => []FreeLockHasSuccessor
<1>1. MutexInv => FreeLockHasSuccessor
  BY DEF MutexInv
<1> QED  BY <1>1, MutexInvariance, PTL
=============================================================================
