--------------------------- MODULE Process_proofs --------------------------
(***************************************************************************)
(* Proofs about Process for any set of processes, queues and signals: the  *)
(* inductive invariant IInv, and with it the agreement of ready queue,     *)
(* wait queues, sleep queue and process states, the life of the process    *)
(* tree, and that an exited process never runs again.  CallInv, relative   *)
(* to IInv, gives the promises of select, waitpid and interrupted sleeps.  *)
(***************************************************************************)
EXTENDS Process

TimerKinds == {"none", "wait", "timeout"}
States == {"absent", "starting", "running", "sleeping", "finished"}

(* Deleting p from the queues in qs, all queues it sits on, is matched by  *)
(* removing qs from its owners.                                            *)
LEMMA WithoutAgrees ==
  ASSUME NEW Q \in [Queues -> Seq(Procs)], NEW O \in [Procs -> SUBSET Queues],
         NEW T, NEW S, NEW p \in Procs, NEW qs \in SUBSET O[p],
         AgreeOn(Q, O, T, S)
  PROVE  /\ Without(Q, p, qs) \in [Queues -> Seq(Procs)]
         /\ AgreeOn(Without(Q, p, qs), [O EXCEPT ![p] = @ \ qs], T, S)
<1> DEFINE W == Without(Q, p, qs)
           P == [O EXCEPT ![p] = @ \ qs]
<1>1. \A q \in Queues :
        /\ W[q] \in Seq(Procs)
        /\ IsInjective(W[q])
        /\ Range(W[q]) = IF q \in qs THEN Range(Q[q]) \ {p} ELSE Range(Q[q])
  <2> TAKE q \in Queues
  <2>1. IsInjective(Q[q]) /\ Q[q] \in Seq(Procs)
    BY DEF AgreeOn
  <2>2. /\ list_delete_element(Q[q], p) \in Seq(Procs)
        /\ Range(list_delete_element(Q[q], p)) = Range(Q[q]) \ {p}
        /\ IsInjective(list_delete_element(Q[q], p))
    BY <2>1, DeleteElement
  <2> QED  BY <2>1, <2>2 DEF Without
<1>2. W \in [Queues -> Seq(Procs)]
  BY <1>1 DEF Without
<1>3. \A q \in Queues, r \in Procs : r \in Range(W[q]) <=> q \in P[r]
  <2> TAKE q \in Queues, r \in Procs
  <2>1. r \in Range(Q[q]) <=> q \in O[r]
    BY DEF AgreeOn
  <2>2. P[r] = IF r = p THEN O[r] \ qs ELSE O[r]
    OBVIOUS
  <2> HIDE DEF W, P
  <2> QED  BY <1>1, <2>1, <2>2
<1> HIDE DEF W, P
<1>4. AgreeOn(W, P, T, S)
  BY <1>1, <1>3 DEF AgreeOn
<1> QED  BY <1>2, <1>4 DEF W, P

(* A process that leaves the sleep queue loses its node.                   *)
LEMMA TimerAgrees ==
  ASSUME NEW Q, NEW O, NEW T \in [Procs -> TimerKinds], NEW S, NEW p \in Procs,
         AgreeOn(Q, O, T, S),
         NEW S1, IsInjective(S1), Range(S1) = Range(S) \ {p}
  PROVE  /\ [T EXCEPT ![p] = "none"] \in [Procs -> TimerKinds]
         /\ AgreeOn(Q, O, [T EXCEPT ![p] = "none"], S1)
<1> DEFINE T1 == [T EXCEPT ![p] = "none"]
<1>1. T1 \in [Procs -> TimerKinds]
  BY DEF TimerKinds
<1>2. \A r \in Procs : r \in Range(S) <=> T[r] # "none"
  BY DEF AgreeOn
<1>3. \A r \in Procs : r \in Range(S1) <=> T1[r] # "none"
  BY <1>2
<1> HIDE DEF T1
<1>4. AgreeOn(Q, O, T1, S1)
  BY <1>3 DEF AgreeOn
<1> QED  BY <1>1, <1>4 DEF T1

(* mark_ready takes the process off every wait queue and the sleep queue.  *)
LEMMA UnblockAgrees ==
  ASSUME NEW Q \in [Queues -> Seq(Procs)], NEW O \in [Procs -> SUBSET Queues],
         NEW T \in [Procs -> TimerKinds], NEW S \in Seq(Procs), NEW p \in Procs,
         AgreeOn(Q, O, T, S)
  PROVE  LET Q1 == Without(Q, p, O[p])
             O1 == [O EXCEPT ![p] = {}]
             T1 == [T EXCEPT ![p] = "none"]
             S1 == IF T[p] # "none" THEN list_delete_element(S, p) ELSE S
         IN  /\ Q1 \in [Queues -> Seq(Procs)]
             /\ O1 \in [Procs -> SUBSET Queues]
             /\ T1 \in [Procs -> TimerKinds]
             /\ S1 \in Seq(Procs)
             /\ AgreeOn(Q1, O1, T1, S1)
<1> DEFINE Q1 == Without(Q, p, O[p])
           O1 == [O EXCEPT ![p] = {}]
           T1 == [T EXCEPT ![p] = "none"]
           S1 == IF T[p] # "none" THEN list_delete_element(S, p) ELSE S
<1>1. Q1 \in [Queues -> Seq(Procs)] /\ AgreeOn(Q1, [O EXCEPT ![p] = @ \ O[p]], T, S)
  BY WithoutAgrees
<1>2. O1 = [O EXCEPT ![p] = @ \ O[p]]
  OBVIOUS
<1>3. IsInjective(S) /\ \A r \in Procs : r \in Range(S) <=> T[r] # "none"
  BY DEF AgreeOn
<1>4. /\ S1 \in Seq(Procs)
      /\ IsInjective(S1)
      /\ Range(S1) = Range(S) \ {p}
  <2>1. /\ list_delete_element(S, p) \in Seq(Procs)
        /\ Range(list_delete_element(S, p)) = Range(S) \ {p}
        /\ IsInjective(list_delete_element(S, p))
    BY <1>3, DeleteElement
  <2>2. CASE T[p] = "none"
    BY <1>3, <2>2
  <2>3. CASE T[p] # "none"
    BY <2>1, <2>3
  <2> QED  BY <2>2, <2>3
<1>5. O1 \in [Procs -> SUBSET Queues]
  OBVIOUS
<1> HIDE DEF Q1, O1, S1
<1>6. T1 \in [Procs -> TimerKinds] /\ AgreeOn(Q1, O1, T1, S1)
  BY <1>1, <1>2, <1>4, TimerAgrees
<1> QED  BY <1>1, <1>4, <1>5, <1>6 DEF Q1, O1, S1

(* The invariants of ready queue and blocks as relations between values:   *)
(* process states st, owner of the CPU run, ready queue R.                 *)
Runnable == {"starting", "running"}

ReadyOn(st, run, R) ==
  /\ IsInjective(R)
  /\ \A p \in Procs : p \in Range(R) <=> st[p] \in Runnable /\ p # run

SleepsOn(st, O, T, p) ==
  O[p] # {} \/ T[p] # "none" => st[p] = "sleeping"

OthersSleep(st, O, T, p) == \A r \in Procs : r # p => SleepsOn(st, O, T, r)

(* The CPU passes neither to nor from a runnable process other than p.     *)
SameCpu(st, run, run1, p) ==
  \A r \in Procs : r # p /\ st[r] \in Runnable => (r = run <=> r = run1)

Coherent(st, run, R, Q, O, T, S) ==
  /\ st \in [Procs -> States]
  /\ R \in Seq(Procs)
  /\ Q \in [Queues -> Seq(Procs)]
  /\ O \in [Procs -> SUBSET Queues]
  /\ T \in [Procs -> TimerKinds]
  /\ S \in Seq(Procs)
  /\ ReadyOn(st, run, R)
  /\ AgreeOn(Q, O, T, S)
  /\ \A p \in Procs : SleepsOn(st, O, T, p)

LEMMA CoherentNow ==
  ASSUME IInv
  PROVE  Coherent(state, Running, ready_queue, queue, owners, timer, sleep_queue)
<1>1. ReadyOn(state, Running, ready_queue)
  BY DEF IInv, ReadyQueueExact, ReadyOn, Schedulable, Runnable
<1>2. \A r \in Procs : SleepsOn(state, owners, timer, r)
  BY DEF IInv, BlockedAreAsleep, SleepsOn
<1> QED  BY <1>1, <1>2 DEF Coherent, IInv, TypeOK, BlocksAgree, States, TimerKinds

LEMMA CoherentNext ==
  ASSUME Coherent(state', Running', ready_queue', queue', owners', timer', sleep_queue')
  PROVE  ReadyQueueExact' /\ BlocksAgree' /\ BlockedAreAsleep'
<1>1. ReadyQueueExact'
  BY DEF Coherent, ReadyQueueExact, ReadyOn, Schedulable, Runnable
<1>2. BlocksAgree'
  BY DEF Coherent, BlocksAgree
<1>3. BlockedAreAsleep'
  BY DEF Coherent, BlockedAreAsleep, SleepsOn
<1> QED  BY <1>1, <1>2, <1>3

(* Everything mark_ready does to a process that is not on the ready queue. *)
LEMMA Woken ==
  ASSUME NEW st \in [Procs -> States], NEW run, NEW run1,
         NEW R \in Seq(Procs), NEW p \in Procs,
         NEW Q \in [Queues -> Seq(Procs)], NEW O \in [Procs -> SUBSET Queues],
         NEW T \in [Procs -> TimerKinds], NEW S \in Seq(Procs),
         ReadyOn(st, run, R), AgreeOn(Q, O, T, S), OthersSleep(st, O, T, p),
         SameCpu(st, run, run1, p), p \notin Range(R), run1 # p
  PROVE  Coherent([st EXCEPT ![p] = "running"], run1, list_push_back(R, p),
                  Without(Q, p, O[p]), [O EXCEPT ![p] = {}],
                  [T EXCEPT ![p] = "none"],
                  IF T[p] # "none" THEN list_delete_element(S, p) ELSE S)
<1> DEFINE st1 == [st EXCEPT ![p] = "running"]
           R1 == list_push_back(R, p)
           Q1 == Without(Q, p, O[p])
           O1 == [O EXCEPT ![p] = {}]
           T1 == [T EXCEPT ![p] = "none"]
           S1 == IF T[p] # "none" THEN list_delete_element(S, p) ELSE S
<1>1. IsInjective(R)
  BY DEF ReadyOn
<1>2. R1 \in Seq(Procs) /\ Range(R1) = Range(R) \cup {p} /\ IsInjective(R1)
  BY <1>1, PushBack
<1>3. /\ st1 \in [Procs -> States]
      /\ \A r \in Procs : st1[r] = IF r = p THEN "running" ELSE st[r]
      /\ \A r \in Procs : O1[r] = IF r = p THEN {} ELSE O[r]
      /\ \A r \in Procs : T1[r] = IF r = p THEN "none" ELSE T[r]
  BY DEF States
<1>4. /\ Q1 \in [Queues -> Seq(Procs)]
      /\ O1 \in [Procs -> SUBSET Queues]
      /\ T1 \in [Procs -> TimerKinds]
      /\ S1 \in Seq(Procs)
      /\ AgreeOn(Q1, O1, T1, S1)
  BY UnblockAgrees
<1> HIDE DEF st1, R1, Q1, O1, T1, S1
<1>5. ReadyOn(st1, run1, R1)
  <2>1. ASSUME NEW r \in Procs
        PROVE  r \in Range(R1) <=> st1[r] \in Runnable /\ r # run1
    <3>1. r \in Range(R) <=> st[r] \in Runnable /\ r # run
      BY DEF ReadyOn
    <3>2. r # p /\ st[r] \in Runnable => (r = run <=> r = run1)
      BY DEF SameCpu
    <3> QED  BY <1>2, <1>3, <3>1, <3>2 DEF Runnable
  <2> QED  BY <1>2, <2>1 DEF ReadyOn
<1>6. \A r \in Procs : SleepsOn(st1, O1, T1, r)
  BY <1>3 DEF SleepsOn, OthersSleep
<1>7. Coherent(st1, run1, R1, Q1, O1, T1, S1)
  BY <1>2, <1>3, <1>4, <1>5, <1>6 DEF Coherent
<1> QED  BY <1>7 DEF st1, R1, Q1, O1, T1, S1

----------------------------------------------------------------------------
(* Steps that leave states, queues and process tree alone.                 *)
LEMMA QuietStep ==
  ASSUME IInv, kpc # "switch", kpc' # "switch",
         UNCHANGED <<schedVars, timer, sleep_queue, blockVars, parent>>
  PROVE  ReadyQueueExact' /\ BlocksAgree' /\ BlockedAreAsleep' /\ ParentsAreAlive'
<1> USE DEF schedVars, blockVars
<1>1. ReadyQueueExact'
  BY DEF IInv, ReadyQueueExact, Schedulable, Running
<1>2. BlocksAgree'
  BY DEF IInv, BlocksAgree
<1>3. BlockedAreAsleep'
  BY DEF IInv, BlockedAreAsleep
<1>4. ParentsAreAlive'
  BY DEF IInv, ParentsAreAlive
<1> QED  BY <1>1, <1>2, <1>3, <1>4

LEMMA QuietActions ==
  ASSUME IInv,
         \/ Tick \/ ResumeUser \/ ResumeDriver \/ ResumeSleep \/ ResumeSelect
         \/ \E q \in BlockQs \cup SelectQs : WakeupQueue(q)
         \/ WakeupDone \/ NoSignal
         \/ \E p \in Procs, act \in SigActs : SigAct(p, act[1], act[2])
         \/ \E p \in Procs, how \in {"cycle", "zombie"} : InUser(p) /\ Lose(how)
  PROVE  IInv'
<1> USE DEF schedVars, timerVars, blockVars, flagVars, sigVars, treeVars,
            callVars, cpuVars, Return, InUser
<1>1. /\ kpc # "switch" /\ kpc' # "switch"
      /\ UNCHANGED <<schedVars, timer, sleep_queue, blockVars, parent>>
      /\ UNCHANGED <<queue, owners, interrupted, signal_queue, group_id, target, kcont>>
      /\ kq' \in Queues \cup {None}
      /\ kpc' \in {"user", "timing", "wake", "signals", "cycle", "zombie"}
      /\ kpc' = "wake" => kq' \in Queues
      /\ kpc' = "signals" => current \in Procs
      /\ kcont = "none"
  BY DEF IInv, TypeOK, ControlOK, Queues, Tick, ResumeUser, ResumeDriver, ResumeSleep,
         ResumeSelect, WakeupQueue, WakeupDone, NoSignal, SigAct, Lose
<1>2. ReadyQueueExact' /\ BlocksAgree' /\ BlockedAreAsleep' /\ ParentsAreAlive'
  BY <1>1, QuietStep
<1>3. ControlOK'
  BY <1>1 DEF IInv, ControlOK, Schedulable
<1>4. InitIsSafe'
  BY <1>1 DEF IInv, InitIsSafe
<1>5. /\ left' \in [Procs -> Nat]
      /\ select_wait' \in [Procs -> SelectQs \cup {None}]
      /\ handler' \in [Procs -> [Signals -> Dispositions]]
      /\ cont' \in [Procs -> {"none", "irq", "fork", "queue", "sleep", "select", "pause", "waitpid"}]
      /\ asked' \in [Procs -> SUBSET SelectQs]
  <2> USE DEF Tick, ResumeUser, ResumeDriver, ResumeSleep, ResumeSelect,
              WakeupQueue, WakeupDone, NoSignal, SigAct, Lose
  <2>1. left' \in [Procs -> Nat]
    BY DEF IInv, TypeOK
  <2>2. select_wait' \in [Procs -> SelectQs \cup {None}]
    BY DEF IInv, TypeOK
  <2>3. \A act \in SigActs : act[1] \in Signals /\ act[2] \in Dispositions
    BY SignalsAssumption
  <2>4. handler' \in [Procs -> [Signals -> Dispositions]]
    <3>1. handler \in [Procs -> [Signals -> Dispositions]]
      BY DEF IInv, TypeOK
    <3> QED  BY <2>3, <3>1
  <2>5. cont' \in [Procs -> {"none", "irq", "fork", "queue", "sleep", "select", "pause", "waitpid"}]
    BY DEF IInv, TypeOK
  <2>6. asked' \in [Procs -> SUBSET SelectQs]
    BY DEF IInv, TypeOK
  <2> QED  BY <2>1, <2>2, <2>4, <2>5, <2>6
<1>6. TypeOK'
  BY <1>1, <1>5 DEF IInv, TypeOK
<1> QED  BY <1>2, <1>3, <1>4, <1>6 DEF IInv
----------------------------------------------------------------------------
(* Steps that wake up one sleeping process.                                *)

(* A flag that is set for one process stays a flag.                        *)
LEMMA FlagType ==
  ASSUME NEW f \in [Procs -> BOOLEAN], NEW p \in Procs, NEW v
  PROVE  [f EXCEPT ![p] = @ \/ v] \in [Procs -> BOOLEAN]
<1>1. (f[p] \/ v) \in BOOLEAN
  OBVIOUS
<1> DEFINE w == f[p] \/ v
<1> HIDE DEF w
<1>2. [f EXCEPT ![p] = w] \in [Procs -> BOOLEAN]
  BY <1>1 DEF w
<1> QED  BY <1>2 DEF w

(* The process that owns the CPU is not asleep.                            *)
LEMMA CpuNotAsleep ==
  ASSUME IInv, kpc # "switch", NEW p \in Procs, state[p] = "sleeping"
  PROVE  current # p
<1>1. CASE kcont = "none"
  BY <1>1, ProcsAssumption DEF IInv, ControlOK, Schedulable
<1>2. CASE kcont = "exit"
  BY <1>2 DEF IInv, ControlOK
<1> QED  BY <1>1, <1>2 DEF IInv, TypeOK

(* What mark_ready does to the primed variables.                           *)
LEMMA MarkReadyEffect ==
  ASSUME IInv, NEW p \in Procs, NEW Q \in [Queues -> Seq(Procs)],
         NEW O \in [Procs -> SUBSET Queues], NEW T \in [Procs -> TimerKinds],
         NEW S \in Seq(Procs),
         AgreeOn(Q, O, T, S), OthersSleep(state, O, T, p),
         SameCpu(state, Running, Running', p), Running' # p,
         state[p] = "sleeping" \/ p = Running,
         MarkReady(p, Q, O, T, S)
  PROVE  /\ Coherent(state', Running', ready_queue', queue', owners', timer', sleep_queue')
         /\ state' = [state EXCEPT ![p] = "running"]
         /\ left' \in [Procs -> Nat]
         /\ interrupted' \in [Procs -> BOOLEAN]
<1>1. /\ state \in [Procs -> States]
      /\ ready_queue \in Seq(Procs)
      /\ ReadyOn(state, Running, ready_queue)
      /\ p \notin Range(ready_queue)
  BY CoherentNow DEF Coherent, ReadyOn, Runnable
<1>2. Coherent([state EXCEPT ![p] = "running"], Running', list_push_back(ready_queue, p),
               Without(Q, p, O[p]), [O EXCEPT ![p] = {}],
               [T EXCEPT ![p] = "none"],
               IF T[p] # "none" THEN list_delete_element(S, p) ELSE S)
  BY <1>1, Woken
<1>3. Coherent(state', Running', ready_queue', queue', owners', timer', sleep_queue')
  BY <1>2 DEF MarkReady
<1>4. left' \in [Procs -> Nat]
  BY DEF MarkReady, IInv, TypeOK
<1>5. interrupted' \in [Procs -> BOOLEAN]
  BY FlagType DEF MarkReady, IInv, TypeOK
<1> QED  BY <1>3, <1>4, <1>5 DEF MarkReady

(* The rest of the invariant after a step that wakes up p.                 *)
LEMMA AfterWake ==
  ASSUME IInv, NEW p \in Procs, state[p] = "sleeping",
         Coherent(state', Running', ready_queue', queue', owners', timer', sleep_queue'),
         state' = [state EXCEPT ![p] = "running"],
         left' \in [Procs -> Nat],
         interrupted' \in [Procs -> BOOLEAN],
         select_wait' \in [Procs -> SelectQs \cup {None}],
         UNCHANGED <<current, sigVars, treeVars, callVars, cpuVars>>
  PROVE  IInv'
<1> USE DEF sigVars, treeVars, callVars, cpuVars
<1>1. ReadyQueueExact' /\ BlocksAgree' /\ BlockedAreAsleep'
  BY CoherentNext
<1>2. \A r \in Procs : state'[r] = IF r = p THEN "running" ELSE state[r]
  BY DEF IInv, TypeOK
<1>3. TypeOK'
  BY DEF IInv, TypeOK, Coherent, States, TimerKinds
<1>4. ParentsAreAlive'
  BY <1>2 DEF IInv, ParentsAreAlive
<1>5. ControlOK'
  BY <1>2 DEF IInv, ControlOK, Schedulable
<1>6. InitIsSafe'
  BY <1>2, ProcsAssumption DEF IInv, InitIsSafe
<1> QED  BY <1>1, <1>3, <1>4, <1>5, <1>6 DEF IInv

(* Popping the last process p of queue k.                                  *)
LEMMA PopAgrees ==
  ASSUME NEW Q \in [Queues -> Seq(Procs)], NEW O \in [Procs -> SUBSET Queues],
         NEW T, NEW S, NEW k \in Queues, Q[k] # << >>, AgreeOn(Q, O, T, S)
  PROVE  LET p == list_tail(Q[k])
             Q1 == [Q EXCEPT ![k] = list_pop_back(@)]
             O1 == [O EXCEPT ![p] = @ \ {k}]
         IN  /\ p \in Procs
             /\ k \in O[p]
             /\ Q1 \in [Queues -> Seq(Procs)]
             /\ O1 \in [Procs -> SUBSET Queues]
             /\ AgreeOn(Q1, O1, T, S)
<1> DEFINE p == list_tail(Q[k])
           Q1 == [Q EXCEPT ![k] = list_pop_back(@)]
           O1 == [O EXCEPT ![p] = @ \ {k}]
<1>1. Q[k] \in Seq(Procs) /\ IsInjective(Q[k])
  BY DEF AgreeOn
<1>2. /\ p \in Procs
      /\ p \in Range(Q[k])
      /\ list_pop_back(Q[k]) \in Seq(Procs)
      /\ IsInjective(list_pop_back(Q[k]))
      /\ Range(list_pop_back(Q[k])) = Range(Q[k]) \ {p}
  BY <1>1, PopBack
<1> HIDE DEF p
<1>3. k \in O[p]
  BY <1>2 DEF AgreeOn
<1>4. \A q \in Queues :
        /\ Q1[q] \in Seq(Procs)
        /\ IsInjective(Q1[q])
        /\ Range(Q1[q]) = IF q = k THEN Range(Q[q]) \ {p} ELSE Range(Q[q])
  BY <1>2 DEF AgreeOn
<1>5. Q1 \in [Queues -> Seq(Procs)]
  BY <1>2
<1>6. O1 \in [Procs -> SUBSET Queues]
  BY <1>2
<1>7. \A q \in Queues, r \in Procs : r \in Range(Q1[q]) <=> q \in O1[r]
  <2> TAKE q \in Queues, r \in Procs
  <2>1. r \in Range(Q[q]) <=> q \in O[r]
    BY DEF AgreeOn
  <2>2. O1[r] = IF r = p THEN O[r] \ {k} ELSE O[r]
    BY <1>2
  <2> HIDE DEF Q1, O1
  <2> QED  BY <1>4, <2>1, <2>2
<1> HIDE DEF Q1, O1
<1>8. AgreeOn(Q1, O1, T, S)
  BY <1>4, <1>7 DEF AgreeOn
<1> QED  BY <1>2, <1>3, <1>5, <1>6, <1>8 DEF p, Q1, O1

(* One round of the driver wakeup loop.                                    *)
LEMMA WakeupSingleStep ==
  ASSUME IInv, WakeupSingle
  PROVE  IInv'
<1> DEFINE p == list_tail(queue[kq])
           Q == [queue EXCEPT ![kq] = list_pop_back(@)]
           O == [owners EXCEPT ![p] = @ \ {kq}]
<1>1. kpc = "wake" /\ kq \in Queues /\ queue[kq] # << >>
  BY DEF WakeupSingle, IInv, ControlOK
<1>2. Coherent(state, Running, ready_queue, queue, owners, timer, sleep_queue)
  BY CoherentNow
<1>3. /\ p \in Procs
      /\ kq \in owners[p]
      /\ Q \in [Queues -> Seq(Procs)]
      /\ O \in [Procs -> SUBSET Queues]
      /\ AgreeOn(Q, O, timer, sleep_queue)
  BY <1>1, <1>2, PopAgrees DEF Coherent
<1>4. OthersSleep(state, O, timer, p)
  BY <1>2, <1>3 DEF OthersSleep, SleepsOn, Coherent
<1>5. state[p] = "sleeping"
  BY <1>2, <1>3 DEF SleepsOn, Coherent
<1>6. /\ MarkReady(p, Q, O, timer, sleep_queue)
      /\ UNCHANGED <<current, select_wait, sigVars, treeVars, callVars, cpuVars>>
  BY <1>5 DEF WakeupSingle, Schedulable
<1>7. Running' = current /\ Running = current /\ current # p
  BY <1>1, <1>3, <1>5, <1>6, CpuNotAsleep DEF Running, cpuVars
<1>8. SameCpu(state, Running, Running', p)
  BY <1>7 DEF SameCpu
<1> HIDE DEF p, Q, O
<1>9. /\ Coherent(state', Running', ready_queue', queue', owners', timer', sleep_queue')
      /\ state' = [state EXCEPT ![p] = "running"]
      /\ left' \in [Procs -> Nat]
      /\ interrupted' \in [Procs -> BOOLEAN]
  BY <1>2, <1>3, <1>4, <1>5, <1>6, <1>7, <1>8, MarkReadyEffect DEF Coherent
<1> QED  BY <1>3, <1>5, <1>6, <1>9, AfterWake DEF IInv, TypeOK

(* One round of the wakeup loop of a select queue.                         *)
LEMMA WakeupSingleSelectStep ==
  ASSUME IInv, WakeupSingleSelect
  PROVE  IInv'
<1> DEFINE p == list_tail(queue[kq])
           Q1 == [queue EXCEPT ![kq] = list_pop_back(@)]
           O1 == [owners EXCEPT ![p] = @ \ {kq}]
           Q == Without(Q1, p, owners[p] \ {kq})
           O == [owners EXCEPT ![p] = {}]
           S == IF timer[p] = "timeout"
                THEN list_delete_element(sleep_queue, p) ELSE sleep_queue
           T == [timer EXCEPT ![p] = IF @ = "timeout" THEN "none" ELSE @]
<1>1. kpc = "wake" /\ kq \in SelectQs /\ kq \in Queues /\ queue[kq] # << >>
  BY DEF WakeupSingleSelect, IInv, ControlOK
<1>2. Coherent(state, Running, ready_queue, queue, owners, timer, sleep_queue)
  BY CoherentNow
<1>3. /\ p \in Procs
      /\ kq \in owners[p]
      /\ Q1 \in [Queues -> Seq(Procs)]
      /\ O1 \in [Procs -> SUBSET Queues]
      /\ AgreeOn(Q1, O1, timer, sleep_queue)
  BY <1>1, <1>2, PopAgrees DEF Coherent
<1>4. state[p] = "sleeping"
  BY <1>2, <1>3 DEF SleepsOn, Coherent
<1>5. /\ MarkReady(p, Q, O, T, S)
      /\ select_wait' = [select_wait EXCEPT ![p] = kq]
      /\ UNCHANGED <<current, sigVars, treeVars, callVars, cpuVars>>
  BY <1>4 DEF WakeupSingleSelect, Schedulable
<1> HIDE DEF p
<1>6. /\ Q \in [Queues -> Seq(Procs)]
      /\ O \in [Procs -> SUBSET Queues]
      /\ AgreeOn(Q, O, timer, sleep_queue)
  <2>1. owners \in [Procs -> SUBSET Queues]
    BY <1>2 DEF Coherent
  <2>2. O1[p] = owners[p] \ {kq}
    BY <1>3, <2>1
  <2>3. O = [O1 EXCEPT ![p] = @ \ (owners[p] \ {kq})]
    BY <1>3, <2>1, <2>2
  <2>4. O \in [Procs -> SUBSET Queues]
    BY <1>3, <2>1
  <2> HIDE DEF Q1, O1, O
  <2>5. (owners[p] \ {kq}) \in SUBSET O1[p]
    BY <2>2
  <2> QED  BY <1>3, <2>3, <2>4, <2>5, WithoutAgrees
<1> HIDE DEF Q, O
<1>7. /\ S \in Seq(Procs)
      /\ T \in [Procs -> TimerKinds]
      /\ AgreeOn(Q, O, T, S)
  <2>1. timer \in [Procs -> TimerKinds] /\ sleep_queue \in Seq(Procs)
    BY <1>2 DEF Coherent
  <2>2. CASE timer[p] = "timeout"
    <3>1. IsInjective(sleep_queue)
      BY <1>6 DEF AgreeOn
    <3>2. /\ list_delete_element(sleep_queue, p) \in Seq(Procs)
          /\ Range(list_delete_element(sleep_queue, p)) = Range(sleep_queue) \ {p}
          /\ IsInjective(list_delete_element(sleep_queue, p))
      BY <2>1, <3>1, DeleteElement
    <3>3. /\ [timer EXCEPT ![p] = "none"] \in [Procs -> TimerKinds]
          /\ AgreeOn(Q, O, [timer EXCEPT ![p] = "none"],
                     list_delete_element(sleep_queue, p))
      BY <1>3, <1>6, <2>1, <3>2, TimerAgrees
    <3> QED  BY <1>3, <2>2, <3>2, <3>3
  <2>3. CASE timer[p] # "timeout"
    <3>1. T = timer /\ S = sleep_queue
      BY <2>1, <2>3
    <3> QED  BY <1>6, <2>1, <3>1
  <2> QED  BY <2>2, <2>3
<1>8. OthersSleep(state, O, T, p)
  BY <1>2, <1>3 DEF OthersSleep, SleepsOn, Coherent, O
<1>9. Running' = current /\ Running = current /\ current # p
  BY <1>1, <1>3, <1>4, <1>5, CpuNotAsleep DEF Running, cpuVars
<1>10. SameCpu(state, Running, Running', p)
  BY <1>9 DEF SameCpu
<1> HIDE DEF S, T
<1>11. /\ Coherent(state', Running', ready_queue', queue', owners', timer', sleep_queue')
       /\ state' = [state EXCEPT ![p] = "running"]
       /\ left' \in [Procs -> Nat]
       /\ interrupted' \in [Procs -> BOOLEAN]
  BY <1>3, <1>4, <1>5, <1>6, <1>7, <1>8, <1>9, <1>10, MarkReadyEffect
<1>12. select_wait' \in [Procs -> SelectQs \cup {None}]
  BY <1>1, <1>5 DEF IInv, TypeOK
<1> QED  BY <1>3, <1>4, <1>5, <1>11, <1>12, AfterWake

(* One round of the timer's wakeup loop.                                   *)
LEMMA WakeupTimingStep ==
  ASSUME IInv, WakeupTiming
  PROVE  IInv'
<1> DEFINE p == list_head(sleep_queue)
           S == list_pop_front(sleep_queue)
           T == [timer EXCEPT ![p] = "none"]
           Q == IF timer[p] = "timeout" THEN Without(queue, p, owners[p]) ELSE queue
           O == IF timer[p] = "timeout" THEN [owners EXCEPT ![p] = {}] ELSE owners
<1>1. kpc = "timing" /\ sleep_queue # << >>
  BY DEF WakeupTiming, Expired
<1>2. Coherent(state, Running, ready_queue, queue, owners, timer, sleep_queue)
  BY CoherentNow
<1>3. sleep_queue \in Seq(Procs) /\ IsInjective(sleep_queue)
  BY <1>2 DEF Coherent, AgreeOn
<1>4. /\ p \in Procs
      /\ p \in Range(sleep_queue)
      /\ S \in Seq(Procs)
      /\ IsInjective(S)
      /\ Range(S) = Range(sleep_queue) \ {p}
  BY <1>1, <1>3, PopFront
<1>5. state[p] = "sleeping"
  <2>1. timer[p] # "none"
    BY <1>2, <1>4 DEF Coherent, AgreeOn
  <2> QED  BY <1>2, <1>4, <2>1 DEF Coherent, SleepsOn
<1>6. /\ MarkReady(p, Q, O, T, S)
      /\ UNCHANGED <<current, sigVars, treeVars, callVars, cpuVars>>
  BY <1>5 DEF WakeupTiming
<1>7. select_wait' \in [Procs -> SelectQs \cup {None}]
  BY <1>5 DEF WakeupTiming, IInv, TypeOK
<1> HIDE DEF p, S
<1>8. /\ Q \in [Queues -> Seq(Procs)]
      /\ O \in [Procs -> SUBSET Queues]
      /\ AgreeOn(Q, O, timer, sleep_queue)
  <2>1. /\ queue \in [Queues -> Seq(Procs)]
        /\ owners \in [Procs -> SUBSET Queues]
        /\ AgreeOn(queue, owners, timer, sleep_queue)
    BY <1>2 DEF Coherent
  <2>2. [owners EXCEPT ![p] = {}] = [owners EXCEPT ![p] = @ \ owners[p]]
    OBVIOUS
  <2>3. /\ Without(queue, p, owners[p]) \in [Queues -> Seq(Procs)]
        /\ AgreeOn(Without(queue, p, owners[p]), [owners EXCEPT ![p] = @ \ owners[p]],
                   timer, sleep_queue)
    BY <1>4, <2>1, WithoutAgrees
  <2>4. [owners EXCEPT ![p] = {}] \in [Procs -> SUBSET Queues]
    BY <2>1
  <2> QED  BY <2>1, <2>2, <2>3, <2>4
<1>9. OthersSleep(state, O, T, p)
  BY <1>2, <1>4 DEF OthersSleep, SleepsOn, Coherent
<1> HIDE DEF Q, O
<1>10. T \in [Procs -> TimerKinds] /\ AgreeOn(Q, O, T, S)
  BY <1>2, <1>4, <1>8, TimerAgrees DEF Coherent
<1>11. Running' = current /\ Running = current /\ current # p
  BY <1>1, <1>4, <1>5, <1>6, CpuNotAsleep DEF Running, cpuVars
<1>12. SameCpu(state, Running, Running', p)
  BY <1>11 DEF SameCpu
<1> HIDE DEF T
<1>13. /\ Coherent(state', Running', ready_queue', queue', owners', timer', sleep_queue')
       /\ state' = [state EXCEPT ![p] = "running"]
       /\ left' \in [Procs -> Nat]
       /\ interrupted' \in [Procs -> BOOLEAN]
  BY <1>4, <1>5, <1>6, <1>8, <1>9, <1>10, <1>11, <1>12, MarkReadyEffect
<1> QED  BY <1>4, <1>5, <1>6, <1>7, <1>13, AfterWake
----------------------------------------------------------------------------
(* The scheduler.                                                          *)

(* One round of k_proc_process_switch.                                     *)
LEMMA SwitchStep ==
  ASSUME IInv, Switch
  PROVE  IInv'
<1> USE DEF timerVars, blockVars, flagVars, sigVars, treeVars, callVars
<1>1. /\ kpc = "switch" /\ kcont = "none" /\ Running = None
      /\ UNCHANGED <<timerVars, blockVars, flagVars, sigVars, treeVars, callVars,
                     kq, kcont>>
  BY DEF Switch, Running, IInv, ControlOK, TypeOK
<1>2. Coherent(state, None, ready_queue, queue, owners, timer, sleep_queue)
  BY <1>1, CoherentNow
<1>3. None \notin Procs /\ Idle \notin Procs
  BY ProcsAssumption DEF Queues
<1>4. CASE ready_queue = << >>
  <2>1. current' = Idle /\ kpc' = "user" /\ UNCHANGED <<state, ready_queue>>
    BY <1>4 DEF Switch
  <2>2. ReadyOn(state, Idle, ready_queue)
    BY <1>2, <1>3 DEF Coherent, ReadyOn
  <2>3. Running' = Idle
    BY <2>1 DEF Running
  <2>4. Coherent(state', Running', ready_queue', queue', owners', timer', sleep_queue')
    BY <1>1, <1>2, <2>1, <2>2, <2>3 DEF Coherent
  <2>5. ReadyQueueExact' /\ BlocksAgree' /\ BlockedAreAsleep'
    BY <2>4, CoherentNext
  <2>6. TypeOK'
    BY <1>1, <2>1 DEF IInv, TypeOK
  <2>7. ParentsAreAlive' /\ InitIsSafe'
    BY <1>1, <2>1 DEF IInv, ParentsAreAlive, InitIsSafe
  <2>8. ControlOK'
    BY <1>1, <2>1 DEF IInv, ControlOK
  <2> QED  BY <2>5, <2>6, <2>7, <2>8 DEF IInv
<1>5. CASE ready_queue # << >>
  <2> DEFINE p == list_head(ready_queue)
             R == list_pop_front(ready_queue)
  <2>1. ready_queue \in Seq(Procs) /\ IsInjective(ready_queue)
    BY <1>2 DEF Coherent, ReadyOn
  <2>2. /\ p \in Procs /\ p \in Range(ready_queue)
        /\ R \in Seq(Procs) /\ IsInjective(R)
        /\ Range(R) = Range(ready_queue) \ {p}
    BY <1>5, <2>1, PopFront
  <2>3. state[p] \in Runnable
    BY <1>2, <2>2 DEF Coherent, ReadyOn
  <2>4. /\ ready_queue' = R /\ current' = p /\ kpc' = "resume"
        /\ state' = [state EXCEPT ![p] = "running"]
    BY <1>5, <2>3 DEF Switch, Schedulable, Runnable
  <2> HIDE DEF p, R
  <2>5. /\ state \in [Procs -> States] /\ state' \in [Procs -> States]
        /\ \A r \in Procs : state'[r] = IF r = p THEN "running" ELSE state[r]
        /\ Running' = p
    BY <1>2, <2>4 DEF Coherent, States, Running
  <2>6. ReadyOn(state', Running', ready_queue')
    <3>1. ASSUME NEW r \in Procs
          PROVE  r \in Range(R) <=> state'[r] \in Runnable /\ r # p
      <4>1. r \in Range(ready_queue) <=> state[r] \in Runnable /\ r # None
        BY <1>2 DEF Coherent, ReadyOn
      <4> QED  BY <1>3, <2>2, <2>5, <4>1
    <3> QED  BY <2>2, <2>4, <2>5, <3>1 DEF ReadyOn
  <2>7. \A r \in Procs : SleepsOn(state', owners', timer', r)
    BY <1>1, <1>2, <2>3, <2>5 DEF Coherent, SleepsOn, Runnable
  <2>8. Coherent(state', Running', ready_queue', queue', owners', timer', sleep_queue')
    BY <1>1, <1>2, <2>2, <2>4, <2>5, <2>6, <2>7 DEF Coherent
  <2>9. ReadyQueueExact' /\ BlocksAgree' /\ BlockedAreAsleep'
    BY <2>8, CoherentNext
  <2>10. TypeOK'
    BY <1>1, <2>2, <2>4, <2>8 DEF IInv, TypeOK, Coherent, States, TimerKinds
  <2>11. ParentsAreAlive'
    BY <1>1, <2>3, <2>5 DEF IInv, ParentsAreAlive, Runnable
  <2>12. InitIsSafe'
    BY <1>1, <2>3, <2>5, ProcsAssumption DEF IInv, InitIsSafe, Runnable
  <2>13. ControlOK'
    BY <1>1, <2>2, <2>4, <2>5 DEF IInv, ControlOK, Schedulable
  <2> QED  BY <2>9, <2>10, <2>11, <2>12, <2>13 DEF IInv
<1> QED  BY <1>4, <1>5

Conts == {"none", "irq", "fork", "queue", "sleep", "select", "pause", "waitpid"}

(* In user mode, on a resume or in the timer interrupt, the process that   *)
(* owns the CPU is runnable and nothing but the idle process can replace it.*)
LEMMA CpuRunnable ==
  ASSUME IInv, kpc \notin {"switch", "wake"}
  PROVE  /\ kcont = "none"
         /\ Running = current
         /\ current = Idle \/ (current \in Procs /\ state[current] \in Runnable)
<1>1. kcont = "none"
  BY DEF IInv, TypeOK, ControlOK
<1>2. Running = current
  BY DEF Running
<1>3. current \in Procs \cup {Idle}
  BY DEF IInv, TypeOK
<1>4. current = Idle \/ Schedulable(current)
  BY <1>1 DEF IInv, ControlOK
<1> QED  BY <1>1, <1>2, <1>3, <1>4 DEF Schedulable, Runnable

(* The end of the timer interrupt.                                         *)
LEMMA PreemptStep ==
  ASSUME IInv, Preempt
  PROVE  IInv'
<1> USE DEF timerVars, blockVars, flagVars, sigVars, treeVars, callVars
<1>1. /\ kpc = "timing" /\ kpc' = "switch" /\ Running' = None
      /\ UNCHANGED <<current, select_wait, sigVars, treeVars, asked, target, kq, kcont>>
  BY DEF Preempt, Running
<1>2. /\ kcont = "none" /\ Running = current
      /\ current = Idle \/ (current \in Procs /\ state[current] \in Runnable)
  BY <1>1, CpuRunnable
<1>3. Coherent(state, Running, ready_queue, queue, owners, timer, sleep_queue)
  BY CoherentNow
<1>4. None \notin Procs /\ Idle \notin Procs
  BY ProcsAssumption DEF Queues
<1>5. /\ Coherent(state', Running', ready_queue', queue', owners', timer', sleep_queue')
      /\ state' \in [Procs -> States]
      /\ \A r \in Procs : state'[r] # state[r] =>
                            state[r] \in Runnable /\ state'[r] \in Runnable
      /\ left' \in [Procs -> Nat]
      /\ interrupted' \in [Procs -> BOOLEAN]
      /\ cont' \in [Procs -> Conts]
  <2>1. CASE current = Idle
    <3>1. UNCHANGED <<state, ready_queue, timerVars, blockVars, interrupted, cont>>
      BY <2>1 DEF Preempt
    <3>2. ReadyOn(state, None, ready_queue)
      BY <1>2, <1>3, <1>4, <2>1 DEF Coherent, ReadyOn
    <3>3. Coherent(state', Running', ready_queue', queue', owners', timer', sleep_queue')
      BY <1>1, <1>3, <3>1, <3>2 DEF Coherent
    <3> QED  BY <3>1, <3>3 DEF IInv, TypeOK, Coherent, Conts
  <2>2. CASE current \in Procs
    <3>1. /\ MarkReady(current, queue, owners, timer, sleep_queue)
          /\ cont' = [cont EXCEPT ![current] = "irq"]
      BY <1>2, <1>4, <2>2 DEF Preempt, Schedulable, Runnable
    <3>2. SameCpu(state, Running, Running', current)
      BY <1>1, <1>2, <1>4 DEF SameCpu
    <3>3. OthersSleep(state, owners, timer, current)
      BY <1>3 DEF OthersSleep, Coherent
    <3>4. /\ queue \in [Queues -> Seq(Procs)] /\ owners \in [Procs -> SUBSET Queues]
          /\ timer \in [Procs -> TimerKinds] /\ sleep_queue \in Seq(Procs)
          /\ AgreeOn(queue, owners, timer, sleep_queue)
          /\ state \in [Procs -> States]
      BY <1>3 DEF Coherent
    <3>5. Running' # current /\ current = Running
      BY <1>1, <1>2, <1>4, <2>2
    <3>6. /\ Coherent(state', Running', ready_queue', queue', owners', timer', sleep_queue')
          /\ state' = [state EXCEPT ![current] = "running"]
          /\ left' \in [Procs -> Nat]
          /\ interrupted' \in [Procs -> BOOLEAN]
      BY <2>2, <3>1, <3>2, <3>3, <3>4, <3>5, MarkReadyEffect
    <3>7. cont' \in [Procs -> Conts]
      BY <3>1 DEF IInv, TypeOK, Conts
    <3> QED  BY <1>2, <1>4, <2>2, <3>4, <3>6, <3>7 DEF States, Runnable
  <2> QED  BY <1>2, <2>1, <2>2
<1>6. ReadyQueueExact' /\ BlocksAgree' /\ BlockedAreAsleep'
  BY <1>5, CoherentNext
<1>7. TypeOK'
  BY <1>1, <1>5 DEF IInv, TypeOK, Coherent, States, TimerKinds, Conts
<1>8. ParentsAreAlive'
  BY <1>1, <1>5 DEF IInv, ParentsAreAlive, Runnable
<1>9. InitIsSafe'
  BY <1>1, <1>5, ProcsAssumption DEF IInv, InitIsSafe, Runnable
<1>10. ControlOK'
  BY <1>1, <1>2 DEF ControlOK
<1> QED  BY <1>6, <1>7, <1>8, <1>9, <1>10 DEF IInv
----------------------------------------------------------------------------
(* Steps in which the running process falls asleep.                        *)

(* Process p appended to the queues in qs; no timer but p's touched.       *)
Enqueued(Q, p, qs) ==
  [q \in Queues |-> IF q \in qs THEN list_push_back(Q[q], p) ELSE Q[q]]

OthersKeep(T, T1, p) == \A r \in Procs : r # p => T1[r] = T[r]

(* The running process p gets on the queues in qs.  T1 and S1 are the timer*)
(* nodes and the sleep queue after it, perhaps, got a node of its own.     *)
LEMMA Asleep ==
  ASSUME NEW p \in Procs, NEW qs \in SUBSET Queues, NEW st, NEW R, NEW Q, NEW O,
         NEW T, NEW S, Coherent(st, p, R, Q, O, T, S), st[p] \in Runnable,
         NEW T1 \in [Procs -> TimerKinds], NEW S1 \in Seq(Procs),
         AgreeOn(Q, O, T1, S1),
         OthersKeep(T, T1, p)
  PROVE  Coherent([st EXCEPT ![p] = "sleeping"], None, R,
                  Enqueued(Q, p, qs), [O EXCEPT ![p] = @ \cup qs], T1, S1)
<1> DEFINE st1 == [st EXCEPT ![p] = "sleeping"]
           Q1 == Enqueued(Q, p, qs)
           O1 == [O EXCEPT ![p] = @ \cup qs]
<1>1. /\ st \in [Procs -> States] /\ R \in Seq(Procs)
      /\ Q \in [Queues -> Seq(Procs)] /\ O \in [Procs -> SUBSET Queues]
      /\ ReadyOn(st, p, R)
  BY DEF Coherent
<1>2. O[p] = {}
  BY DEF Coherent, SleepsOn, Runnable
<1>3. /\ st1 \in [Procs -> States] /\ O1 \in [Procs -> SUBSET Queues]
      /\ \A r \in Procs : st1[r] = IF r = p THEN "sleeping" ELSE st[r]
      /\ \A r \in Procs : O1[r] = IF r = p THEN qs ELSE O[r]
  BY <1>1, <1>2 DEF States
<1>4. None \notin Procs
  BY ProcsAssumption DEF Queues
<1>5. \A q \in Queues :
        /\ Q1[q] \in Seq(Procs)
        /\ IsInjective(Q1[q])
        /\ Range(Q1[q]) = IF q \in qs THEN Range(Q[q]) \cup {p} ELSE Range(Q[q])
  <2> TAKE q \in Queues
  <2>1. IsInjective(Q[q]) /\ Q[q] \in Seq(Procs) /\ p \notin Range(Q[q])
    BY <1>1, <1>2 DEF AgreeOn
  <2>2. /\ list_push_back(Q[q], p) \in Seq(Procs)
        /\ Range(list_push_back(Q[q], p)) = Range(Q[q]) \cup {p}
        /\ IsInjective(list_push_back(Q[q], p))
    BY <2>1, PushBack
  <2> QED  BY <2>1, <2>2 DEF Enqueued
<1>6. Q1 \in [Queues -> Seq(Procs)]
  BY <1>5 DEF Enqueued
<1> HIDE DEF st1, Q1, O1
<1>7. ReadyOn(st1, None, R)
  <2>1. ASSUME NEW r \in Procs
        PROVE  r \in Range(R) <=> st1[r] \in Runnable /\ r # None
    <3>1. r \in Range(R) <=> st[r] \in Runnable /\ r # p
      BY <1>1 DEF ReadyOn
    <3> QED  BY <1>3, <1>4, <3>1 DEF Runnable
  <2> QED  BY <1>1, <2>1 DEF ReadyOn
<1>8. \A q \in Queues, r \in Procs : r \in Range(Q1[q]) <=> q \in O1[r]
  <2> TAKE q \in Queues, r \in Procs
  <2>1. r \in Range(Q[q]) <=> q \in O[r]
    BY DEF AgreeOn
  <2> QED  BY <1>2, <1>3, <1>5, <2>1
<1>9. AgreeOn(Q1, O1, T1, S1)
  BY <1>5, <1>8 DEF AgreeOn
<1>10. \A r \in Procs : SleepsOn(st1, O1, T1, r)
  <2> TAKE r \in Procs
  <2>1. SleepsOn(st, O, T, r)
    BY DEF Coherent
  <2> QED  BY <1>3, <2>1 DEF SleepsOn, OthersKeep
<1>11. Coherent(st1, None, R, Q1, O1, T1, S1)
  BY <1>1, <1>3, <1>6, <1>7, <1>9, <1>10 DEF Coherent
<1> QED  BY <1>11 DEF st1, Q1, O1

(* The rest of the invariant after such a step.                            *)
LEMMA AfterSleep ==
  ASSUME IInv, kpc \in {"user", "resume"}, NEW p \in Procs, current = p,
         Coherent(state', None, ready_queue', queue', owners', timer', sleep_queue'),
         state' = [state EXCEPT ![p] = "sleeping"],
         kpc' = "switch",
         left' \in [Procs -> Nat],
         interrupted' \in [Procs -> BOOLEAN],
         cont' \in [Procs -> Conts],
         asked' \in [Procs -> SUBSET SelectQs],
         target' \in [Procs -> Targets],
         UNCHANGED <<current, select_wait, sigVars, treeVars, kq, kcont>>
  PROVE  IInv'
<1> USE DEF sigVars, treeVars
<1>1. kcont = "none" /\ state[p] \in Runnable
  BY CpuRunnable, ProcsAssumption
<1>2. Running' = None
  BY DEF Running
<1>3. ReadyQueueExact' /\ BlocksAgree' /\ BlockedAreAsleep'
  BY <1>2, CoherentNext
<1>4. \A r \in Procs : state'[r] = IF r = p THEN "sleeping" ELSE state[r]
  BY DEF IInv, TypeOK
<1>5. TypeOK'
  BY DEF IInv, TypeOK, Coherent, States, TimerKinds, Conts
<1>6. ParentsAreAlive'
  BY <1>1, <1>4 DEF IInv, ParentsAreAlive, Runnable
<1>7. ControlOK'
  BY <1>1 DEF ControlOK
<1>8. InitIsSafe'
  BY <1>1, <1>4, ProcsAssumption DEF IInv, InitIsSafe, Runnable
<1> QED  BY <1>3, <1>5, <1>6, <1>7, <1>8 DEF IInv

(* SleepOn by the running process, with or without a timeout.              *)
LEMMA SleepOnStep ==
  ASSUME IInv, kpc \in {"user", "resume"}, NEW p \in Procs, current = p,
         NEW qs \in SUBSET Queues, NEW c \in Conts, SleepOn(p, qs, c),
         timer' \in [Procs -> TimerKinds], sleep_queue' \in Seq(Procs),
         left' \in [Procs -> Nat],
         AgreeOn(queue, owners, timer', sleep_queue'),
         OthersKeep(timer, timer', p),
         asked' \in [Procs -> SUBSET SelectQs],
         target' \in [Procs -> Targets],
         UNCHANGED <<select_wait, sigVars, treeVars>>
  PROVE  IInv'
<1>1. state[p] \in Runnable /\ Running = p
  BY CpuRunnable, ProcsAssumption
<1>2. Coherent(state, p, ready_queue, queue, owners, timer, sleep_queue)
  BY <1>1, CoherentNow
<1>3. Coherent([state EXCEPT ![p] = "sleeping"], None, ready_queue,
               Enqueued(queue, p, qs), [owners EXCEPT ![p] = @ \cup qs], timer', sleep_queue')
  BY <1>1, <1>2, Asleep
<1>4. Coherent(state', None, ready_queue', queue', owners', timer', sleep_queue')
  BY <1>3 DEF SleepOn, Enqueued
<1>5. /\ state' = [state EXCEPT ![p] = "sleeping"]
      /\ kpc' = "switch"
      /\ UNCHANGED <<current, kq, kcont>>
  BY DEF SleepOn
<1>6. interrupted' \in [Procs -> BOOLEAN]
  BY DEF SleepOn, IInv, TypeOK
<1>7. cont' \in [Procs -> Conts]
  BY DEF SleepOn, IInv, TypeOK, Conts
<1> QED  BY <1>4, <1>5, <1>6, <1>7, AfterSleep

(* A node linked into the sleep queue for a process without one.           *)
LEMMA InsertTimerAgrees ==
  ASSUME IInv, NEW p \in Procs, timer[p] = "none",
         NEW d \in Nat, NEW kind \in {"wait", "timeout"}, InsertTimer(p, d, kind)
  PROVE  /\ timer' \in [Procs -> TimerKinds]
         /\ timer'[p] = kind
         /\ OthersKeep(timer, timer', p)
         /\ sleep_queue' \in Seq(Procs)
         /\ left' \in [Procs -> Nat]
         /\ AgreeOn(queue, owners, timer', sleep_queue')
<1>1. AgreeOn(queue, owners, timer, sleep_queue) /\ sleep_queue \in Seq(Procs)
  BY CoherentNow DEF Coherent
<1>2. IsInjective(sleep_queue) /\ p \notin Range(sleep_queue)
  BY <1>1 DEF AgreeOn
<1>3. PICK i \in 1..(Len(sleep_queue) + 1) :
        sleep_queue' = list_link_before(sleep_queue, i, p)
  BY DEF InsertTimer
<1>4. /\ sleep_queue' \in Seq(Procs)
      /\ Range(sleep_queue') = Range(sleep_queue) \cup {p}
      /\ IsInjective(sleep_queue')
  BY <1>1, <1>2, <1>3, LinkBefore
<1>5. /\ timer' \in [Procs -> TimerKinds]
      /\ timer'[p] = kind
      /\ OthersKeep(timer, timer', p)
  BY DEF InsertTimer, IInv, TypeOK, TimerKinds, OthersKeep
<1>6. left' \in [Procs -> Nat]
  BY DEF InsertTimer, IInv, TypeOK
<1>7. \A r \in Procs : r \in Range(sleep_queue') <=> timer'[r] # "none"
  BY <1>1, <1>4, <1>5 DEF AgreeOn, OthersKeep
<1>8. AgreeOn(queue, owners, timer', sleep_queue')
  BY <1>1, <1>4, <1>7 DEF AgreeOn
<1> QED  BY <1>4, <1>5, <1>6, <1>8

(* A driver sleeps, for the first time or again.                           *)
LEMMA BlockStep ==
  ASSUME IInv, NEW q \in BlockQs,
         (\E p \in Procs : BlockOn(p, q)) \/ BlockAgain(q)
  PROVE  IInv'
<1> USE DEF timerVars
<1>1. /\ kpc \in {"user", "resume"} /\ current \in Procs
      /\ SleepOn(current, {q}, "queue")
      /\ UNCHANGED <<timerVars, select_wait, sigVars, treeVars, asked, target>>
  BY DEF BlockOn, BlockAgain, InUser, IInv, ControlOK
<1>2. {q} \in SUBSET Queues /\ "queue" \in Conts
  BY DEF Queues, Conts
<1>3. /\ AgreeOn(queue, owners, timer', sleep_queue')
      /\ timer' \in [Procs -> TimerKinds] /\ sleep_queue' \in Seq(Procs)
  BY <1>1, CoherentNow DEF Coherent
<1>4. OthersKeep(timer, timer', current)
  BY <1>1 DEF OthersKeep
<1>5. /\ left' \in [Procs -> Nat]
      /\ asked' \in [Procs -> SUBSET SelectQs]
      /\ target' \in [Procs -> Targets]
  BY <1>1 DEF IInv, TypeOK
<1> QED  BY <1>1, <1>2, <1>3, <1>4, <1>5, SleepOnStep

(* select, with and without a timeout.                                     *)
LEMMA SelectStep ==
  ASSUME IInv, NEW p \in Procs, NEW qs \in SUBSET SelectQs,
         NEW d \in 0..MaxSleep, Select(p, qs, d)
  PROVE  IInv'
<1> USE DEF timerVars
<1>1. /\ kpc = "user" /\ current = p
      /\ SleepOn(p, qs, "select")
      /\ asked' = [asked EXCEPT ![p] = qs]
      /\ UNCHANGED <<select_wait, sigVars, treeVars, target>>
  BY DEF Select, InUser
<1>2. qs \in SUBSET Queues /\ "select" \in Conts /\ d \in Nat
  BY MaxSleepAssumption DEF Queues, Conts
<1>3. timer[p] = "none"
  <2>1. state[p] \in Runnable
    BY <1>1, CpuRunnable, ProcsAssumption
  <2> QED  BY <2>1, CoherentNow DEF Coherent, SleepsOn, Runnable
<1>4. /\ AgreeOn(queue, owners, timer', sleep_queue')
      /\ timer' \in [Procs -> TimerKinds] /\ sleep_queue' \in Seq(Procs)
      /\ OthersKeep(timer, timer', p)
      /\ left' \in [Procs -> Nat]
  <2>1. CASE d = 0
    <3>1. UNCHANGED timerVars
      BY <2>1 DEF Select
    <3> QED  BY <2>1, <3>1, CoherentNow DEF Coherent, OthersKeep, IInv, TypeOK
  <2>2. CASE d # 0
    <3>1. InsertTimer(p, d, "timeout")
      BY <2>2 DEF Select
    <3> QED  BY <1>2, <1>3, <3>1, InsertTimerAgrees
  <2> QED  BY <2>1, <2>2
<1>5. /\ asked' \in [Procs -> SUBSET SelectQs]
      /\ target' \in [Procs -> Targets]
  BY <1>1 DEF IInv, TypeOK
<1> QED  BY <1>1, <1>2, <1>4, <1>5, SleepOnStep

(* select with nothing to wait for.                                        *)
LEMMA PauseStep ==
  ASSUME IInv, NEW p \in Procs, Pause(p)
  PROVE  IInv'
<1> USE DEF timerVars
<1>1. /\ kpc \in {"user", "resume"} /\ current = p
      /\ SleepOn(p, {}, "pause")
      /\ UNCHANGED <<timerVars, select_wait, sigVars, treeVars, asked, target>>
  BY DEF Pause, InUser
<1>2. {} \in SUBSET Queues /\ "pause" \in Conts
  BY DEF Conts
<1>3. /\ AgreeOn(queue, owners, timer', sleep_queue')
      /\ timer' \in [Procs -> TimerKinds] /\ sleep_queue' \in Seq(Procs)
      /\ OthersKeep(timer, timer', p)
  BY <1>1, CoherentNow DEF Coherent, OthersKeep
<1>4. /\ left' \in [Procs -> Nat]
      /\ asked' \in [Procs -> SUBSET SelectQs]
      /\ target' \in [Procs -> Targets]
  BY <1>1 DEF IInv, TypeOK
<1> QED  BY <1>1, <1>2, <1>3, <1>4, SleepOnStep

(* sys_sleep.                                                              *)
LEMMA SleepStep ==
  ASSUME IInv, NEW p \in Procs, NEW d \in 0..MaxSleep, Sleep(p, d)
  PROVE  IInv'
<1> USE DEF blockVars, flagVars
<1>1. /\ kpc = "user" /\ current = p
      /\ InsertTimer(p, d, "wait")
      /\ state' = [state EXCEPT ![p] = "sleeping"]
      /\ cont' = [cont EXCEPT ![p] = "sleep"]
      /\ kpc' = "switch"
      /\ UNCHANGED <<current, ready_queue, blockVars, flagVars, sigVars, treeVars,
                     asked, target, kq, kcont>>
  BY DEF Sleep, InUser
<1>2. d \in Nat
  BY MaxSleepAssumption
<1>3. state[p] \in Runnable /\ Running = p
  BY <1>1, CpuRunnable, ProcsAssumption
<1>4. Coherent(state, p, ready_queue, queue, owners, timer, sleep_queue)
  BY <1>3, CoherentNow
<1>5. timer[p] = "none"
  BY <1>3, <1>4 DEF Coherent, SleepsOn, Runnable
<1>6. /\ timer' \in [Procs -> TimerKinds]
      /\ timer'[p] = "wait"
      /\ OthersKeep(timer, timer', p)
      /\ sleep_queue' \in Seq(Procs)
      /\ left' \in [Procs -> Nat]
      /\ AgreeOn(queue, owners, timer', sleep_queue')
  BY <1>1, <1>2, <1>5, InsertTimerAgrees
<1>7. {} \in SUBSET Queues
  OBVIOUS
<1>8. Coherent([state EXCEPT ![p] = "sleeping"], None, ready_queue,
               Enqueued(queue, p, {}), [owners EXCEPT ![p] = @ \cup {}],
               timer', sleep_queue')
  BY <1>3, <1>4, <1>6, <1>7, Asleep
<1>9. Enqueued(queue, p, {}) = queue /\ [owners EXCEPT ![p] = @ \cup {}] = owners
  BY DEF IInv, TypeOK, Enqueued
<1>10. Coherent(state', None, ready_queue', queue', owners', timer', sleep_queue')
  BY <1>1, <1>8, <1>9
<1>11. /\ interrupted' \in [Procs -> BOOLEAN]
       /\ asked' \in [Procs -> SUBSET SelectQs]
       /\ target' \in [Procs -> Targets]
       /\ UNCHANGED select_wait
  BY <1>1 DEF IInv, TypeOK
<1>12. cont' \in [Procs -> Conts]
  BY <1>1 DEF IInv, TypeOK, Conts
<1> QED  BY <1>1, <1>6, <1>10, <1>11, <1>12, AfterSleep
----------------------------------------------------------------------------
(* Signals.                                                                *)

(* The CPU passes to nobody, or stays: blocks, states and ready queue.     *)
LEMMA CpuPasses ==
  ASSUME NEW st, NEW run, NEW run1, NEW R, NEW Q, NEW O, NEW T, NEW S, NEW p,
         Coherent(st, run, R, Q, O, T, S), SameCpu(st, run, run1, p),
         p \in Procs => ~(st[p] \in Runnable)
  PROVE  Coherent(st, run1, R, Q, O, T, S)
<1>1. ReadyOn(st, run1, R)
  <2>1. ASSUME NEW r \in Procs
        PROVE  r \in Range(R) <=> st[r] \in Runnable /\ r # run1
    BY DEF Coherent, ReadyOn, SameCpu
  <2> QED  BY <2>1 DEF Coherent, ReadyOn
<1> QED  BY <1>1 DEF Coherent

(* sys_kill.                                                               *)
LEMMA KillStep ==
  ASSUME IInv, NEW p \in Procs, NEW t \in Procs, NEW sig \in Signals, Kill(p, t, sig)
  PROVE  IInv'
<1> USE DEF sigVars, treeVars, callVars
<1>1. /\ kpc = "user" /\ current = p /\ kpc' = "signals"
      /\ t # InitProc /\ state[t] \notin {"absent", "finished"}
      /\ signal_queue' = [signal_queue EXCEPT ![t] = @ \cup {sig}]
      /\ UNCHANGED <<current, kq, kcont, select_wait, handler, treeVars, callVars>>
  BY DEF Kill, SendSignal, Return, InUser
<1>2. kcont = "none" /\ Running = current /\ Running' = current
  BY <1>1, CpuRunnable DEF Running
<1>3. /\ Coherent(state, Running, ready_queue, queue, owners, timer, sleep_queue)
      /\ state[p] \in Runnable
  BY <1>1, CoherentNow, CpuRunnable, ProcsAssumption
<1>4. /\ Coherent(state', Running', ready_queue', queue', owners', timer', sleep_queue')
      /\ \A r \in Procs : state'[r] # state[r] =>
                            state[r] = "sleeping" /\ state'[r] = "running"
      /\ left' \in [Procs -> Nat]
      /\ interrupted' \in [Procs -> BOOLEAN]
  <2>1. CASE t # current /\ ~Schedulable(t)
    <3>1. MarkReady(t, queue, owners, timer, sleep_queue)
      BY <2>1 DEF Kill, SendSignal
    <3>2. state[t] = "sleeping" /\ state \in [Procs -> States]
      BY <1>1, <1>3, <2>1 DEF Coherent, States, Schedulable
    <3>3. SameCpu(state, Running, Running', t) /\ Running' # t
      BY <1>2, <2>1 DEF SameCpu
    <3>4. OthersSleep(state, owners, timer, t)
      BY <1>3 DEF OthersSleep, Coherent
    <3>5. /\ queue \in [Queues -> Seq(Procs)] /\ owners \in [Procs -> SUBSET Queues]
          /\ timer \in [Procs -> TimerKinds] /\ sleep_queue \in Seq(Procs)
          /\ AgreeOn(queue, owners, timer, sleep_queue)
      BY <1>3 DEF Coherent
    <3>6. /\ Coherent(state', Running', ready_queue', queue', owners', timer', sleep_queue')
          /\ state' = [state EXCEPT ![t] = "running"]
          /\ left' \in [Procs -> Nat]
          /\ interrupted' \in [Procs -> BOOLEAN]
      BY <3>1, <3>2, <3>3, <3>4, <3>5, MarkReadyEffect
    <3> QED  BY <3>2, <3>6
  <2>2. CASE ~(t # current /\ ~Schedulable(t))
    <3>1. /\ queue' = queue /\ owners' = owners /\ timer' = timer
          /\ sleep_queue' = sleep_queue
          /\ UNCHANGED <<state, ready_queue, left, interrupted>>
      BY <2>2 DEF Kill, SendSignal
    <3> QED  BY <1>2, <1>3, <3>1 DEF IInv, TypeOK
  <2> QED  BY <2>1, <2>2
<1>5. ReadyQueueExact' /\ BlocksAgree' /\ BlockedAreAsleep'
  BY <1>4, CoherentNext
<1>6. signal_queue' \in [Procs -> SUBSET Signals]
  BY <1>1 DEF IInv, TypeOK
<1>7. TypeOK'
  BY <1>1, <1>4, <1>6 DEF IInv, TypeOK, Coherent, States, TimerKinds
<1>8. ParentsAreAlive'
  BY <1>1, <1>4 DEF IInv, ParentsAreAlive
<1>9. ControlOK'
  BY <1>1, <1>2, <1>3, <1>4 DEF ControlOK, Schedulable, Runnable
<1>10. signal_queue'[InitProc] = signal_queue[InitProc]
  BY <1>1, ProcsAssumption DEF IInv, TypeOK
<1>11. InitIsSafe'
  BY <1>1, <1>4, <1>10, ProcsAssumption DEF IInv, InitIsSafe
<1> QED  BY <1>5, <1>7, <1>8, <1>9, <1>11 DEF IInv
----------------------------------------------------------------------------
(* Life and death.                                                         *)

(* A process that is neither asleep nor on the ready queue is put away.    *)
LEMMA Retired ==
  ASSUME NEW st, NEW run, NEW R, NEW Q, NEW O, NEW T, NEW S, NEW p \in Procs,
         Coherent(st, run, R, Q, O, T, S), st[p] # "sleeping", p \notin Range(R),
         NEW v \in {"finished", "absent"}
  PROVE  Coherent([st EXCEPT ![p] = v], run, R, Q, O, T, S)
<1> DEFINE st1 == [st EXCEPT ![p] = v]
<1>1. /\ st1 \in [Procs -> States]
      /\ \A r \in Procs : st1[r] = IF r = p THEN v ELSE st[r]
  BY DEF Coherent, States
<1> HIDE DEF st1
<1>2. ReadyOn(st1, run, R)
  <2>1. ASSUME NEW r \in Procs
        PROVE  r \in Range(R) <=> st1[r] \in Runnable /\ r # run
    <3>1. r \in Range(R) <=> st[r] \in Runnable /\ r # run
      BY DEF Coherent, ReadyOn
    <3> QED  BY <1>1, <3>1 DEF Runnable
  <2> QED  BY <2>1 DEF Coherent, ReadyOn
<1>3. \A r \in Procs : SleepsOn(st1, O, T, r)
  BY <1>1 DEF Coherent, SleepsOn
<1>4. Coherent(st1, run, R, Q, O, T, S)
  BY <1>1, <1>2, <1>3 DEF Coherent
<1> QED  BY <1>4 DEF st1

(* The beginning of exit, called or forced by a signal.                    *)
LEMMA ExitBeginStep ==
  ASSUME IInv, kpc \in {"user", "signals"}, NEW p \in Procs \ {InitProc},
         current = p, ExitBegin(p),
         signal_queue' \in [Procs -> SUBSET Signals],
         \A r \in Procs : signal_queue'[r] \subseteq signal_queue[r]
  PROVE  IInv'
<1> USE DEF timerVars, blockVars, flagVars, callVars
<1>1. /\ state' = [state EXCEPT ![p] = "finished"]
      /\ parent' = [c \in Procs |-> IF parent[c] = p THEN InitProc ELSE parent[c]]
      /\ kpc' = "wake" /\ kq' = parent[p] /\ kcont' = "exit"
      /\ UNCHANGED <<current, ready_queue, timerVars, blockVars, flagVars, handler,
                     group_id, callVars>>
  BY DEF ExitBegin
<1>2. /\ state[p] \in Runnable /\ Running = p /\ Running' = p
  BY <1>1, CpuRunnable, ProcsAssumption DEF Running
<1>3. Coherent(state, p, ready_queue, queue, owners, timer, sleep_queue)
  BY <1>2, CoherentNow
<1>4. state[p] # "sleeping" /\ p \notin Range(ready_queue)
  BY <1>2, <1>3 DEF Runnable, Coherent, ReadyOn
<1>5. Coherent([state EXCEPT ![p] = "finished"], p, ready_queue, queue, owners, timer,
               sleep_queue)
  BY <1>3, <1>4, Retired
<1>6. Coherent(state', Running', ready_queue', queue', owners', timer', sleep_queue')
  BY <1>1, <1>2, <1>5
<1>7. ReadyQueueExact' /\ BlocksAgree' /\ BlockedAreAsleep'
  BY <1>6, CoherentNext
<1>8. /\ \A r \in Procs : state'[r] = IF r = p THEN "finished" ELSE state[r]
      /\ \A r \in Procs : parent'[r] = IF parent[r] = p THEN InitProc ELSE parent[r]
  BY <1>1 DEF IInv, TypeOK
<1>9. parent[p] \in Procs /\ state[p] # "absent" /\ parent[p] # p
  BY <1>2 DEF IInv, ParentsAreAlive, InitIsSafe, Runnable
<1>10. parent' \in [Procs -> Procs \cup {None}]
  BY <1>1, ProcsAssumption DEF IInv, TypeOK
<1>11. TypeOK'
  BY <1>1, <1>6, <1>9, <1>10 DEF IInv, TypeOK, Coherent, States, TimerKinds, Queues
<1>12. /\ state[InitProc] \notin {"absent", "finished"} /\ parent[InitProc] = None
       /\ InitProc # p /\ InitProc \in Procs /\ None \notin Procs
  BY ProcsAssumption DEF IInv, InitIsSafe, Queues
<1>13. ParentsAreAlive'
  <2> SUFFICES ASSUME NEW r \in Procs \ {InitProc}, state'[r] # "absent"
               PROVE  parent'[r] \in Procs /\ state'[parent'[r]] \notin {"absent", "finished"}
    BY DEF ParentsAreAlive
  <2>1. parent[r] \in Procs /\ state[parent[r]] \notin {"absent", "finished"}
    BY <1>8, <1>9 DEF IInv, ParentsAreAlive
  <2>2. CASE parent[r] = p
    BY <1>8, <1>12, <2>2
  <2>3. CASE parent[r] # p
    BY <1>8, <2>1, <2>3
  <2> QED  BY <2>2, <2>3
<1>14. ControlOK'
  BY <1>1, <1>8, <1>9 DEF ControlOK, Queues
<1>15. InitIsSafe'
  <2>1. state'[InitProc] \notin {"absent", "finished"} /\ parent'[InitProc] = None
    BY <1>8, <1>12
  <2>2. \A sig \in signal_queue'[InitProc] : ~Terminates(sig)
    BY <1>12 DEF IInv, InitIsSafe
  <2>3. ASSUME NEW r \in Procs
        PROVE  parent'[r] # r /\ (state'[r] = "absent" => parent'[r] = None)
    <3>1. parent[r] # r /\ (state[r] = "absent" => parent[r] = None)
      BY DEF IInv, InitIsSafe
    <3> QED  BY <1>8, <1>12, <3>1
  <2> QED  BY <2>1, <2>2, <2>3, <1>1 DEF InitIsSafe, Terminates
<1> QED  BY <1>7, <1>11, <1>13, <1>14, <1>15 DEF IInv

LEMMA ExitStep ==
  ASSUME IInv, NEW p \in Procs, Exit(p)
  PROVE  IInv'
<1>1. /\ kpc = "user" /\ current = p /\ p # InitProc /\ ExitBegin(p)
      /\ UNCHANGED signal_queue
  BY DEF Exit, InUser
<1>2. /\ signal_queue' \in [Procs -> SUBSET Signals]
      /\ \A r \in Procs : signal_queue'[r] \subseteq signal_queue[r]
  BY <1>1 DEF IInv, TypeOK
<1> QED  BY <1>1, <1>2, ExitBeginStep

(* One round of signal delivery.                                           *)
LEMMA DeliverStep ==
  ASSUME IInv, Deliver
  PROVE  IInv'
<1>1. PICK sig \in signal_queue[current] :
        /\ signal_queue' = [signal_queue EXCEPT ![current] = @ \ {sig}]
        /\ IF handler[current][sig] = "default" /\ Terminates(sig)
           THEN ExitBegin(current)
           ELSE /\ kpc' \in {"user", "signals"}
                /\ UNCHANGED <<schedVars, timerVars, blockVars, flagVars,
                               handler, treeVars, callVars, kq, kcont>>
  BY DEF Deliver
<1>2. kpc = "signals" /\ current \in Procs
  BY DEF Deliver, IInv, ControlOK
<1>3. /\ signal_queue' \in [Procs -> SUBSET Signals]
      /\ \A r \in Procs : signal_queue'[r] \subseteq signal_queue[r]
  BY <1>1, <1>2 DEF IInv, TypeOK
<1>4. CASE handler[current][sig] = "default" /\ Terminates(sig)
  <2>1. ExitBegin(current)
    BY <1>1, <1>4
  <2>2. current # InitProc
    BY <1>4 DEF IInv, InitIsSafe
  <2>3. current \in Procs \ {InitProc}
    BY <1>2, <2>2
  <2> QED  BY <1>2, <1>3, <2>1, <2>3, ExitBeginStep
<1>5. CASE ~(handler[current][sig] = "default" /\ Terminates(sig))
  <2> USE DEF schedVars, timerVars, blockVars, flagVars, treeVars, callVars
  <2>1. /\ kpc' \in {"user", "signals"}
        /\ UNCHANGED <<schedVars, timerVars, blockVars, flagVars,
                       handler, treeVars, callVars, kq, kcont>>
    BY <1>1, <1>5
  <2>2. ReadyQueueExact' /\ BlocksAgree' /\ BlockedAreAsleep' /\ ParentsAreAlive'
    BY <1>2, <2>1, QuietStep
  <2>3. TypeOK'
    BY <1>3, <2>1 DEF IInv, TypeOK
  <2>4. ControlOK'
    BY <1>2, <2>1 DEF IInv, ControlOK, Schedulable
  <2>5. InitIsSafe'
    BY <1>3, <2>1, ProcsAssumption DEF IInv, InitIsSafe
  <2> QED  BY <2>2, <2>3, <2>4, <2>5 DEF IInv
<1> QED  BY <1>4, <1>5

(* The end of exit: SIGCHLD to the parent, then the switch.                *)
LEMMA ExitFinishStep ==
  ASSUME IInv, ExitFinish
  PROVE  IInv'
<1> USE DEF treeVars, callVars
<1> DEFINE t == parent[current]
           Q == Without(queue, current, owners[current])
           O == [owners EXCEPT ![current] = {}]
           T == [timer EXCEPT ![current] = "none"]
           S == list_delete_element(sleep_queue, current)
<1>1. /\ kpc = "wake" /\ kcont = "exit" /\ kpc' = "switch"
      /\ kq' = None /\ kcont' = "none"
      /\ SendSignal(t, SIGCHLD, Q, O, T, S)
      /\ UNCHANGED <<current, select_wait, handler, treeVars, callVars>>
  BY DEF ExitFinish
<1>2. /\ current \in Procs \ {InitProc} /\ state[current] = "finished"
      /\ Running = current /\ Running' = None /\ None \notin Procs
  BY <1>1, ProcsAssumption DEF IInv, ControlOK, Running, Queues
<1>3. /\ t \in Procs /\ state[t] \notin {"absent", "finished"}
  BY <1>2 DEF IInv, ParentsAreAlive
<1>4. Coherent(state, current, ready_queue, queue, owners, timer, sleep_queue)
  BY <1>2, CoherentNow
<1>5. SameCpu(state, current, None, current)
  BY <1>2 DEF SameCpu
<1>6. /\ owners[current] = {} /\ timer[current] = "none"
      /\ queue \in [Queues -> Seq(Procs)] /\ owners \in [Procs -> SUBSET Queues]
      /\ timer \in [Procs -> TimerKinds] /\ sleep_queue \in Seq(Procs)
      /\ state \in [Procs -> States]
      /\ AgreeOn(queue, owners, timer, sleep_queue) /\ IsInjective(sleep_queue)
  BY <1>2, <1>4 DEF Coherent, SleepsOn, AgreeOn
<1>7. Q = queue /\ O = owners /\ T = timer
  BY <1>2, <1>6 DEF Without
<1>8. /\ S \in Seq(Procs)
      /\ Range(S) = Range(sleep_queue) \ {current}
      /\ IsInjective(S)
  BY <1>6, DeleteElement
<1> HIDE DEF S
<1>9. AgreeOn(queue, owners, T, S)
  BY <1>2, <1>6, <1>8, TimerAgrees
<1>10. Coherent(state, current, ready_queue, queue, owners, timer, S)
  BY <1>4, <1>7, <1>8, <1>9 DEF Coherent
<1>11. SendSignal(t, SIGCHLD, queue, owners, timer, S)
  BY <1>1, <1>7
<1> HIDE DEF t
<1>12. /\ Coherent(state', Running', ready_queue', queue', owners', timer', sleep_queue')
       /\ \A r \in Procs : state'[r] # state[r] =>
                             state[r] = "sleeping" /\ state'[r] = "running"
       /\ left' \in [Procs -> Nat]
       /\ interrupted' \in [Procs -> BOOLEAN]
  <2>1. CASE t # current /\ ~Schedulable(t)
    <3>1. MarkReady(t, queue, owners, timer, S)
      BY <1>11, <2>1 DEF SendSignal
    <3>2. state[t] = "sleeping"
      BY <1>3, <1>6, <2>1 DEF States, Schedulable
    <3>3. SameCpu(state, Running, Running', t) /\ Running' # t
      BY <1>2, <1>3 DEF SameCpu, Runnable
    <3>4. OthersSleep(state, owners, timer, t)
      BY <1>4 DEF OthersSleep, Coherent
    <3>5. AgreeOn(queue, owners, timer, S)
      BY <1>7, <1>9
    <3>6. /\ Coherent(state', Running', ready_queue', queue', owners', timer', sleep_queue')
          /\ state' = [state EXCEPT ![t] = "running"]
          /\ left' \in [Procs -> Nat]
          /\ interrupted' \in [Procs -> BOOLEAN]
      BY <1>3, <1>6, <1>8, <3>1, <3>2, <3>3, <3>4, <3>5, MarkReadyEffect
    <3> QED  BY <1>6, <3>2, <3>6
  <2>2. CASE ~(t # current /\ ~Schedulable(t))
    <3>1. /\ queue' = queue /\ owners' = owners /\ timer' = timer /\ sleep_queue' = S
          /\ UNCHANGED <<state, ready_queue, left, interrupted>>
      BY <1>11, <2>2 DEF SendSignal
    <3>2. ~(state[current] \in Runnable)
      BY <1>2 DEF Runnable
    <3>3. Coherent(state, None, ready_queue, queue, owners, timer, S)
      BY <1>5, <1>10, <3>2, CpuPasses
    <3> QED  BY <1>2, <3>1, <3>3 DEF IInv, TypeOK
  <2> QED  BY <2>1, <2>2
<1>13. ReadyQueueExact' /\ BlocksAgree' /\ BlockedAreAsleep'
  BY <1>12, CoherentNext
<1>14. /\ signal_queue' \in [Procs -> SUBSET Signals]
       /\ signal_queue'[InitProc] \subseteq signal_queue[InitProc] \cup {SIGCHLD}
  BY <1>3, <1>11, SignalsAssumption, ProcsAssumption DEF SendSignal, IInv, TypeOK
<1>15. TypeOK'
  BY <1>1, <1>12, <1>14 DEF IInv, TypeOK, Coherent, States, TimerKinds
<1>16. ParentsAreAlive'
  BY <1>1, <1>12 DEF IInv, ParentsAreAlive
<1>17. ControlOK'
  BY <1>1 DEF ControlOK
<1>18. InitIsSafe'
  <2>1. ~Terminates(SIGCHLD)
    BY DEF Terminates, SIGCHLD
  <2>2. \A sig \in signal_queue'[InitProc] : ~Terminates(sig)
    BY <1>14, <2>1 DEF IInv, InitIsSafe
  <2> QED  BY <1>1, <1>12, <2>2, ProcsAssumption DEF IInv, InitIsSafe, Terminates
<1> QED  BY <1>13, <1>15, <1>16, <1>17, <1>18 DEF IInv

(* fork and clone.                                                         *)
LEMMA ForkStep ==
  ASSUME IInv, NEW p \in Procs, NEW c \in Procs, Fork(p, c)
  PROVE  IInv'
<1> USE DEF timerVars, blockVars
<1>1. /\ kpc = "user" /\ current = p /\ kpc' = "signals" /\ state[c] = "absent"
      /\ state' = [state EXCEPT ![c] = "running"]
      /\ ready_queue' = list_push_back(ready_queue, c)
      /\ parent' = [parent EXCEPT ![c] = p]
      /\ signal_queue' = [signal_queue EXCEPT ![c] = {}]
      /\ UNCHANGED <<timerVars, blockVars, asked, target, current, kq, kcont>>
  BY DEF Fork, InUser, Return
<1>2. kcont = "none" /\ Running = p /\ Running' = p /\ state[p] \in Runnable /\ p # c
  BY <1>1, CpuRunnable, ProcsAssumption DEF Running, Runnable
<1>3. Coherent(state, p, ready_queue, queue, owners, timer, sleep_queue)
  BY <1>2, CoherentNow
<1>4. /\ owners[c] = {} /\ timer[c] = "none"
      /\ queue \in [Queues -> Seq(Procs)] /\ owners \in [Procs -> SUBSET Queues]
      /\ timer \in [Procs -> TimerKinds] /\ sleep_queue \in Seq(Procs)
      /\ state \in [Procs -> States] /\ ready_queue \in Seq(Procs)
      /\ AgreeOn(queue, owners, timer, sleep_queue)
      /\ ReadyOn(state, p, ready_queue)
      /\ c \notin Range(ready_queue)
  BY <1>1, <1>3 DEF Coherent, SleepsOn, ReadyOn, Runnable
<1>5. SameCpu(state, p, p, c) /\ OthersSleep(state, owners, timer, c)
  BY <1>3 DEF SameCpu, OthersSleep, Coherent
<1>6. Coherent([state EXCEPT ![c] = "running"], p, list_push_back(ready_queue, c),
               Without(queue, c, owners[c]), [owners EXCEPT ![c] = {}],
               [timer EXCEPT ![c] = "none"],
               IF timer[c] # "none" THEN list_delete_element(sleep_queue, c) ELSE sleep_queue)
  BY <1>2, <1>4, <1>5, Woken
<1>7. /\ Without(queue, c, owners[c]) = queue /\ [owners EXCEPT ![c] = {}] = owners
      /\ [timer EXCEPT ![c] = "none"] = timer
  BY <1>4 DEF Without
<1>8. Coherent(state', Running', ready_queue', queue', owners', timer', sleep_queue')
  BY <1>1, <1>2, <1>4, <1>6, <1>7
<1>9. ReadyQueueExact' /\ BlocksAgree' /\ BlockedAreAsleep'
  BY <1>8, CoherentNext
<1>10. TypeOK'
  <2>1. interrupted' \in [Procs -> BOOLEAN]
    BY DEF Fork, IInv, TypeOK
  <2>2. /\ select_wait' \in [Procs -> SelectQs \cup {None}]
        /\ group_id' \in [Procs -> Procs \cup {None}]
        /\ parent' \in [Procs -> Procs \cup {None}]
    BY DEF Fork, IInv, TypeOK
  <2>3. /\ signal_queue' \in [Procs -> SUBSET Signals]
        /\ cont' \in [Procs -> Conts]
    BY DEF Fork, IInv, TypeOK, Conts
  <2>4. handler' \in [Procs -> [Signals -> Dispositions]]
    BY DEF Fork, IInv, TypeOK, NoHandlers, Dispositions
  <2> QED  BY <1>1, <1>8, <2>1, <2>2, <2>3, <2>4
           DEF IInv, TypeOK, Coherent, States, TimerKinds, Conts
<1>11. /\ \A r \in Procs : state'[r] = IF r = c THEN "running" ELSE state[r]
       /\ \A r \in Procs : parent'[r] = IF r = c THEN p ELSE parent[r]
       /\ \A r \in Procs : signal_queue'[r] \subseteq signal_queue[r]
  BY <1>1 DEF IInv, TypeOK
<1>12. ParentsAreAlive'
  BY <1>1, <1>2, <1>11 DEF IInv, ParentsAreAlive, Runnable
<1>13. ControlOK'
  BY <1>1, <1>2, <1>11 DEF ControlOK, Schedulable, Runnable
<1>14. InitIsSafe'
  <2>1. c # InitProc
    BY <1>1 DEF IInv, InitIsSafe
  <2> QED  BY <1>2, <1>11, <2>1, ProcsAssumption DEF IInv, InitIsSafe, Terminates
<1> QED  BY <1>9, <1>10, <1>12, <1>13, <1>14 DEF IInv

(* One round of waitpid, in the system call or after a wakeup.             *)
LEMMA WaitpidStep ==
  ASSUME IInv, kpc \in {"user", "resume"}, NEW p \in Procs, current = p,
         NEW t \in Targets, NEW nohang \in BOOLEAN, WaitpidRound(p, t, nohang)
  PROVE  IInv'
<1> USE DEF timerVars, blockVars, flagVars, sigVars, treeVars
<1> DEFINE zombies == {c \in Pickable(p, t) : state[c] = "finished"}
<1>1. kcont = "none" /\ Running = p /\ state[p] \in Runnable
  BY CpuRunnable, ProcsAssumption
<1>2. Coherent(state, p, ready_queue, queue, owners, timer, sleep_queue)
  BY <1>1, CoherentNow
<1>3. ASSUME NEW c \in zombies, Destroy(c),
             cont' = [cont EXCEPT ![p] = "none"],
             target' = [target EXCEPT ![p] = "any"],
             Return,
             UNCHANGED <<ready_queue, timerVars, blockVars, asked>>
      PROVE  IInv'
  <2>1. /\ kpc' = "signals" /\ UNCHANGED <<current, kq, kcont>>
    BY <1>3 DEF Return
  <2>2. c \in Procs /\ parent[c] = p /\ state[c] = "finished" /\ p # c /\ c # InitProc
    BY <1>1 DEF Pickable, Runnable, IInv, InitIsSafe
  <2> HIDE DEF zombies
  <2>3. /\ state' = [state EXCEPT ![c] = "absent"]
        /\ parent' = [parent EXCEPT ![c] = None]
        /\ signal_queue' = [signal_queue EXCEPT ![c] = {}]
    BY <1>3 DEF Destroy
  <2>4. state[c] # "sleeping" /\ c \notin Range(ready_queue)
    BY <1>2, <2>2 DEF Coherent, ReadyOn, Runnable
  <2>5. Coherent([state EXCEPT ![c] = "absent"], p, ready_queue, queue, owners, timer,
                 sleep_queue)
    BY <1>2, <2>2, <2>4, Retired
  <2>6. Running' = p
    BY <2>1 DEF Running
  <2>7. Coherent(state', Running', ready_queue', queue', owners', timer', sleep_queue')
    BY <1>3, <2>3, <2>5, <2>6
  <2>8. ReadyQueueExact' /\ BlocksAgree' /\ BlockedAreAsleep'
    BY <2>7, CoherentNext
  <2>9. TypeOK'
    <3>1. interrupted' \in [Procs -> BOOLEAN]
      BY <1>3 DEF Destroy, IInv, TypeOK
    <3>2. /\ select_wait' \in [Procs -> SelectQs \cup {None}]
          /\ group_id' \in [Procs -> Procs \cup {None}]
          /\ parent' \in [Procs -> Procs \cup {None}]
      BY <1>3 DEF Destroy, IInv, TypeOK
    <3>3. signal_queue' \in [Procs -> SUBSET Signals]
      BY <1>3 DEF Destroy, IInv, TypeOK
    <3>4. cont' \in [Procs -> Conts] /\ target' \in [Procs -> Targets]
      BY <1>3 DEF IInv, TypeOK, Conts, Targets
    <3>5. handler' \in [Procs -> [Signals -> Dispositions]]
      BY <1>3 DEF Destroy, IInv, TypeOK, NoHandlers, Dispositions
    <3> QED  BY <1>3, <2>1, <2>7, <3>1, <3>2, <3>3, <3>4, <3>5
             DEF IInv, TypeOK, Coherent, States, TimerKinds, Conts
  <2>10. /\ \A r \in Procs : state'[r] = IF r = c THEN "absent" ELSE state[r]
         /\ \A r \in Procs : parent'[r] = IF r = c THEN None ELSE parent[r]
         /\ \A r \in Procs : signal_queue'[r] \subseteq signal_queue[r]
    BY <2>3 DEF IInv, TypeOK
  <2>11. ParentsAreAlive'
    BY <2>2, <2>10 DEF IInv, ParentsAreAlive
  <2>12. ControlOK'
    BY <1>1, <2>1, <2>2, <2>10 DEF ControlOK, Schedulable, Runnable
  <2>13. InitIsSafe'
    <3>1. None \notin Procs /\ InitProc \in Procs
      BY ProcsAssumption DEF Queues
    <3> QED  BY <2>2, <2>10, <3>1 DEF IInv, InitIsSafe, Terminates
  <2> QED  BY <2>8, <2>9, <2>11, <2>12, <2>13 DEF IInv
<1>4. ASSUME cont' = [cont EXCEPT ![p] = "none"],
             target' = [target EXCEPT ![p] = "any"],
             Return,
             UNCHANGED <<state, ready_queue, timerVars, blockVars, flagVars, sigVars,
                         treeVars, asked>>
      PROVE  IInv'
  <2>1. kpc' = "signals" /\ UNCHANGED <<current, kq, kcont>>
    BY <1>4 DEF Return
  <2>2. ReadyQueueExact' /\ BlocksAgree' /\ BlockedAreAsleep' /\ ParentsAreAlive'
    BY <1>4, <2>1, QuietStep DEF schedVars
  <2>3. cont' \in [Procs -> Conts] /\ target' \in [Procs -> Targets]
    BY <1>4 DEF IInv, TypeOK, Conts, Targets
  <2>4. TypeOK'
    BY <1>4, <2>1, <2>3 DEF IInv, TypeOK, Conts
  <2>5. ControlOK' /\ InitIsSafe'
    BY <1>1, <1>4, <2>1 DEF IInv, ControlOK, InitIsSafe, Schedulable
  <2> QED  BY <2>2, <2>4, <2>5 DEF IInv
<1>5. ASSUME SleepOn(p, {p}, "waitpid"),
             target' = [target EXCEPT ![p] = t],
             UNCHANGED <<timerVars, select_wait, sigVars, treeVars, asked>>
      PROVE  IInv'
  <2>1. {p} \in SUBSET Queues /\ {p} # {} /\ "waitpid" \in Conts
    BY DEF Queues, Conts
  <2>2. /\ AgreeOn(queue, owners, timer', sleep_queue')
        /\ timer' \in [Procs -> TimerKinds] /\ sleep_queue' \in Seq(Procs)
    BY <1>2, <1>5 DEF Coherent
  <2>3. OthersKeep(timer, timer', p)
    BY <1>5 DEF OthersKeep
  <2>4. /\ left' \in [Procs -> Nat]
        /\ asked' \in [Procs -> SUBSET SelectQs]
        /\ target' \in [Procs -> Targets]
    BY <1>5 DEF IInv, TypeOK
  <2>5. UNCHANGED <<select_wait, sigVars, treeVars>>
    BY <1>5
  <2> QED  BY <1>5, <2>1, <2>2, <2>3, <2>4, <2>5, SleepOnStep
<1> QED  BY <1>3, <1>4, <1>5 DEF WaitpidRound
----------------------------------------------------------------------------
(* The boot state satisfies the invariant.                                 *)
LEMMA InitIInv ==
  ASSUME Init
  PROVE  IInv
<1> USE DEF Init
<1>1. Range(<< >>) = {} /\ IsInjective(<< >>)
  BY EmptyList
<1>2. InitProc \in Procs /\ None \notin Procs /\ Idle \notin Procs
  BY ProcsAssumption DEF Queues
<1>3. << >> \in Seq(Procs)
  OBVIOUS
<1>4. interrupted \in [Procs -> BOOLEAN]
  OBVIOUS
<1>5. /\ queue \in [Queues -> Seq(Procs)]
      /\ owners \in [Procs -> SUBSET Queues]
      /\ asked \in [Procs -> SUBSET SelectQs]
      /\ signal_queue \in [Procs -> SUBSET Signals]
      /\ handler \in [Procs -> [Signals -> Dispositions]]
      /\ target \in [Procs -> Targets]
  BY <1>3 DEF NoHandlers, Dispositions, Targets
<1>6. TypeOK
  BY <1>2, <1>3, <1>4, <1>5 DEF TypeOK
<1>7. ReadyQueueExact
  BY <1>1 DEF ReadyQueueExact, Schedulable, Running
<1>8. BlocksAgree
  BY <1>1 DEF BlocksAgree, AgreeOn
<1>9. BlockedAreAsleep /\ ParentsAreAlive /\ ControlOK
  BY <1>2 DEF BlockedAreAsleep, ParentsAreAlive, ControlOK, Schedulable
<1>10. InitIsSafe
  BY <1>2 DEF InitIsSafe
<1> QED  BY <1>6, <1>7, <1>8, <1>9, <1>10 DEF IInv

(* Every step preserves it.                                                *)
LEMMA NextIInv ==
  ASSUME IInv, [Next]_vars
  PROVE  IInv'
<1>1. CASE UNCHANGED vars
  <2> USE <1>1 DEF vars, schedVars, timerVars, blockVars, flagVars, sigVars, treeVars,
                   callVars, cpuVars
  <2>1. TypeOK'
    BY DEF IInv, TypeOK
  <2>2. ReadyQueueExact'
    BY DEF IInv, ReadyQueueExact, Schedulable, Running
  <2>3. BlocksAgree' /\ BlockedAreAsleep' /\ ParentsAreAlive'
    BY DEF IInv, BlocksAgree, BlockedAreAsleep, ParentsAreAlive
  <2>4. ControlOK' /\ InitIsSafe'
    BY DEF IInv, ControlOK, InitIsSafe, Schedulable
  <2> QED  BY <2>1, <2>2, <2>3, <2>4 DEF IInv
<1>2. ASSUME NEW p \in Procs, Syscall(p)
      PROVE  IInv'
  <2>1. ASSUME NEW q \in BlockQs, BlockOn(p, q)  PROVE IInv'
    BY <2>1, BlockStep
  <2>2. ASSUME NEW qs \in SUBSET SelectQs, NEW d \in 0..MaxSleep, Select(p, qs, d)
        PROVE  IInv'
    BY <2>2, SelectStep
  <2>3. ASSUME NEW d \in 0..MaxSleep, Sleep(p, d)  PROVE IInv'
    BY <2>3, SleepStep
  <2>4. ASSUME NEW t \in Procs, NEW sig \in Signals, Kill(p, t, sig)  PROVE IInv'
    BY <2>4, KillStep
  <2>5. ASSUME NEW act \in SigActs, SigAct(p, act[1], act[2])  PROVE IInv'
    BY <2>5, QuietActions
  <2>6. ASSUME NEW c \in Procs, Fork(p, c)  PROVE IInv'
    BY <2>6, ForkStep
  <2>7. ASSUME Exit(p)  PROVE IInv'
    BY <2>7, ExitStep
  <2>8. ASSUME NEW t \in Targets, NEW nohang \in BOOLEAN, Waitpid(p, t, nohang)
        PROVE  IInv'
    <3>1. kpc \in {"user", "resume"} /\ current = p /\ WaitpidRound(p, t, nohang)
      BY <2>8 DEF Waitpid, InUser
    <3> QED  BY <3>1, WaitpidStep
  <2>9. ASSUME Pause(p)  PROVE IInv'
    BY <2>9, PauseStep
  <2>10. ASSUME NEW d, LinkCycle(p, d)  PROVE IInv'
    BY <2>10, QuietActions DEF LinkCycle
  <2>11. ASSUME NEW t \in Procs, NEW sig \in Signals, TtySignal(p, t, sig)  PROVE IInv'
    BY <2>4, <2>11, QuietActions DEF TtySignal
  <2> QED  BY <1>2, <2>1, <2>2, <2>3, <2>4, <2>5, <2>6, <2>7, <2>8, <2>9, <2>10, <2>11
           DEF Syscall
<1>3. CASE Interrupt
  BY <1>3, QuietActions DEF Interrupt
<1>4. CASE ResumeWaitpid
  <2>1. /\ kpc \in {"user", "resume"} /\ current \in Procs
        /\ target[current] \in Targets
        /\ WaitpidRound(current, target[current], FALSE)
    BY <1>4 DEF ResumeWaitpid, IInv, ControlOK, TypeOK
  <2> QED  BY <2>1, WaitpidStep
<1>5. CASE Kernel /\ ~ResumeWaitpid
  BY <1>5, SwitchStep, WakeupTimingStep, PreemptStep, QuietActions, BlockStep,
     WakeupSingleStep, WakeupSingleSelectStep, DeliverStep, ExitFinishStep DEF Kernel
<1> QED  BY <1>1, <1>2, <1>3, <1>4, <1>5 DEF Next, Stop

(* The invariant holds in every reachable state, whatever the processes,   *)
(* queues, signals and deadlines: process.c keeps its ready queue, wait    *)
(* queues, sleep queue, process states and process tree consistent until   *)
(* it links two sleepers to each other or a key signals a zombie, where    *)
(* the module ends.                                                        *)
THEOREM Invariance == Spec => []IInv
<1>1. Init => IInv
  BY InitIInv
<1>2. IInv /\ [Next]_vars => IInv'
  BY NextIInv
<1> QED  BY <1>1, <1>2, PTL DEF Spec

(* Type correctness of the process manager's state.                        *)
THEOREM TypeCorrect == Spec => []TypeOK
BY Invariance, PTL DEF IInv

(* The scheduler's queue holds the runnable processes that do not own the  *)
(* CPU, each once, until the kernel is lost.                               *)
THEOREM ReadyQueueIsExact == Spec => []ReadyQueueExact
BY Invariance, PTL DEF IInv

(* Wait queues and owner lists, sleep queue and node pointers agree, until *)
(* the kernel is lost.                                                     *)
THEOREM BlocksAlwaysAgree == Spec => []BlocksAgree
BY Invariance, PTL DEF IInv

(* No process is left with a parent that has exited.                       *)
THEOREM ParentsStayAlive == Spec => []ParentsAreAlive
BY Invariance, PTL DEF IInv
----------------------------------------------------------------------------
(* What a step does to the state of an exited process.                     *)
LEMMA FinishedStep ==
  ASSUME IInv, [Next]_vars, NEW p \in Procs, state[p] = "finished"
  PROVE  state'[p] \in {"finished", "absent"}
<1> USE DEF schedVars, Schedulable
<1>0. state \in [Procs -> States]
  BY CoherentNow DEF Coherent
<1>1. ASSUME NEW r, NEW v, state' = [state EXCEPT ![r] = v],
             r # p \/ v \in {"finished", "absent"}
      PROVE  state'[p] \in {"finished", "absent"}
  BY <1>0, <1>1
<1>2. ASSUME NEW r, NEW Q, NEW O, NEW T, NEW S, MarkReady(r, Q, O, T, S), r # p
      PROVE  state'[p] \in {"finished", "absent"}
  BY <1>0, <1>2 DEF MarkReady
<1>3. ASSUME NEW r, NEW qs, NEW c, SleepOn(r, qs, c), state[r] # "finished"
      PROVE  state'[p] \in {"finished", "absent"}
  BY <1>0, <1>3 DEF SleepOn
<1>4. ASSUME kpc \in {"user", "resume", "timing"}, current \in Procs
      PROVE  state[current] # "finished"
  BY <1>4, CpuRunnable, ProcsAssumption DEF Runnable
<1>5. ASSUME UNCHANGED state
      PROVE  state'[p] \in {"finished", "absent"}
  BY <1>5
<1>6. ASSUME NEW r, NEW t, NEW nohang, WaitpidRound(r, t, nohang), current = r, r \in Procs,
             kpc \in {"user", "resume"}
      PROVE  state'[p] \in {"finished", "absent"}
  <2>1. CASE \E c \in Procs : Destroy(c)
    BY <1>0, <2>1 DEF Destroy
  <2>2. CASE SleepOn(r, {r}, "waitpid")
    BY <1>3, <1>4, <1>6, <2>2
  <2> QED  BY <1>5, <1>6, <2>1, <2>2 DEF WaitpidRound, Pickable
<1>7. ASSUME NEW r \in Procs, Syscall(r)
      PROVE  state'[p] \in {"finished", "absent"}
  <2>1. ASSUME InUser(r)  PROVE state[r] # "finished"
    BY <1>4, <1>7, <2>1 DEF InUser
  <2>2. ASSUME NEW q \in BlockQs, BlockOn(r, q)  PROVE state'[p] \in {"finished", "absent"}
    BY <1>3, <2>1, <2>2 DEF BlockOn
  <2>3. ASSUME NEW qs, NEW d, Select(r, qs, d)  PROVE state'[p] \in {"finished", "absent"}
    BY <1>3, <2>1, <2>3 DEF Select
  <2>4. ASSUME NEW d, Sleep(r, d)  PROVE state'[p] \in {"finished", "absent"}
    BY <1>0, <2>1, <2>4 DEF Sleep
  <2>5. ASSUME NEW t \in Procs, NEW sig, Kill(r, t, sig)
        PROVE  state'[p] \in {"finished", "absent"}
    BY <1>2, <1>5, <2>5 DEF Kill, SendSignal
  <2>6. ASSUME NEW sig, NEW d, SigAct(r, sig, d)
        PROVE  state'[p] \in {"finished", "absent"}
    BY <1>5, <2>6 DEF SigAct
  <2>7. ASSUME NEW c \in Procs, Fork(r, c)  PROVE state'[p] \in {"finished", "absent"}
    BY <1>0, <2>7 DEF Fork
  <2>8. ASSUME Exit(r)  PROVE state'[p] \in {"finished", "absent"}
    BY <1>0, <2>8 DEF Exit, ExitBegin
  <2>9. ASSUME NEW t, NEW nohang, Waitpid(r, t, nohang)
        PROVE  state'[p] \in {"finished", "absent"}
    BY <1>6, <1>7, <2>9 DEF Waitpid, InUser
  <2>10. ASSUME NEW how, Lose(how)  PROVE state'[p] \in {"finished", "absent"}
    BY <1>5, <2>10 DEF Lose
  <2>11. CASE Pause(r)
    BY <1>3, <2>1, <2>11 DEF Pause
  <2>12. ASSUME NEW d, LinkCycle(r, d)  PROVE state'[p] \in {"finished", "absent"}
    BY <2>10, <2>12 DEF LinkCycle
  <2>13. ASSUME NEW t \in Procs, NEW sig, TtySignal(r, t, sig)
         PROVE  state'[p] \in {"finished", "absent"}
    BY <2>5, <2>10, <2>13 DEF TtySignal
  <2> QED  BY <1>7, <2>2, <2>3, <2>4, <2>5, <2>6, <2>7, <2>8, <2>9, <2>11, <2>12, <2>13
           DEF Syscall
<1>8. CASE Interrupt
  BY <1>5, <1>8 DEF Interrupt, Tick, WakeupQueue
<1>9. CASE Kernel
  <2>1. CASE Switch
    BY <1>0, <1>5, <2>1 DEF Switch
  <2>2. CASE WakeupTiming
    BY <1>2, <1>5, <2>2 DEF WakeupTiming
  <2>3. CASE Preempt
    BY <1>2, <1>5, <2>3 DEF Preempt
  <2>4. CASE ResumeUser \/ ResumeDriver \/ ResumeSleep \/ ResumeSelect \/ WakeupDone
            \/ NoSignal
    BY <1>5, <2>4 DEF ResumeUser, ResumeDriver, ResumeSleep, ResumeSelect, WakeupDone,
                      NoSignal
  <2>5. ASSUME NEW q \in BlockQs, BlockAgain(q)
        PROVE  state'[p] \in {"finished", "absent"}
    <3>1. current \in Procs /\ kpc \in {"user", "resume", "timing"}
      BY <2>5 DEF BlockAgain, IInv, ControlOK
    <3> QED  BY <1>3, <1>4, <2>5, <3>1 DEF BlockAgain
  <2>6. CASE ResumeWaitpid
    <3>1. current \in Procs /\ kpc \in {"user", "resume"}
      BY <2>6 DEF ResumeWaitpid, IInv, ControlOK
    <3> QED  BY <1>6, <2>6, <3>1 DEF ResumeWaitpid
  <2>7. CASE WakeupSingle
    BY <1>2, <1>5, <2>7 DEF WakeupSingle
  <2>8. CASE WakeupSingleSelect
    BY <1>2, <1>5, <2>8 DEF WakeupSingleSelect
  <2>9. CASE Deliver
    BY <1>0, <1>5, <2>9 DEF Deliver, ExitBegin
  <2>10. CASE ExitFinish
    <3>1. /\ kcont = "exit"
          /\ \E Q, O, T, S : SendSignal(parent[current], SIGCHLD, Q, O, T, S)
      BY <2>10 DEF ExitFinish
    <3>2. current \in Procs \ {InitProc} /\ state[current] = "finished"
      BY <3>1 DEF IInv, ControlOK
    <3>3. state[parent[current]] # "finished"
      BY <3>2 DEF IInv, ParentsAreAlive
    <3> QED  BY <1>2, <1>5, <3>1, <3>3 DEF SendSignal
  <2> QED  BY <1>9, <2>1, <2>2, <2>3, <2>4, <2>5, <2>6, <2>7, <2>8, <2>9, <2>10 DEF Kernel
<1> QED  BY <1>5, <1>7, <1>8, <1>9 DEF Next, Stop, vars

(* An exited process never runs again: no wakeup, no timer and no signal   *)
(* of sys_kill makes it ready, and only waitpid changes its state.  A key  *)
(* that signals it (tty.c:218) ends the module.                            *)
THEOREM FinishedStaysFinal == Spec => FinishedIsFinal
<1>1. IInv /\ [Next]_vars =>
        [\A p \in Procs : state[p] = "finished" => state'[p] \in {"finished", "absent"}]_vars
  BY FinishedStep
<1> QED  BY <1>1, Invariance, PTL DEF Spec, FinishedIsFinal
----------------------------------------------------------------------------
(* The system calls: the invariant CallInv.  Process r is in the same      *)
(* stage of its system call after the step as before it.                   *)
SameCall(r) ==
  /\ state'[r] = state[r] /\ cont'[r] = cont[r]
  /\ owners'[r] = owners[r] /\ timer'[r] = timer[r] /\ asked'[r] = asked[r]
  /\ interrupted'[r] = interrupted[r] /\ select_wait'[r] = select_wait[r]

(* SleepsAsAsked and AnswersAreFresh for one process.                      *)
AsleepAsAsked(r) ==
  state[r] = "sleeping" =>
    \/ /\ cont[r] = "queue" /\ timer[r] = "none"
       /\ \E q \in BlockQs : owners[r] = {q}
    \/ cont[r] = "waitpid" /\ timer[r] = "none" /\ owners[r] = {r}
    \/ /\ cont[r] = "select" /\ timer[r] # "wait" /\ owners[r] = asked[r]
       /\ asked[r] # {} \/ timer[r] = "timeout"
       /\ ~interrupted[r]
    \/ cont[r] = "pause" /\ timer[r] = "none" /\ owners[r] = {}
    \/ cont[r] = "sleep" /\ timer[r] = "wait" /\ owners[r] = {}

FreshAnswer(r) ==
  select_wait[r] # None =>
    /\ cont[r] = "select" /\ select_wait[r] \in asked[r]
    /\ Schedulable(r) /\ ~interrupted[r]

NoCallInUser ==
  kpc \in {"user", "timing", "wake", "signals"} /\ current \in Procs
    => cont[current] = "none"

LEMMA CallInvNow ==
  ASSUME CallInv
  PROVE  /\ \A r \in Procs : AsleepAsAsked(r) /\ FreshAnswer(r)
         /\ NoCallInUser /\ ExitTellsParent /\ WaitpidMissesNoChild
BY DEF CallInv, SleepsAsAsked, AnswersAreFresh, SelectAnswersTheQuestion, AsleepAsAsked,
       FreshAnswer, NoCallInUser, Schedulable

(* It is enough to look at the processes whose system calls move.          *)
LEMMA CallStep ==
  ASSUME CallInv, NoCallInUser',
         \A r \in Procs : SameCall(r) \/ (AsleepAsAsked(r)' /\ FreshAnswer(r)')
  PROVE  SleepsAsAsked' /\ AnswersAreFresh'
<1>1. \A r \in Procs : AsleepAsAsked(r)' /\ FreshAnswer(r)'
  <2> TAKE r \in Procs
  <2>1. AsleepAsAsked(r) /\ FreshAnswer(r)
    BY CallInvNow
  <2>2. ASSUME SameCall(r)  PROVE AsleepAsAsked(r)'
    BY <2>1, <2>2 DEF AsleepAsAsked, SameCall
  <2>3. ASSUME SameCall(r)  PROVE FreshAnswer(r)'
    BY <2>1, <2>3 DEF FreshAnswer, SameCall, Schedulable
  <2> QED  BY <2>2, <2>3
<1>2. SleepsAsAsked'
  BY <1>1 DEF SleepsAsAsked, AsleepAsAsked
<1>3. AnswersAreFresh'
  BY <1>1 DEF AnswersAreFresh, SelectAnswersTheQuestion, FreshAnswer, NoCallInUser,
              Schedulable
<1> QED  BY <1>2, <1>3

(* A step that neither changes the process tree, nor exits, nor falls      *)
(* asleep in waitpid.                                                      *)
LEMMA TreeStep ==
  ASSUME CallInv, UNCHANGED <<parent, group_id, target, kcont>>,
         kcont = "exit" => UNCHANGED <<current, kq>>,
         \A r \in Procs : state'[r] = "finished" => state[r] = "finished",
         \A r \in Procs : state'[r] = "sleeping" /\ cont'[r] = "waitpid"
                           => state[r] = "sleeping" /\ cont[r] = "waitpid"
  PROVE  ExitTellsParent' /\ WaitpidMissesNoChild'
<1>1. ExitTellsParent'
  BY DEF CallInv, ExitTellsParent
<1>2. \A p \in Procs : (Pickable(p, target[p]))' = Pickable(p, target[p])
  BY DEF Pickable, CanPick
<1>3. WaitpidMissesNoChild'
  BY <1>2 DEF CallInv, WaitpidMissesNoChild
<1> QED  BY <1>1, <1>3

(* What mark_ready does to the fields of each process.                     *)
LEMMA MarkReadyFields ==
  ASSUME IInv, NEW p \in Procs, NEW Q, NEW O \in [Procs -> SUBSET Queues],
         NEW T \in [Procs -> TimerKinds], NEW S, MarkReady(p, Q, O, T, S),
         NEW r \in Procs
  PROVE  /\ state'[r] = IF r = p THEN "running" ELSE state[r]
         /\ owners'[r] = IF r = p THEN {} ELSE O[r]
         /\ timer'[r] = IF r = p THEN "none" ELSE T[r]
         /\ r # p => interrupted'[r] = interrupted[r]
         /\ interrupted'[p] <=> interrupted[p] \/ O[p] # {} \/ T[p] # "none"
BY DEF MarkReady, IInv, TypeOK

(* Steps that keep every system call at its stage, or end the one of the   *)
(* process that was switched in.                                           *)
LEMMA QuietCalls ==
  ASSUME IInv, CallInv,
         \/ UNCHANGED vars
         \/ Tick \/ WakeupDone \/ NoSignal
         \/ \E q \in BlockQs \cup SelectQs : WakeupQueue(q)
         \/ \E p \in Procs : \E sig, d : SigAct(p, sig, d)
         \/ \E how \in {"cycle", "zombie"} : Lose(how)
  PROVE  CallInv'
<1> USE DEF schedVars, timerVars, blockVars, flagVars, sigVars, treeVars, callVars,
            cpuVars, vars, Return, InUser
<1>1. /\ UNCHANGED <<state, current, owners, timer, interrupted, select_wait, parent,
                     group_id, cont, asked, target, kcont>>
      /\ kcont = "exit" => UNCHANGED kq
      /\ kpc' \in {"user", "timing", "wake", "signals"}
           => kpc \in {"user", "timing", "wake", "signals"}
  BY CpuRunnable DEF Tick, WakeupDone, NoSignal, WakeupQueue, SigAct, Lose, IInv, TypeOK
<1>2. \A r \in Procs : SameCall(r)
  BY <1>1 DEF SameCall
<1>3. NoCallInUser'
  BY <1>1, CallInvNow DEF NoCallInUser
<1>4. SleepsAsAsked' /\ AnswersAreFresh'
  BY <1>2, <1>3, CallStep
<1>5. ExitTellsParent' /\ WaitpidMissesNoChild'
  BY <1>1, TreeStep
<1> QED  BY <1>4, <1>5 DEF CallInv

LEMMA ResumeCalls ==
  ASSUME IInv, CallInv, ResumeUser \/ ResumeDriver \/ ResumeSleep \/ ResumeSelect
  PROVE  CallInv'
<1> USE DEF schedVars, timerVars, blockVars, flagVars, sigVars, treeVars, callVars,
            Return, ResumeUser, ResumeDriver, ResumeSleep, ResumeSelect
<1>1. /\ kpc = "resume" /\ current \in Procs /\ state[current] \in Runnable
      /\ kcont = "none"
  BY CpuRunnable, ProcsAssumption DEF IInv, ControlOK
<1>2. /\ UNCHANGED <<state, current, owners, timer, interrupted, parent, group_id,
                     target, kcont, kq>>
      /\ cont' = [cont EXCEPT ![current] = "none"]
      /\ asked' = asked \/ asked' = [asked EXCEPT ![current] = {}]
      /\ \/ select_wait' = select_wait /\ (cont[current] # "select" \/ interrupted[current])
         \/ select_wait' = [select_wait EXCEPT ![current] = None]
  OBVIOUS
<1>3. /\ cont \in [Procs -> Conts] /\ asked \in [Procs -> SUBSET SelectQs]
      /\ select_wait \in [Procs -> SelectQs \cup {None}]
  BY DEF IInv, TypeOK, Conts
<1>4. \A r \in Procs \ {current} : SameCall(r)
  BY <1>1, <1>2, <1>3 DEF SameCall
<1>5. cont'[current] = "none" /\ select_wait'[current] = None
  BY <1>1, <1>2, <1>3, CallInvNow DEF FreshAnswer
<1>6. AsleepAsAsked(current)' /\ FreshAnswer(current)' /\ NoCallInUser'
  BY <1>1, <1>2, <1>5 DEF AsleepAsAsked, FreshAnswer, NoCallInUser, Runnable
<1>7. SleepsAsAsked' /\ AnswersAreFresh'
  BY <1>2, <1>4, <1>6, CallStep
<1>8. ExitTellsParent' /\ WaitpidMissesNoChild'
  <2>1. \A r \in Procs : cont'[r] = "waitpid" => cont[r] = "waitpid"
    BY <1>1, <1>2, <1>3
  <2> QED  BY <1>1, <1>2, <2>1, TreeStep
<1> QED  BY <1>7, <1>8 DEF CallInv

LEMMA SwitchCalls ==
  ASSUME IInv, CallInv, Switch
  PROVE  CallInv'
<1> USE DEF schedVars, timerVars, blockVars, flagVars, sigVars, treeVars, callVars
<1>1. /\ kpc = "switch" /\ kcont = "none"
      /\ UNCHANGED <<owners, timer, interrupted, select_wait, parent, group_id, cont,
                     asked, target, kcont, kq>>
  BY DEF Switch, IInv, ControlOK, TypeOK
<1>2. /\ kpc' = "user" => current' = Idle
      /\ kpc' \in {"user", "switch", "resume"}
      /\ \/ state' = state
         \/ LET p == list_head(ready_queue)
            IN  Schedulable(p) /\ state' = [state EXCEPT ![p] = "running"]
  BY <1>1 DEF Switch
<1>3. state \in [Procs -> States]
  BY CoherentNow DEF Coherent
<1>4. \A r \in Procs : \/ state'[r] = state[r]
                       \/ Schedulable(r) /\ state'[r] = "running"
  BY <1>2, <1>3
<1>5. \A r \in Procs : SameCall(r) \/ (AsleepAsAsked(r)' /\ FreshAnswer(r)')
  <2> TAKE r \in Procs
  <2>1. ASSUME state'[r] = state[r]  PROVE SameCall(r)
    BY <1>1, <2>1 DEF SameCall
  <2>2. ASSUME state'[r] = "running"  PROVE AsleepAsAsked(r)' /\ FreshAnswer(r)'
    BY <1>1, <2>2, CallInvNow DEF AsleepAsAsked, FreshAnswer, Schedulable
  <2> QED  BY <1>4, <2>1, <2>2
<1>7. NoCallInUser'
  BY <1>2, ProcsAssumption DEF NoCallInUser
<1>8. SleepsAsAsked' /\ AnswersAreFresh'
  BY <1>5, <1>7, CallStep
<1>9. ExitTellsParent' /\ WaitpidMissesNoChild'
  BY <1>1, <1>4, TreeStep DEF Schedulable
<1> QED  BY <1>8, <1>9 DEF CallInv

(* A step that sets INTERRUPTED for a sleeping process posts a signal to it.*)
SignalInterrupts ==
  \A p \in Procs :
    state[p] = "sleeping" /\ ~interrupted[p] /\ interrupted'[p] => signal_queue'[p] # {}

(* A step of mark_ready that finds no block left on p does not interrupt   *)
(* it and ends no system call.                                             *)
LEMMA WakeCalls ==
  ASSUME IInv, CallInv, NEW p \in Procs, NEW Q, NEW O \in [Procs -> SUBSET Queues],
         NEW T \in [Procs -> TimerKinds], NEW S, MarkReady(p, Q, O, T, S),
         state[p] = "sleeping", O[p] = {}, T[p] = "none",
         \A r \in Procs : r # p => O[r] = owners[r] /\ T[r] = timer[r],
         \A r \in Procs : r # p => select_wait'[r] = select_wait[r],
         \/ select_wait'[p] = None
         \/ cont[p] = "select" /\ select_wait'[p] \in asked[p],
         UNCHANGED <<current, treeVars, callVars, cpuVars>>
  PROVE  CallInv' /\ SignalInterrupts
<1> USE DEF treeVars, callVars, cpuVars
<1>1. \A r \in Procs :
        /\ state'[r] = IF r = p THEN "running" ELSE state[r]
        /\ owners'[r] = IF r = p THEN {} ELSE O[r]
        /\ timer'[r] = IF r = p THEN "none" ELSE T[r]
        /\ r # p => interrupted'[r] = interrupted[r]
        /\ interrupted'[p] <=> interrupted[p]
  BY MarkReadyFields
<1>2. \A r \in Procs : r # p => SameCall(r)
  BY <1>1 DEF SameCall
<1>3. AsleepAsAsked(p)' /\ FreshAnswer(p)'
  <2>1. AsleepAsAsked(p)'
    BY <1>1 DEF AsleepAsAsked
  <2>2. cont[p] = "select" => ~interrupted[p]
    BY CallInvNow DEF AsleepAsAsked
  <2>3. FreshAnswer(p)'
    BY <1>1, <2>2 DEF FreshAnswer, Schedulable
  <2> QED  BY <2>1, <2>3
<1>4. NoCallInUser'
  BY CallInvNow DEF NoCallInUser
<1>5. SleepsAsAsked' /\ AnswersAreFresh'
  BY <1>2, <1>3, <1>4, CallStep
<1>6. ExitTellsParent' /\ WaitpidMissesNoChild'
  BY <1>1, TreeStep
<1>7. SignalInterrupts
  BY <1>1 DEF SignalInterrupts
<1> QED  BY <1>5, <1>6, <1>7 DEF CallInv

LEMMA WakeupSingleCalls ==
  ASSUME IInv, CallInv, WakeupSingle
  PROVE  CallInv' /\ SignalInterrupts
<1> DEFINE p == list_tail(queue[kq])
           Q == [queue EXCEPT ![kq] = list_pop_back(@)]
           O == [owners EXCEPT ![p] = @ \ {kq}]
<1>1. kpc = "wake" /\ kq \in Queues /\ queue[kq] # << >> /\ kq \notin SelectQs
  BY DEF WakeupSingle, IInv, ControlOK
<1>2. Coherent(state, Running, ready_queue, queue, owners, timer, sleep_queue)
  BY CoherentNow
<1>3. p \in Procs /\ kq \in owners[p] /\ O \in [Procs -> SUBSET Queues]
  BY <1>1, <1>2, PopAgrees DEF Coherent
<1>4. state[p] = "sleeping"
  BY <1>2, <1>3 DEF SleepsOn, Coherent
<1>5. /\ MarkReady(p, Q, O, timer, sleep_queue)
      /\ UNCHANGED <<current, select_wait, sigVars, treeVars, callVars, cpuVars>>
  BY <1>4 DEF WakeupSingle, Schedulable
<1>6. owners[p] = {kq} /\ timer[p] = "none"
  <2>1. asked[p] \subseteq SelectQs
    BY <1>3 DEF IInv, TypeOK
  <2> QED  BY <1>1, <1>3, <1>4, <2>1, CallInvNow DEF AsleepAsAsked
<1>7. O[p] = {} /\ \A r \in Procs : r # p => O[r] = owners[r]
  BY <1>2, <1>3, <1>6 DEF Coherent
<1>8. select_wait'[p] = None
  BY <1>3, <1>4, <1>5, CallInvNow DEF FreshAnswer, Schedulable
<1> HIDE DEF p, Q, O
<1> QED  BY <1>2, <1>3, <1>4, <1>5, <1>6, <1>7, <1>8, WakeCalls DEF Coherent

LEMMA WakeupSingleSelectCalls ==
  ASSUME IInv, CallInv, WakeupSingleSelect
  PROVE  CallInv' /\ SignalInterrupts
<1> DEFINE p  == list_tail(queue[kq])
           Q1 == [queue EXCEPT ![kq] = list_pop_back(@)]
           Q  == Without(Q1, p, owners[p] \ {kq})
           O  == [owners EXCEPT ![p] = {}]
           S  == IF timer[p] = "timeout"
                 THEN list_delete_element(sleep_queue, p) ELSE sleep_queue
           T  == [timer EXCEPT ![p] = IF @ = "timeout" THEN "none" ELSE @]
<1>1. kpc = "wake" /\ kq \in Queues /\ queue[kq] # << >> /\ kq \in SelectQs
  BY DEF WakeupSingleSelect, IInv, ControlOK
<1>2. Coherent(state, Running, ready_queue, queue, owners, timer, sleep_queue)
  BY CoherentNow
<1>3. p \in Procs /\ kq \in owners[p]
  BY <1>1, <1>2, PopAgrees DEF Coherent
<1>4. state[p] = "sleeping"
  BY <1>2, <1>3 DEF SleepsOn, Coherent
<1>5. /\ MarkReady(p, Q, O, T, S)
      /\ select_wait' = [select_wait EXCEPT ![p] = kq]
      /\ UNCHANGED <<current, sigVars, treeVars, callVars, cpuVars>>
  BY <1>4 DEF WakeupSingleSelect, Schedulable
<1>6. cont[p] = "select" /\ kq \in asked[p] /\ timer[p] # "wait"
  BY <1>1, <1>3, <1>4, CallInvNow, QueuesAssumption DEF AsleepAsAsked
<1>7. /\ O \in [Procs -> SUBSET Queues] /\ T \in [Procs -> TimerKinds]
      /\ O[p] = {} /\ T[p] = "none"
      /\ \A r \in Procs : r # p => O[r] = owners[r] /\ T[r] = timer[r]
  BY <1>2, <1>3, <1>6 DEF Coherent, TimerKinds
<1>8. /\ select_wait'[p] = kq
      /\ \A r \in Procs : r # p => select_wait'[r] = select_wait[r]
  BY <1>3, <1>5 DEF IInv, TypeOK
<1> HIDE DEF p, Q1, Q, O, S, T
<1> QED  BY <1>3, <1>4, <1>5, <1>6, <1>7, <1>8, WakeCalls

LEMMA WakeupTimingCalls ==
  ASSUME IInv, CallInv, WakeupTiming
  PROVE  CallInv' /\ SignalInterrupts
<1> DEFINE p == list_head(sleep_queue)
           S == list_pop_front(sleep_queue)
           T == [timer EXCEPT ![p] = "none"]
           O == [owners EXCEPT ![p] = {}]
<1>1. Coherent(state, Running, ready_queue, queue, owners, timer, sleep_queue)
  BY CoherentNow
<1>2. sleep_queue \in Seq(Procs) /\ sleep_queue # << >> /\ IsInjective(sleep_queue)
  BY <1>1 DEF WakeupTiming, Expired, Coherent, AgreeOn
<1>3. p \in Procs /\ p \in Range(sleep_queue)
  BY <1>2, PopFront
<1>4. timer[p] # "none" /\ state[p] = "sleeping"
  BY <1>1, <1>3 DEF Coherent, AgreeOn, SleepsOn
<1>5. /\ O \in [Procs -> SUBSET Queues] /\ T \in [Procs -> TimerKinds]
      /\ O[p] = {} /\ T[p] = "none"
      /\ \A r \in Procs : r # p => O[r] = owners[r] /\ T[r] = timer[r]
  BY <1>1, <1>3 DEF Coherent, TimerKinds
<1>6. UNCHANGED <<current, sigVars, treeVars, callVars, cpuVars>>
  BY <1>4 DEF WakeupTiming
<1>7. CASE timer[p] = "timeout"
  <2>1. /\ MarkReady(p, Without(queue, p, owners[p]), O, T, S)
        /\ select_wait' = [select_wait EXCEPT ![p] = None]
    BY <1>4, <1>7 DEF WakeupTiming
  <2>2. /\ select_wait'[p] = None
        /\ \A r \in Procs : r # p => select_wait'[r] = select_wait[r]
    BY <1>3, <2>1 DEF IInv, TypeOK
  <2> HIDE DEF p, S, T, O
  <2> QED  BY <1>3, <1>4, <1>5, <1>6, <2>1, <2>2, WakeCalls
<1>8. CASE timer[p] # "timeout"
  <2>1. MarkReady(p, queue, owners, T, S) /\ select_wait' = select_wait
    BY <1>4, <1>8 DEF WakeupTiming
  <2>2. timer[p] = "wait"
    BY <1>1, <1>3, <1>4, <1>8 DEF Coherent, TimerKinds
  <2>3. owners[p] = {}
    BY <1>3, <1>4, <2>2, CallInvNow DEF AsleepAsAsked
  <2>4. select_wait'[p] = None
    BY <1>3, <1>4, <2>1, CallInvNow DEF FreshAnswer, Schedulable
  <2>5. owners \in [Procs -> SUBSET Queues]
    BY <1>1 DEF Coherent
  <2> HIDE DEF p, S, T, O
  <2> QED  BY <1>3, <1>4, <1>5, <1>6, <2>1, <2>3, <2>4, <2>5, WakeCalls
<1> QED  BY <1>7, <1>8

(* A runnable process is on no queue and has no node.                      *)
LEMMA RunnableIsFree ==
  ASSUME IInv, NEW p \in Procs, state[p] # "sleeping"
  PROVE  owners[p] = {} /\ timer[p] = "none"
BY DEF IInv, BlockedAreAsleep

LEMMA PreemptCalls ==
  ASSUME IInv, CallInv, Preempt
  PROVE  CallInv' /\ SignalInterrupts
<1> USE DEF timerVars, blockVars, flagVars, sigVars, treeVars, callVars
<1>1. /\ kpc = "timing" /\ kpc' = "switch"
      /\ UNCHANGED <<current, select_wait, parent, group_id, asked, target, kq, kcont>>
  BY DEF Preempt
<1>2. NoCallInUser'
  BY <1>1 DEF NoCallInUser
<1>3. CASE current = Idle \/ ~Schedulable(current)
  <2>1. UNCHANGED <<state, owners, timer, interrupted, cont>>
    BY <1>3 DEF Preempt
  <2>2. \A r \in Procs : SameCall(r)
    BY <1>1, <2>1 DEF SameCall
  <2>3. SleepsAsAsked' /\ AnswersAreFresh'
    BY <1>2, <2>2, CallStep
  <2>4. ExitTellsParent' /\ WaitpidMissesNoChild'
    BY <1>1, <2>1, TreeStep
  <2> QED  BY <2>1, <2>3, <2>4 DEF CallInv, SignalInterrupts
<1>4. CASE current # Idle /\ Schedulable(current)
  <2>1. /\ current \in Procs
        /\ state[current] # "sleeping"
        /\ cont[current] = "none"
    BY <1>1, <1>4, CallInvNow DEF IInv, TypeOK, NoCallInUser, Schedulable
  <2>2. /\ MarkReady(current, queue, owners, timer, sleep_queue)
        /\ cont' = [cont EXCEPT ![current] = "irq"]
    BY <1>4 DEF Preempt
  <2>3. Coherent(state, Running, ready_queue, queue, owners, timer, sleep_queue)
    BY CoherentNow
  <2>4. \A r \in Procs :
          /\ state'[r] = IF r = current THEN "running" ELSE state[r]
          /\ owners'[r] = IF r = current THEN {} ELSE owners[r]
          /\ timer'[r] = IF r = current THEN "none" ELSE timer[r]
          /\ r # current => interrupted'[r] = interrupted[r]
    BY <2>1, <2>2, <2>3 DEF MarkReady, Coherent, IInv, TypeOK
  <2>5. \A r \in Procs : cont'[r] = IF r = current THEN "irq" ELSE cont[r]
    BY <2>1, <2>2 DEF IInv, TypeOK
  <2>6. \A r \in Procs : r # current => SameCall(r)
    BY <1>1, <2>4, <2>5 DEF SameCall
  <2>7. select_wait[current] = None
    BY <2>1, CallInvNow DEF FreshAnswer
  <2>8. SleepsAsAsked' /\ AnswersAreFresh'
    <3>1. \A r \in Procs : SameCall(r) \/ (AsleepAsAsked(r)' /\ FreshAnswer(r)')
      <4> TAKE r \in Procs
      <4>1. CASE r = current
        BY <1>1, <2>1, <2>4, <2>7, <4>1 DEF AsleepAsAsked, FreshAnswer
      <4> QED  BY <2>6, <4>1
    <3> QED  BY <1>2, <3>1, CallStep
  <2>9. ExitTellsParent' /\ WaitpidMissesNoChild'
    BY <1>1, <2>4, <2>5, TreeStep
  <2>10. SignalInterrupts
    BY <2>1, <2>4 DEF SignalInterrupts
  <2> QED  BY <2>8, <2>9, <2>10 DEF CallInv
<1> QED  BY <1>3, <1>4

(* The running process p falls asleep on the queues qs and goes on at c.   *)
LEMMA SleepOnCalls ==
  ASSUME IInv, CallInv, NEW p \in Procs, current = p, kpc \in {"user", "resume"},
         NEW qs \in SUBSET Queues, NEW c, SleepOn(p, qs, c), cont[p] # "select",
         timer'[p] \in {"none", "timeout"}, c # "select" => timer'[p] = "none",
         \A r \in Procs : r # p => timer'[r] = timer[r] /\ asked'[r] = asked[r],
         \/ c = "queue" /\ \E q \in BlockQs : qs = {q}
         \/ c = "waitpid" /\ qs = {p}
         \/ c = "select" /\ asked'[p] = qs /\ (qs # {} \/ timer'[p] = "timeout")
         \/ c = "pause" /\ qs = {},
         UNCHANGED select_wait
  PROVE  /\ SleepsAsAsked' /\ AnswersAreFresh' /\ SignalInterrupts
         /\ kcont = "none" /\ kcont' = "none" /\ current' = current
         /\ \A r \in Procs : /\ state'[r] = IF r = p THEN "sleeping" ELSE state[r]
                             /\ cont'[r] = IF r = p THEN c ELSE cont[r]
<1>1. state[p] # "sleeping" /\ kcont = "none"
  BY CpuRunnable, ProcsAssumption DEF Runnable
<1>2. owners[p] = {}
  BY <1>1, RunnableIsFree
<1>3. \A r \in Procs :
        /\ state'[r] = IF r = p THEN "sleeping" ELSE state[r]
        /\ cont'[r] = IF r = p THEN c ELSE cont[r]
        /\ owners'[r] = IF r = p THEN qs ELSE owners[r]
        /\ r # p => interrupted'[r] = interrupted[r]
        /\ ~interrupted'[p]
  BY <1>2 DEF SleepOn, IInv, TypeOK
<1>4. \A r \in Procs : r # p => SameCall(r)
  BY <1>3 DEF SameCall
<1>5. select_wait'[p] = None
  BY CallInvNow DEF FreshAnswer
<1>6. AsleepAsAsked(p)' /\ FreshAnswer(p)'
  BY <1>3, <1>5 DEF AsleepAsAsked, FreshAnswer
<1>7. NoCallInUser'
  BY DEF SleepOn, NoCallInUser
<1>8. SleepsAsAsked' /\ AnswersAreFresh'
  BY <1>4, <1>6, <1>7, CallStep
<1>9. SignalInterrupts
  BY <1>3 DEF SignalInterrupts
<1> QED  BY <1>1, <1>3, <1>8, <1>9 DEF SleepOn

LEMMA BlockCalls ==
  ASSUME IInv, CallInv, NEW q \in BlockQs,
         BlockAgain(q) \/ \E p \in Procs : BlockOn(p, q)
  PROVE  CallInv' /\ SignalInterrupts
<1> USE DEF timerVars, treeVars
<1>1. /\ kpc \in {"user", "resume"} /\ current \in Procs
      /\ SleepOn(current, {q}, "queue")
      /\ UNCHANGED <<timer, select_wait, parent, group_id, asked, target>>
  BY DEF BlockAgain, BlockOn, InUser, IInv, ControlOK
<1>2. cont[current] # "select"
  BY <1>1, CallInvNow DEF BlockAgain, BlockOn, InUser, NoCallInUser
<1>3. timer[current] = "none"
  BY <1>1, CpuRunnable, ProcsAssumption, RunnableIsFree DEF Runnable
<1>4. {q} \in SUBSET Queues
  BY DEF Queues
<1>5. /\ SleepsAsAsked' /\ AnswersAreFresh' /\ SignalInterrupts
      /\ kcont = "none" /\ kcont' = "none"
      /\ \A r \in Procs :
           /\ state'[r] = IF r = current THEN "sleeping" ELSE state[r]
           /\ cont'[r] = IF r = current THEN "queue" ELSE cont[r]
  BY <1>1, <1>2, <1>3, <1>4, SleepOnCalls
<1>6. ExitTellsParent' /\ WaitpidMissesNoChild'
  BY <1>1, <1>5, TreeStep
<1> QED  BY <1>5, <1>6 DEF CallInv

LEMMA SelectCalls ==
  ASSUME IInv, CallInv, NEW p \in Procs, NEW qs \in SUBSET SelectQs, NEW d,
         qs # {} \/ d # 0, Select(p, qs, d)
  PROVE  CallInv' /\ SignalInterrupts
<1> USE DEF timerVars, treeVars
<1>1. /\ kpc = "user" /\ current = p /\ SleepOn(p, qs, "select")
      /\ asked' = [asked EXCEPT ![p] = qs]
      /\ UNCHANGED <<select_wait, parent, group_id, target>>
  BY DEF Select, InUser
<1>2. cont[p] = "none" /\ timer[p] = "none"
  BY <1>1, CallInvNow, CpuRunnable, ProcsAssumption, RunnableIsFree
  DEF NoCallInUser, Runnable
<1>3. /\ timer'[p] \in {"none", "timeout"}
      /\ qs # {} \/ timer'[p] = "timeout"
      /\ \A r \in Procs : r # p => timer'[r] = timer[r] /\ asked'[r] = asked[r]
      /\ asked'[p] = qs
  BY <1>1, <1>2 DEF Select, InsertTimer, IInv, TypeOK
<1>4. qs \in SUBSET Queues
  BY DEF Queues
<1>5. /\ SleepsAsAsked' /\ AnswersAreFresh' /\ SignalInterrupts
      /\ kcont = "none" /\ kcont' = "none"
      /\ \A r \in Procs :
           /\ state'[r] = IF r = p THEN "sleeping" ELSE state[r]
           /\ cont'[r] = IF r = p THEN "select" ELSE cont[r]
  BY <1>1, <1>2, <1>3, <1>4, SleepOnCalls
<1>6. ExitTellsParent' /\ WaitpidMissesNoChild'
  BY <1>1, <1>5, TreeStep
<1> QED  BY <1>5, <1>6 DEF CallInv

LEMMA PauseCalls ==
  ASSUME IInv, CallInv, NEW p \in Procs, Pause(p)
  PROVE  CallInv' /\ SignalInterrupts
<1> USE DEF timerVars, treeVars
<1>1. /\ kpc \in {"user", "resume"} /\ current = p /\ SleepOn(p, {}, "pause")
      /\ UNCHANGED <<timer, select_wait, parent, group_id, asked, target>>
  BY DEF Pause, InUser
<1>2. cont[p] # "select" /\ timer[p] = "none"
  BY <1>1, CallInvNow, CpuRunnable, ProcsAssumption, RunnableIsFree
  DEF Pause, InUser, NoCallInUser, Runnable
<1>3. {} \in SUBSET Queues
  OBVIOUS
<1>4. /\ SleepsAsAsked' /\ AnswersAreFresh' /\ SignalInterrupts
      /\ kcont = "none" /\ kcont' = "none"
      /\ \A r \in Procs :
           /\ state'[r] = IF r = p THEN "sleeping" ELSE state[r]
           /\ cont'[r] = IF r = p THEN "pause" ELSE cont[r]
  BY <1>1, <1>2, <1>3, SleepOnCalls
<1>5. ExitTellsParent' /\ WaitpidMissesNoChild'
  BY <1>1, <1>4, TreeStep
<1> QED  BY <1>4, <1>5 DEF CallInv

LEMMA SleepCalls ==
  ASSUME IInv, CallInv, NEW p \in Procs, NEW d, Sleep(p, d)
  PROVE  CallInv' /\ SignalInterrupts
<1> USE DEF blockVars, flagVars, treeVars, Sleep, InUser
<1>1. cont[p] = "none" /\ owners[p] = {} /\ kcont = "none"
  BY CallInvNow, CpuRunnable, ProcsAssumption, RunnableIsFree DEF NoCallInUser, Runnable
<1>2. \A r \in Procs :
        /\ state'[r] = IF r = p THEN "sleeping" ELSE state[r]
        /\ cont'[r] = IF r = p THEN "sleep" ELSE cont[r]
        /\ timer'[r] = IF r = p THEN "wait" ELSE timer[r]
  BY DEF InsertTimer, IInv, TypeOK
<1>3. \A r \in Procs : r # p => SameCall(r)
  BY <1>2 DEF SameCall
<1>4. AsleepAsAsked(p)' /\ FreshAnswer(p)'
  BY <1>1, <1>2, CallInvNow DEF AsleepAsAsked, FreshAnswer
<1>5. NoCallInUser'
  BY DEF NoCallInUser
<1>6. SleepsAsAsked' /\ AnswersAreFresh'
  BY <1>3, <1>4, <1>5, CallStep
<1>7. ExitTellsParent' /\ WaitpidMissesNoChild'
  BY <1>1, <1>2, TreeStep
<1>8. SignalInterrupts
  BY DEF SignalInterrupts
<1> QED  BY <1>6, <1>7, <1>8 DEF CallInv

(* Signal sig is sent to the live process t.                               *)
LEMMA SignalCalls ==
  ASSUME IInv, CallInv, NEW t \in Procs, NEW sig, NEW Q, NEW S,
         NEW O \in [Procs -> SUBSET Queues], NEW T \in [Procs -> TimerKinds],
         \A r \in Procs : O[r] = owners[r] /\ T[r] = timer[r],
         SendSignal(t, sig, Q, O, T, S), state[t] \notin {"absent", "finished"},
         UNCHANGED <<current, select_wait, callVars>>, NoCallInUser'
  PROVE  /\ SleepsAsAsked' /\ AnswersAreFresh' /\ SignalInterrupts
         /\ \A r \in Procs : state'[r] = state[r] \/ state'[r] = "running"
<1> USE DEF callVars
<1>1. /\ signal_queue' = [signal_queue EXCEPT ![t] = @ \cup {sig}]
      /\ sig \in signal_queue'[t]
  BY DEF SendSignal, IInv, TypeOK
<1>2. CASE t # current /\ ~Schedulable(t)
  <2>1. MarkReady(t, Q, O, T, S) /\ state[t] = "sleeping"
    BY <1>2 DEF SendSignal, IInv, TypeOK, Schedulable
  <2>2. \A r \in Procs :
          /\ state'[r] = IF r = t THEN "running" ELSE state[r]
          /\ owners'[r] = IF r = t THEN {} ELSE owners[r]
          /\ timer'[r] = IF r = t THEN "none" ELSE timer[r]
          /\ r # t => interrupted'[r] = interrupted[r]
    BY <2>1, MarkReadyFields
  <2>3. \A r \in Procs : r # t => SameCall(r)
    BY <2>2 DEF SameCall
  <2>4. select_wait[t] = None
    BY <2>1, CallInvNow DEF FreshAnswer, Schedulable
  <2>5. AsleepAsAsked(t)' /\ FreshAnswer(t)'
    BY <2>2, <2>4 DEF AsleepAsAsked, FreshAnswer
  <2>6. SleepsAsAsked' /\ AnswersAreFresh'
    BY <2>3, <2>5, CallStep
  <2>7. SignalInterrupts
    BY <1>1, <2>2 DEF SignalInterrupts
  <2> QED  BY <2>2, <2>6, <2>7
<1>3. CASE ~(t # current /\ ~Schedulable(t))
  <2>1. UNCHANGED <<state, interrupted>> /\ owners' = O /\ timer' = T
    BY <1>3 DEF SendSignal
  <2>2. \A r \in Procs : SameCall(r)
    BY <2>1 DEF SameCall
  <2>3. SleepsAsAsked' /\ AnswersAreFresh'
    BY <2>2, CallStep
  <2> QED  BY <2>1, <2>3 DEF SignalInterrupts
<1> QED  BY <1>2, <1>3

LEMMA KillCalls ==
  ASSUME IInv, CallInv, NEW p \in Procs, NEW t \in Procs, NEW sig, Kill(p, t, sig)
  PROVE  CallInv' /\ SignalInterrupts
<1> USE DEF treeVars, callVars, Return
<1>1. /\ kpc = "user" /\ state[t] \notin {"absent", "finished"}
      /\ SendSignal(t, sig, queue, owners, timer, sleep_queue)
      /\ UNCHANGED <<current, select_wait, callVars, parent, group_id, kq, kcont>>
  BY DEF Kill, InUser
<1>2. NoCallInUser'
  BY <1>1, CallInvNow DEF NoCallInUser
<1>3. owners \in [Procs -> SUBSET Queues] /\ timer \in [Procs -> TimerKinds]
  BY CoherentNow DEF Coherent
<1>4. /\ SleepsAsAsked' /\ AnswersAreFresh' /\ SignalInterrupts
      /\ \A r \in Procs : state'[r] = state[r] \/ state'[r] = "running"
  BY <1>1, <1>2, <1>3, SignalCalls
<1>5. ExitTellsParent' /\ WaitpidMissesNoChild'
  BY <1>1, <1>4, TreeStep
<1> QED  BY <1>4, <1>5 DEF CallInv

(* The current process starts to exit: it is not init, so its children     *)
(* change hands and the ones init forked itself are not among them.        *)
LEMMA ExitBeginCalls ==
  ASSUME IInv, CallInv, current \in Procs \ {InitProc}, kpc \in {"user", "signals"},
         ExitBegin(current)
  PROVE  CallInv' /\ SignalInterrupts
<1> USE DEF timerVars, blockVars, flagVars, callVars
<1>1. /\ cont[current] = "none" /\ kcont = "none" /\ state[current] \in Runnable
      /\ parent[current] # current
  BY CallInvNow, CpuRunnable, ProcsAssumption DEF NoCallInUser, IInv, InitIsSafe
<1>2. /\ UNCHANGED <<current, owners, timer, interrupted, select_wait, cont, asked,
                     target, group_id>>
      /\ kpc' = "wake" /\ kq' = parent[current] /\ kcont' = "exit"
      /\ parent' = [c \in Procs |-> IF parent[c] = current THEN InitProc ELSE parent[c]]
      /\ \A r \in Procs : state'[r] = IF r = current THEN "finished" ELSE state[r]
  BY DEF ExitBegin, IInv, TypeOK
<1>3. \A r \in Procs : SameCall(r) \/ (AsleepAsAsked(r)' /\ FreshAnswer(r)')
  <2> TAKE r \in Procs
  <2>1. CASE r = current
    BY <1>1, <1>2, <2>1, CallInvNow DEF AsleepAsAsked, FreshAnswer
  <2>2. CASE r # current
    BY <1>2, <2>2 DEF SameCall
  <2> QED  BY <2>1, <2>2
<1>4. NoCallInUser'
  BY <1>1, <1>2 DEF NoCallInUser
<1>5. SleepsAsAsked' /\ AnswersAreFresh'
  BY <1>3, <1>4, CallStep
<1>6. ExitTellsParent'
  <2>1. \A c \in Procs : parent'[c] \in {group_id'[c], InitProc}
    BY <1>2, CallInvNow DEF ExitTellsParent
  <2>2. kq' = parent'[current']
    BY <1>1, <1>2
  <2> QED  BY <2>1, <2>2 DEF ExitTellsParent
<1>7. WaitpidMissesNoChild'
  <2> SUFFICES ASSUME NEW p \in Procs, NEW c \in Procs, state'[p] = "sleeping",
                      cont'[p] = "waitpid", c \in Pickable(p, target[p])',
                      group_id'[c] = p, state'[c] = "finished", c # current
               PROVE  FALSE
    BY <1>2 DEF WaitpidMissesNoChild
  <2>1. state[p] = "sleeping" /\ cont[p] = "waitpid" /\ state[c] = "finished"
    BY <1>2
  <2>2. parent'[c] = p /\ CanPick(c, p, target[p])
    BY <1>2 DEF Pickable, CanPick
  <2>3. parent[c] = p
    BY <1>2, <2>2, CallInvNow DEF ExitTellsParent
  <2> QED  BY <1>1, <1>2, <2>1, <2>2, <2>3, CallInvNow DEF WaitpidMissesNoChild, Pickable
<1>8. SignalInterrupts
  BY <1>2 DEF SignalInterrupts
<1> QED  BY <1>5, <1>6, <1>7, <1>8 DEF CallInv

LEMMA DeliverCalls ==
  ASSUME IInv, CallInv, Deliver
  PROVE  CallInv' /\ SignalInterrupts
<1> USE DEF schedVars, timerVars, blockVars, flagVars, treeVars, callVars
<1>1. kpc = "signals" /\ current \in Procs
  BY DEF Deliver, IInv, ControlOK
<1>2. CASE ExitBegin(current)
  <2>1. current # InitProc
    <3>1. kcont = "none"
      BY <1>1, CpuRunnable
    <3>2. kcont' = "exit"
      BY <1>2 DEF ExitBegin
    <3> QED  BY <1>1, <3>1, <3>2 DEF Deliver, IInv, InitIsSafe
  <2> QED  BY <1>1, <1>2, <2>1, ExitBeginCalls
<1>3. CASE ~ExitBegin(current)
  <2>1. /\ UNCHANGED <<state, current, owners, timer, interrupted, select_wait, parent,
                       group_id, cont, asked, target, kq, kcont>>
        /\ kpc' \in {"user", "signals"}
    BY <1>3 DEF Deliver
  <2>2. \A r \in Procs : SameCall(r)
    BY <2>1 DEF SameCall
  <2>3. NoCallInUser'
    BY <1>1, <2>1, CallInvNow DEF NoCallInUser
  <2>4. SleepsAsAsked' /\ AnswersAreFresh'
    BY <2>2, <2>3, CallStep
  <2>5. ExitTellsParent' /\ WaitpidMissesNoChild'
    BY <2>1, TreeStep
  <2> QED  BY <2>1, <2>4, <2>5 DEF CallInv, SignalInterrupts
<1> QED  BY <1>2, <1>3

LEMMA ExitCalls ==
  ASSUME IInv, CallInv, NEW p \in Procs, Exit(p)
  PROVE  CallInv' /\ SignalInterrupts
BY ExitBeginCalls DEF Exit, InUser

(* The end of exit: the parent's wait queue is empty, so it does not sleep *)
(* in waitpid when the dying process becomes a zombie.                     *)
LEMMA ExitFinishCalls ==
  ASSUME IInv, CallInv, ExitFinish
  PROVE  CallInv' /\ SignalInterrupts
<1> USE DEF treeVars, callVars
<1> DEFINE O == [owners EXCEPT ![current] = {}]
           T == [timer EXCEPT ![current] = "none"]
           Q == Without(queue, current, owners[current])
           S == list_delete_element(sleep_queue, current)
           t == parent[current]
<1>1. /\ kpc = "wake" /\ kcont = "exit" /\ queue[kq] = << >> /\ kq = t
      /\ kpc' = "switch" /\ kcont' = "none"
      /\ SendSignal(t, SIGCHLD, Q, O, T, S)
      /\ UNCHANGED <<current, select_wait, parent, group_id, cont, asked, target>>
  BY CallInvNow DEF ExitFinish, ExitTellsParent
<1>2. current \in Procs \ {InitProc} /\ state[current] = "finished"
  BY <1>1 DEF IInv, ControlOK
<1>3. t \in Procs /\ state[t] \notin {"absent", "finished"}
  BY <1>2 DEF IInv, ParentsAreAlive
<1>4. /\ O \in [Procs -> SUBSET Queues] /\ T \in [Procs -> TimerKinds]
      /\ \A r \in Procs : O[r] = owners[r] /\ T[r] = timer[r]
  <2>1. owners \in [Procs -> SUBSET Queues] /\ timer \in [Procs -> TimerKinds]
    BY CoherentNow DEF Coherent
  <2>2. owners[current] = {} /\ timer[current] = "none"
    BY <1>2, RunnableIsFree
  <2> QED  BY <1>2, <2>1, <2>2 DEF TimerKinds
<1>5. NoCallInUser'
  BY <1>1 DEF NoCallInUser
<1>6. ~(state[t] = "sleeping" /\ cont[t] = "waitpid")
  <2>1. state[t] = "sleeping" /\ cont[t] = "waitpid" => owners[t] = {t}
    BY <1>3, CallInvNow DEF AsleepAsAsked
  <2>2. t \in owners[t] => t \in Range(queue[t])
    BY <1>3 DEF IInv, BlocksAgree, AgreeOn, Queues
  <2>3. t \notin Range(queue[t])
    BY <1>1, EmptyList
  <2> QED  BY <2>1, <2>2, <2>3
<1> HIDE DEF O, T, Q, S
<1>7. /\ SleepsAsAsked' /\ AnswersAreFresh' /\ SignalInterrupts
      /\ \A r \in Procs : state'[r] = state[r] \/ state'[r] = "running"
  BY <1>1, <1>3, <1>4, <1>5, SignalCalls
<1>8. ExitTellsParent'
  BY <1>1, CallInvNow DEF ExitTellsParent
<1>9. WaitpidMissesNoChild'
  <2> SUFFICES ASSUME NEW p \in Procs, NEW c \in Procs, state'[p] = "sleeping",
                      cont'[p] = "waitpid", c \in Pickable(p, target[p])',
                      group_id'[c] = p, state'[c] = "finished"
               PROVE  FALSE
    BY DEF WaitpidMissesNoChild
  <2>1. /\ state[p] = "sleeping" /\ cont[p] = "waitpid" /\ state[c] = "finished"
        /\ parent[c] = p /\ CanPick(c, p, target[p]) /\ group_id[c] = p
    BY <1>1, <1>7 DEF Pickable, CanPick
  <2>2. c = current
    BY <2>1, CallInvNow DEF WaitpidMissesNoChild, Pickable
  <2> QED  BY <1>6, <2>1, <2>2
<1> QED  BY <1>7, <1>8, <1>9 DEF CallInv

(* A new process is not in a system call and has not exited.               *)
LEMMA ForkCalls ==
  ASSUME IInv, CallInv, NEW p \in Procs, NEW c \in Procs, Fork(p, c)
  PROVE  CallInv' /\ SignalInterrupts
<1> USE DEF timerVars, blockVars, Return, InUser, Fork
<1>1. kcont = "none" /\ cont[p] = "none" /\ select_wait[p] = None /\ c # p
  BY CpuRunnable, CallInvNow, ProcsAssumption DEF NoCallInUser, FreshAnswer, Runnable
<1>2. \A r \in Procs :
        /\ state'[r] = IF r = c THEN "running" ELSE state[r]
        /\ cont'[r] = IF r = c THEN "fork" ELSE cont[r]
        /\ select_wait'[r] = IF r = c THEN None ELSE select_wait[r]
        /\ r # c => interrupted'[r] = interrupted[r]
        /\ parent'[r] = IF r = c THEN p ELSE parent[r]
        /\ group_id'[r] = IF r = c THEN p ELSE group_id[r]
  BY <1>1 DEF IInv, TypeOK
<1>3. UNCHANGED <<current, owners, timer, asked, target, kq, kcont>>
  OBVIOUS
<1>4. \A r \in Procs : r # c => SameCall(r)
  BY <1>2, <1>3 DEF SameCall
<1>5. AsleepAsAsked(c)' /\ FreshAnswer(c)'
  BY <1>2 DEF AsleepAsAsked, FreshAnswer
<1>6. NoCallInUser'
  BY <1>1, <1>2 DEF NoCallInUser
<1>7. SleepsAsAsked' /\ AnswersAreFresh'
  BY <1>4, <1>5, <1>6, CallStep
<1>8. ExitTellsParent'
  BY <1>1, <1>2, <1>3, CallInvNow DEF ExitTellsParent
<1>9. WaitpidMissesNoChild'
  <2> SUFFICES ASSUME NEW q \in Procs, NEW d \in Procs, state'[q] = "sleeping",
                      cont'[q] = "waitpid", d \in Pickable(q, target[q])',
                      group_id'[d] = q, state'[d] = "finished"
               PROVE  FALSE
    BY DEF WaitpidMissesNoChild
  <2>1. d # c /\ q # c
    BY <1>2
  <2>2. /\ state[q] = "sleeping" /\ cont[q] = "waitpid" /\ state[d] = "finished"
        /\ parent[d] = q /\ CanPick(d, q, target[q]) /\ group_id[d] = q
    BY <1>2, <1>3, <2>1 DEF Pickable, CanPick
  <2> QED  BY <1>1, <2>2, CallInvNow DEF WaitpidMissesNoChild, Pickable
<1>10. SignalInterrupts
  BY <1>2 DEF SignalInterrupts
<1> QED  BY <1>7, <1>8, <1>9, <1>10 DEF CallInv

(* waitpid sleeps only when no child it waits for has exited.              *)
LEMMA WaitpidCalls ==
  ASSUME IInv, CallInv, NEW p \in Procs, NEW t, NEW nohang, current = p,
         \/ kpc = "user"
         \/ kpc = "resume" /\ cont[p] = "waitpid",
         WaitpidRound(p, t, nohang), t \in Targets
  PROVE  CallInv' /\ SignalInterrupts
<1> USE DEF timerVars, blockVars, flagVars, sigVars, treeVars, Return
<1>1. /\ kcont = "none" /\ cont[p] # "select" /\ state[p] \in Runnable
      /\ select_wait[p] = None /\ timer[p] = "none"
  BY CpuRunnable, CallInvNow, ProcsAssumption, RunnableIsFree
  DEF NoCallInUser, FreshAnswer, Runnable
<1>2. ASSUME NEW c \in Procs, state[c] = "finished", Destroy(c),
             cont' = [cont EXCEPT ![p] = "none"], target' = [target EXCEPT ![p] = "any"],
             UNCHANGED <<owners, timer, asked, current, kq, kcont>>
      PROVE  CallInv' /\ SignalInterrupts
  <2>1. c # p
    BY <1>1, <1>2 DEF Runnable
  <2>2. \A r \in Procs :
          /\ state'[r] = IF r = c THEN "absent" ELSE state[r]
          /\ cont'[r] = IF r = p THEN "none" ELSE cont[r]
          /\ target'[r] = IF r = p THEN "any" ELSE target[r]
          /\ select_wait'[r] = IF r = c THEN None ELSE select_wait[r]
          /\ r # c => interrupted'[r] = interrupted[r]
          /\ parent'[r] = IF r = c THEN None ELSE parent[r]
          /\ group_id'[r] = IF r = c THEN None ELSE group_id[r]
    BY <1>2 DEF Destroy, IInv, TypeOK
  <2>3. \A r \in Procs : r \notin {c, p} => SameCall(r)
    BY <1>2, <2>2 DEF SameCall
  <2>4. AsleepAsAsked(c)' /\ FreshAnswer(c)'
    BY <2>2 DEF AsleepAsAsked, FreshAnswer
  <2>5. AsleepAsAsked(p)' /\ FreshAnswer(p)'
    BY <1>1, <2>1, <2>2 DEF AsleepAsAsked, FreshAnswer, Runnable
  <2>6. NoCallInUser'
    BY <1>2, <2>2 DEF NoCallInUser
  <2>7. SleepsAsAsked' /\ AnswersAreFresh'
    BY <2>3, <2>4, <2>5, <2>6, CallStep
  <2>8. ExitTellsParent'
    BY <1>1, <1>2, <2>2, CallInvNow DEF ExitTellsParent
  <2>9. WaitpidMissesNoChild'
    <3> SUFFICES ASSUME NEW q \in Procs, NEW d \in Procs, state'[q] = "sleeping",
                        cont'[q] = "waitpid", d \in Pickable(q, target[q])',
                        group_id'[d] = q, state'[d] = "finished"
                 PROVE  FALSE
      BY DEF WaitpidMissesNoChild
    <3>1. d # c /\ q \notin {c, p}
      BY <2>2
    <3>2. /\ state[q] = "sleeping" /\ cont[q] = "waitpid" /\ state[d] = "finished"
          /\ parent[d] = q /\ CanPick(d, q, target[q]) /\ group_id[d] = q
      BY <2>2, <3>1 DEF Pickable, CanPick
    <3> QED  BY <1>1, <3>2, CallInvNow DEF WaitpidMissesNoChild, Pickable
  <2>10. SignalInterrupts
    BY <1>2, <2>2 DEF SignalInterrupts
  <2> QED  BY <2>7, <2>8, <2>9, <2>10 DEF CallInv
<1>3. ASSUME cont' = [cont EXCEPT ![p] = "none"], target' = [target EXCEPT ![p] = "any"],
             UNCHANGED <<state, owners, timer, interrupted, select_wait, parent, group_id,
                         asked, current, kq, kcont>>
      PROVE  CallInv' /\ SignalInterrupts
  <2>1. \A r \in Procs : /\ cont'[r] = IF r = p THEN "none" ELSE cont[r]
                         /\ target'[r] = IF r = p THEN "any" ELSE target[r]
    BY <1>3 DEF IInv, TypeOK
  <2>2. \A r \in Procs : r # p => SameCall(r)
    BY <1>3, <2>1 DEF SameCall
  <2>3. AsleepAsAsked(p)' /\ FreshAnswer(p)'
    BY <1>1, <1>3 DEF AsleepAsAsked, FreshAnswer, Runnable
  <2>4. NoCallInUser'
    BY <1>3, <2>1 DEF NoCallInUser
  <2>5. SleepsAsAsked' /\ AnswersAreFresh'
    BY <2>2, <2>3, <2>4, CallStep
  <2>6. ExitTellsParent'
    BY <1>3, CallInvNow DEF ExitTellsParent
  <2>7. WaitpidMissesNoChild'
    <3>1. \A q \in Procs : cont'[q] = "waitpid" =>
            cont[q] = "waitpid" /\ Pickable(q, target[q])' = Pickable(q, target[q])
      BY <1>3, <2>1 DEF Pickable, CanPick
    <3> QED  BY <1>3, <3>1, CallInvNow DEF WaitpidMissesNoChild
  <2> QED  BY <1>3, <2>5, <2>6, <2>7 DEF CallInv, SignalInterrupts
<1>4. ASSUME {c \in Pickable(p, t) : state[c] = "finished"} = {},
             SleepOn(p, {p}, "waitpid"), target' = [target EXCEPT ![p] = t],
             UNCHANGED <<timer, select_wait, parent, group_id, asked>>
      PROVE  CallInv' /\ SignalInterrupts
  <2>1. {p} \in SUBSET Queues
    BY DEF Queues
  <2>2. /\ SleepsAsAsked' /\ AnswersAreFresh' /\ SignalInterrupts
        /\ kcont' = "none"
        /\ \A r \in Procs : /\ state'[r] = IF r = p THEN "sleeping" ELSE state[r]
                            /\ cont'[r] = IF r = p THEN "waitpid" ELSE cont[r]
    BY <1>1, <1>4, <2>1, SleepOnCalls
  <2>3. \A r \in Procs : target'[r] = IF r = p THEN t ELSE target[r]
    BY <1>4 DEF IInv, TypeOK
  <2>4. ExitTellsParent'
    BY <1>4, <2>2, CallInvNow DEF ExitTellsParent
  <2>5. WaitpidMissesNoChild'
    <3> SUFFICES ASSUME NEW q \in Procs, NEW d \in Procs, state'[q] = "sleeping",
                        cont'[q] = "waitpid", d \in Pickable(q, target[q])',
                        group_id'[d] = q, state'[d] = "finished"
                 PROVE  FALSE
      BY DEF WaitpidMissesNoChild
    <3>1. state[d] = "finished" /\ d \in Pickable(q, target'[q])
      BY <1>4, <2>2 DEF Pickable, CanPick
    <3>2. CASE q = p
      BY <1>4, <2>3, <3>1, <3>2
    <3>3. CASE q # p
      BY <1>1, <1>4, <2>2, <2>3, <3>1, <3>3, CallInvNow DEF WaitpidMissesNoChild
    <3> QED  BY <3>2, <3>3
  <2> QED  BY <2>2, <2>4, <2>5 DEF CallInv
<1> DEFINE zombies == {c \in Pickable(p, t) : state[c] = "finished"}
<1>5. CASE zombies # {}
  BY <1>2, <1>5 DEF WaitpidRound, Pickable
<1>6. CASE zombies = {}
  BY <1>3, <1>4, <1>6 DEF WaitpidRound
<1> QED  BY <1>5, <1>6

LEMMA InitCallInv ==
  ASSUME Init
  PROVE  CallInv
<1> USE DEF Init
<1>1. None \notin Procs /\ InitProc \in Procs
  BY ProcsAssumption DEF Queues
<1>2. SleepsAsAsked /\ WaitpidMissesNoChild
  BY DEF SleepsAsAsked, WaitpidMissesNoChild
<1>3. AnswersAreFresh /\ ExitTellsParent
  BY <1>1 DEF AnswersAreFresh, SelectAnswersTheQuestion, ExitTellsParent
<1> QED  BY <1>2, <1>3 DEF CallInv

(* Every step preserves CallInv, and interrupts no sleeping process to     *)
(* which it does not post a signal.                                        *)
LEMMA NextCallInv ==
  ASSUME IInv, CallInv, [Next]_vars
  PROVE  CallInv' /\ SignalInterrupts
<1>1. ASSUME UNCHANGED interrupted  PROVE SignalInterrupts
  BY <1>1 DEF SignalInterrupts
<1>2. CASE UNCHANGED vars
  <2>1. CallInv'
    BY <1>2, QuietCalls
  <2> QED  BY <1>1, <1>2, <2>1 DEF vars, flagVars
<1>3. ASSUME NEW p \in Procs, Syscall(p)
      PROVE  CallInv' /\ SignalInterrupts
  <2>1. ASSUME NEW q \in BlockQs, BlockOn(p, q)  PROVE CallInv' /\ SignalInterrupts
    BY <2>1, BlockCalls
  <2>2. ASSUME NEW qs \in SUBSET SelectQs, NEW d \in 0..MaxSleep,
               qs # {} \/ d # 0, Select(p, qs, d)
        PROVE  CallInv' /\ SignalInterrupts
    BY <2>2, SelectCalls
  <2>3. ASSUME NEW d \in 0..MaxSleep, Sleep(p, d)  PROVE CallInv' /\ SignalInterrupts
    BY <2>3, SleepCalls
  <2>4. ASSUME NEW t \in Procs, NEW sig \in Signals, Kill(p, t, sig)
        PROVE  CallInv' /\ SignalInterrupts
    BY <2>4, KillCalls
  <2>5. ASSUME NEW act \in SigActs, SigAct(p, act[1], act[2])
        PROVE  CallInv' /\ SignalInterrupts
    <3>1. CallInv'
      BY <2>5, QuietCalls
    <3> QED  BY <1>1, <2>5, <3>1 DEF SigAct, flagVars
  <2>6. ASSUME NEW c \in Procs, Fork(p, c)  PROVE CallInv' /\ SignalInterrupts
    BY <2>6, ForkCalls
  <2>7. ASSUME Exit(p)  PROVE CallInv' /\ SignalInterrupts
    BY <2>7, ExitCalls
  <2>8. ASSUME NEW t \in Targets, NEW nohang \in BOOLEAN, Waitpid(p, t, nohang)
        PROVE  CallInv' /\ SignalInterrupts
    <3>1. kpc = "user" /\ current = p /\ WaitpidRound(p, t, nohang)
      BY <2>8 DEF Waitpid, InUser
    <3> QED  BY <3>1, WaitpidCalls
  <2>9. CASE Pause(p)
    BY <2>9, PauseCalls
  <2>10. ASSUME NEW how \in {"cycle", "zombie"}, Lose(how)
         PROVE  CallInv' /\ SignalInterrupts
    <3>1. CallInv'
      BY <2>10, QuietCalls
    <3> QED  BY <1>1, <2>10, <3>1 DEF Lose, flagVars
  <2>11. ASSUME NEW d, LinkCycle(p, d)  PROVE CallInv' /\ SignalInterrupts
    BY <2>10, <2>11 DEF LinkCycle
  <2>12. ASSUME NEW t \in Procs, NEW sig \in Signals, TtySignal(p, t, sig)
         PROVE  CallInv' /\ SignalInterrupts
    BY <2>4, <2>10, <2>12 DEF TtySignal
  <2> QED  BY <1>3, <2>1, <2>2, <2>3, <2>4, <2>5, <2>6, <2>7, <2>8, <2>9, <2>11, <2>12
           DEF Syscall
<1>4. CASE Interrupt
  <2>1. CallInv'
    BY <1>4, QuietCalls DEF Interrupt
  <2> QED  BY <1>1, <1>4, <2>1 DEF Interrupt, Tick, WakeupQueue, flagVars
<1>5. CASE ResumeWaitpid
  <2>1. /\ kpc = "resume" /\ current \in Procs /\ cont[current] = "waitpid"
        /\ target[current] \in Targets
        /\ WaitpidRound(current, target[current], FALSE)
    BY <1>5 DEF ResumeWaitpid, IInv, ControlOK, TypeOK
  <2> QED  BY <2>1, WaitpidCalls
<1>6. CASE Kernel /\ ~ResumeWaitpid
  <2>1. CASE Switch
    BY <1>1, <2>1, SwitchCalls DEF Switch, flagVars
  <2>2. CASE ResumeUser \/ ResumeDriver \/ ResumeSleep \/ ResumeSelect
    <3>1. CallInv'
      BY <2>2, ResumeCalls
    <3>2. UNCHANGED interrupted
      BY <2>2 DEF ResumeUser, ResumeDriver, ResumeSleep, ResumeSelect, flagVars
    <3> QED  BY <1>1, <3>1, <3>2
  <2>3. CASE WakeupDone \/ NoSignal
    <3>1. CallInv'
      BY <2>3, QuietCalls
    <3> QED  BY <1>1, <2>3, <3>1 DEF WakeupDone, NoSignal, flagVars
  <2>4. CASE WakeupTiming \/ WakeupSingle \/ WakeupSingleSelect \/ Preempt
    BY <2>4, WakeupTimingCalls, WakeupSingleCalls, WakeupSingleSelectCalls, PreemptCalls
  <2>5. ASSUME NEW q \in BlockQs, BlockAgain(q)  PROVE CallInv' /\ SignalInterrupts
    BY <2>5, BlockCalls
  <2>6. CASE Deliver \/ ExitFinish
    BY <2>6, DeliverCalls, ExitFinishCalls
  <2> QED  BY <1>6, <2>1, <2>2, <2>3, <2>4, <2>5, <2>6 DEF Kernel
<1> QED  BY <1>2, <1>3, <1>4, <1>5, <1>6 DEF Next, Stop

(* The second inductive invariant: in every reachable state each sleeping  *)
(* process is blocked on what its system call asked for, answers of        *)
(* select() are fresh, and exits reach the parent that forked the process. *)
THEOREM CallInvariance == Spec => []CallInv
<1>1. Init => CallInv
  BY InitCallInv
<1>2. IInv /\ CallInv /\ [Next]_vars => CallInv'
  BY NextCallInv
<1> QED  BY <1>1, <1>2, Invariance, PTL DEF Spec

(* The processes on wait queues and on the sleep queue are the sleeping    *)
(* ones: none that is ready, runs or has exited, and no sleeper is on none *)
(* but one that called select with neither files nor timeout.  It holds    *)
(* until the kernel is lost.                                               *)
THEOREM SleepersStayBlocked == Spec => []SleepersAreBlocked
<1>1. IInv /\ CallInv => SleepersAreBlocked
  <2> SUFFICES ASSUME IInv, CallInv, NEW p \in Procs
               PROVE  (owners[p] # {} \/ timer[p] # "none")
                        <=> state[p] = "sleeping" /\ cont[p] # "pause"
    BY DEF SleepersAreBlocked
  <2>1. owners[p] # {} \/ timer[p] # "none" => state[p] = "sleeping"
    BY DEF IInv, BlockedAreAsleep
  <2>2. AsleepAsAsked(p)
    BY CallInvNow
  <2> QED  BY <2>1, <2>2 DEF AsleepAsAsked
<1> QED  BY <1>1, Invariance, CallInvariance, PTL

(* waitpid loses no wakeup, however exits, signals and reparenting         *)
(* interleave: no child that a process forked and waits for has exited     *)
(* while the process sleeps in waitpid, except one whose exit is under way.*)
THEOREM WaitpidSeesEveryChild == Spec => []WaitpidMissesNoChild
BY CallInvariance, PTL DEF CallInv

(* select() reports a queue it was asked about, and a later call finds no  *)
(* answer of an earlier one.                                               *)
THEOREM SelectIsAnswered == Spec => []SelectAnswersTheQuestion
BY CallInvariance, PTL DEF CallInv, AnswersAreFresh

(* A sleep comes to report an interruption only while a signal is pending  *)
(* for the process: no event, timeout or child exit sets the flag.         *)
THEOREM OnlySignalsInterrupt == Spec => InterruptedBySignalOnly
<1>1. IInv /\ CallInv /\ [Next]_vars => [SignalInterrupts]_vars
  BY NextCallInv
<1>2. [SignalInterrupts]_vars <=>
        [\A p \in Procs :
           /\ state[p] = "sleeping"
           /\ ~interrupted[p]
           /\ interrupted'[p]
           => signal_queue'[p] # {}]_vars
  BY DEF SignalInterrupts
<1> QED  BY <1>1, <1>2, Invariance, CallInvariance, PTL DEF Spec, InterruptedBySignalOnly
============================================================================
