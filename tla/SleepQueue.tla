----------------------------- MODULE SleepQueue -----------------------------
(***************************************************************************)
(* The sleep queue of kernel/src/proc/process.c as the code keeps it: nodes*)
(* from the heap, linked by pointers, the latest deadline first.  Process  *)
(* has the same queue as a sequence, for the calls that leave it a list.   *)
(*                                                                         *)
(* A freed node keeps what was in it until the heap hands it out again.  A *)
(* node put in front of the first one is linked behind it instead, and the *)
(* two point at each other; history keeps that this happened.  Time is one *)
(* number for the seconds and the microseconds.                            *)
(* Past_Earlier is a faulty variant of the definition that follows it.     *)
(***************************************************************************)
EXTENDS Integers, Sequences, FiniteSets

CONSTANTS Procs, Nodes,   \* processes, and nodes of the heap
          MaxTime, Delays,   \* bound on time, lengths of sleeps
          Null

SleepQueueAssumption ==
  /\ MaxTime \in Nat /\ Delays \subseteq Nat \ {0}
  /\ IsFiniteSet(Nodes) /\ Cardinality(Nodes) >= Cardinality(Procs) /\ Null \notin Nodes

VARIABLES
  now,
  sleep_queue,   \* the first node
  node,          \* [proc, due, next] of each node
  live,          \* nodes that are allocated
  timer,         \* wait_node or timeout_node of each process: where it sleeps
  hung,          \* a walk does not end
  later,         \* history: a node was inserted that is due no sooner than the first
  ticked         \* the last step was the timer's

vars == <<now, sleep_queue, node, live, timer, hung, later, ticked>>

Init ==
  /\ now = 0 /\ sleep_queue = Null /\ live = {}
  /\ node = [n \in Nodes \cup {Null} |-> [proc |-> Null, due |-> 0, next |-> Null]]
  /\ timer = [p \in Procs |-> Null] /\ hung = FALSE /\ later = FALSE /\ ticked = FALSE

Steps == Cardinality(Nodes) + 1

(* The nodes from the first on, as long as a walk can see new ones.        *)
Chain[k \in 1..Steps] == IF k = 1 THEN sleep_queue ELSE node[Chain[k - 1]].next

(* Where a walk stops that goes on over Test; 0 if it never does.          *)
Stop(Test(_)) ==
  LET ends == {k \in 1..Steps : Chain[k] = Null \/ ~Test(Chain[k])}
  IN  IF ends = {} THEN 0 ELSE CHOOSE k \in ends : \A j \in ends : k <= j

Past_Earlier(n, d) == node[n].due < d
(* The nodes an insertion walks over.                                      *)
Past(n, d) == node[n].due > d

(* k_proc_process_sleep and k_proc_process_timeout; then p sleeps.         *)
sleep(p, d, n) ==
  LET due == now + d
      k == Stop(LAMBDA m : Past(m, due))
      new(next) == [proc |-> p, due |-> due, next |-> next]
      prev == IF k = 1 THEN sleep_queue ELSE Chain[k - 1]
  IN
  /\ ~hung /\ timer[p] = Null /\ n \notin live
  /\ ticked' = FALSE
  /\ IF k = 0 THEN hung' = TRUE /\ UNCHANGED <<sleep_queue, node, live, timer, later>>
     ELSE /\ live' = live \cup {n} /\ timer' = [timer EXCEPT ![p] = n]
          /\ later' = (later \/ (sleep_queue # Null /\ node[sleep_queue].due <= due))
          /\ IF sleep_queue = Null
             THEN sleep_queue' = n /\ node' = [node EXCEPT ![n] = new(Null)]
             ELSE node' = [node EXCEPT ![n] = new(Chain[k]), ![prev].next = n] /\ UNCHANGED sleep_queue
          /\ UNCHANGED hung
  /\ UNCHANGED now

(* __k_proc_process_remove_from_sleep_queue and k_free of the node, when a *)
(* signal or an event makes p ready (k_proc_process_invalidate_locks).     *)
wakeup(p) ==
  LET t == timer[p]
      k == Stop(LAMBDA m : m # t)
  IN
  /\ ~hung /\ t # Null
  /\ ticked' = FALSE
  /\ IF k = 0 THEN hung' = TRUE /\ UNCHANGED <<sleep_queue, node, live, timer>>
     ELSE /\ live' = live \ {t} /\ timer' = [timer EXCEPT ![p] = Null]
          /\ IF Chain[k] = Null THEN UNCHANGED <<sleep_queue, node>>
             ELSE IF k = 1 THEN sleep_queue' = node[t].next /\ UNCHANGED node
             ELSE node' = [node EXCEPT ![Chain[k - 1]].next = node[t].next] /\ UNCHANGED sleep_queue
          /\ UNCHANGED hung
  /\ UNCHANGED <<now, later>>

Expired(n) == node[n].due <= now'

(* k_proc_process_update_timings and __k_proc_process_wakeup_timing.       *)
tick ==
  /\ ~hung /\ now < MaxTime /\ now' = now + 1
  /\ ticked' = TRUE
  /\ LET k == Stop(Expired)
         popped == {Chain[j] : j \in 1..(k - 1)}
     IN  IF k = 0 THEN hung' = TRUE /\ UNCHANGED <<sleep_queue, live, timer>>
         ELSE /\ sleep_queue' = Chain[k] /\ live' = live \ popped
              /\ timer' = [p \in Procs |-> IF p \in {node[n].proc : n \in popped} THEN Null ELSE timer[p]]
              /\ UNCHANGED hung
  /\ UNCHANGED <<node, later>>

Next ==
  \/ tick
  \/ \E p \in Procs : wakeup(p) \/ \E d \in Delays, n \in Nodes : sleep(p, d, n)

Spec == Init /\ [][Next]_vars

(***************************************************************************)
(* Properties                                                              *)
(***************************************************************************)
Asleep == {p \in Procs : timer[p] # Null}
Length == Stop(LAMBDA n : TRUE) - 1

(* As long as no sleep was due later than all the others, the queue is a   *)
(* list of the nodes of the sleeping processes, each once and none freed,  *)
(* the latest first; whatever wakes the processes, and in any order.       *)
QueueIsExact ==
  ~later =>
    /\ ~hung /\ Length = Cardinality(Asleep)
    /\ {Chain[k] : k \in 1..Length} = {timer[p] : p \in Asleep}
    /\ \A p \in Asleep : timer[p] \in live /\ node[timer[p]].proc = p
    /\ \A k \in 2..Length : node[Chain[k - 1]].due >= node[Chain[k]].due

(* A process may oversleep behind one that sleeps longer, but not past the *)
(* last deadline of all.                                                   *)
NobodySleepsPastAll ==
  ~later /\ ticked /\ (\A p \in Asleep : node[timer[p]].due <= now) => Asleep = {}

(***************************************************************************)
(* What the proofs rest on                                                 *)
(***************************************************************************)
TypeOK ==
  /\ now \in Nat /\ live \subseteq Nodes /\ ticked \in BOOLEAN
  /\ node \in [Nodes \cup {Null} -> [proc : Procs \cup {Null}, due : Nat, next : Nodes \cup {Null}]]
  /\ timer \in [Procs -> Nodes \cup {Null}]

(* The pointers make a list of the n nodes q[1], ..., q[n].                *)
Linked(n, q) ==
  /\ sleep_queue = IF n = 0 THEN Null ELSE q[1]
  /\ \A i \in 1..n : node[q[i]].next = IF i = n THEN Null ELSE q[i + 1]
  /\ \A i, j \in 1..n : q[i] = q[j] => i = j

(* They are the nodes of those who sleep, in use and the latest first; the *)
(* timer has just left the first of them only if it is not due.            *)
Sleeping(n, q) ==
  /\ \A i \in 1..n : q[i] \in live /\ node[q[i]].proc \in Procs /\ timer[node[q[i]].proc] = q[i]
  /\ \A p \in Procs : timer[p] # Null => node[timer[p]].proc = p /\ \E i \in 1..n : q[i] = timer[p]
  /\ \A i, j \in 1..n : i <= j => node[q[i]].due >= node[q[j]].due
  /\ ticked /\ n # 0 => node[q[1]].due > now

SleepInv ==
  ~later => /\ TypeOK /\ ~hung
            /\ \E n \in 0..Cardinality(Nodes) : \E q \in [1..n -> Nodes] : Linked(n, q) /\ Sleeping(n, q)
=============================================================================
