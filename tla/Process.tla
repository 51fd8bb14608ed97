------------------------------ MODULE Process ------------------------------
(***************************************************************************)
(* The process manager of the kernel (kernel/src/proc/process.c) with the  *)
(* system calls that drive it (kernel/src/int/syscall.c): the round-robin  *)
(* scheduler, wait queues, the timed sleep queue, select(), signals,       *)
(* fork, exit and waitpid.                                                 *)
(*                                                                         *)
(* The kernel runs on one core and enters through interrupt gates, so      *)
(* kernel code runs with interrupts off and is left only by returning to   *)
(* user mode or through k_proc_process_yield.  kpc is the kernel's control *)
(* state: while it is not "user" only the kernel path it names can move,   *)
(* one loop iteration at a time.  A process that yields inside a system    *)
(* call remembers in cont[p] where it goes on once it is switched in.      *)
(*                                                                         *)
(* Left out: file descriptors and memory that fork copies and exit frees,  *)
(* return values, accounting and tasklets.  Where the kernel begins to use *)
(* memory it has freed, this module ends (Lost).                           *)
(* The system call yield is added at the end, in YieldSpec.                *)
(* Definitions with a suffix, such as Switch_Lifo, are not part of the     *)
(* model: each is a faulty variant of the definition that follows it.      *)
(***************************************************************************)
EXTENDS Lists

CONSTANTS
  Procs,      \* process_t slots; a slot is reused after its process is reaped
  InitProc,   \* pid 1, the root of process_tree
  Idle,       \* the idle process, never on a queue
  None,       \* NULL
  BlockQs,    \* wait queues drivers sleep on (ring buffers, mutexes, disks)
  SelectQs,   \* select queues: one per file and VFS event
  Signals,    \* the signal numbers in use
  SigActs,    \* pairs <<signal, disposition>> programs pass to sigaction
  MaxSleep    \* longest sleep or timeout, in timer ticks

SIGCHLD == 17

(* SIGINT, SIGQUIT, SIGTSTP.                                               *)
KeySignals == {2, 3, 20}

(* Every wait queue: the wait_queue of process p is named by p itself.     *)
Queues == Procs \cup BlockQs \cup SelectQs

ASSUME ProcsAssumption ==
  /\ InitProc \in Procs
  /\ Idle \notin Procs
  /\ None \notin Queues \cup {Idle}

ASSUME QueuesAssumption ==
  /\ Procs \cap BlockQs = {}
  /\ Procs \cap SelectQs = {}
  /\ BlockQs \cap SelectQs = {}

Dispositions == {"default", "ignored", "handler"}

(* sig_defaults has entries up to SIGSTOP; beyond it lies other data.      *)
ASSUME SignalsAssumption ==
  /\ Signals \subseteq 0..19
  /\ SIGCHLD \in Signals
  /\ SigActs \subseteq Signals \X Dispositions

ASSUME MaxSleepAssumption == MaxSleep \in Nat

(* Arguments of waitpid: -1, 0 or a process id.                            *)
Targets == {"any", "group"} \cup Procs

VARIABLES
  state,         \* process_t.state, "absent" for a free slot
  current,       \* current_core->current_process
  ready_queue,   \* processes waiting for the CPU
  queue,         \* contents of every wait queue
  owners,        \* block_node->owners: the queues a process sits on
  timer,         \* which of wait_node ("wait") and timeout_node ("timeout") is set
  left,          \* ticks until the deadline of that node
  sleep_queue,   \* the processes whose nodes are linked, head first
  interrupted,   \* PROCESS_FLAG_INTERRUPTED
  select_wait,   \* select_wait_node and select_wait_event: the queue that fired
  signal_queue,  \* pending signals
  handler,       \* signals[] and signals_ignored
  parent,        \* node->parent in process_tree
  group_id,
  cont,          \* where the process goes on when it is switched in
  asked,         \* the queues a select() waits for
  target,        \* the pid argument of a waitpid()
  kpc,           \* what the kernel is doing
  kq,            \* the queue a wakeup loop empties
  kcont          \* what follows that loop

schedVars == <<state, current, ready_queue>>
timerVars == <<timer, left, sleep_queue>>
blockVars == <<queue, owners>>
flagVars  == <<interrupted, select_wait>>
sigVars   == <<signal_queue, handler>>
treeVars  == <<parent, group_id>>
callVars  == <<cont, asked, target>>
cpuVars   == <<kpc, kq, kcont>>
vars == <<schedVars, timerVars, blockVars, flagVars, sigVars, treeVars,
          callVars, cpuVars>>

Schedulable(p) == state[p] \in {"starting", "running"}

Terminates_OffByOne(sig) == sig - 1 \in {2, 3, 6, 9, 10, 11, 12}

(* sig_defaults[sig] = SIG_TERMINATE.  The entry of SIGSTOP holds 19, not  *)
(* SIG_STOP, so every other signal is ignored by default.                  *)
Terminates(sig) == sig \in {2, 3, 6, 9, 10, 11, 12}

NoHandlers == [s \in Signals |-> "default"]
----------------------------------------------------------------------------
(* Boot: init runs, every other slot is free.                              *)
Init ==
  /\ state = [p \in Procs |-> IF p = InitProc THEN "starting" ELSE "absent"]
  /\ current = InitProc
  /\ ready_queue = << >>
  /\ queue = [q \in Queues |-> << >>]
  /\ owners = [p \in Procs |-> {}]
  /\ timer = [p \in Procs |-> "none"]
  /\ left = [p \in Procs |-> 0]
  /\ sleep_queue = << >>
  /\ interrupted = [p \in Procs |-> FALSE]
  /\ select_wait = [p \in Procs |-> None]
  /\ signal_queue = [p \in Procs |-> {}]
  /\ handler = [p \in Procs |-> NoHandlers]
  /\ parent = [p \in Procs |-> None]
  /\ group_id = [p \in Procs |-> None]
  /\ cont = [p \in Procs |-> "none"]
  /\ asked = [p \in Procs |-> {}]
  /\ target = [p \in Procs |-> "any"]
  /\ kpc = "user"
  /\ kq = None
  /\ kcont = "none"
----------------------------------------------------------------------------
(* Wait queues.                                                            *)

(* Q without process p on the queues in qs.                                *)
Without(Q, p, qs) ==
  [q \in Queues |-> IF q \in qs THEN list_delete_element(Q[q], p) ELSE Q[q]]

MarkReady_KeepsNode(p, Q, O, T, S) ==
  /\ interrupted' = [interrupted EXCEPT ![p] = @ \/ O[p] # {} \/ T[p] # "none"]
  /\ state' = [state EXCEPT ![p] = "running"]
  /\ queue' = Without(Q, p, O[p])
  /\ owners' = [O EXCEPT ![p] = {}]
  /\ timer' = T
  /\ left' = [left EXCEPT ![p] = 0]
  /\ sleep_queue' = S
  /\ ready_queue' = list_push_back(ready_queue, p)

(* k_proc_process_mark_ready, called when the wait queues, the owner lists,*)
(* the timer nodes and the sleep queue are Q, O, T and S: a process that   *)
(* still sits on a queue or has a node is being interrupted.               *)
MarkReady(p, Q, O, T, S) ==
  /\ interrupted' = [interrupted EXCEPT ![p] = @ \/ O[p] # {} \/ T[p] # "none"]
  /\ state' = [state EXCEPT ![p] = "running"]
  /\ queue' = Without(Q, p, O[p])
  /\ owners' = [O EXCEPT ![p] = {}]
  /\ timer' = [T EXCEPT ![p] = "none"]
  /\ left' = [left EXCEPT ![p] = 0]
  /\ sleep_queue' = IF T[p] # "none" THEN list_delete_element(S, p) ELSE S
  /\ ready_queue' = list_push_back(ready_queue, p)

(* Process p goes to sleep on the queues in qs and yields; it goes on at c.*)
SleepOn(p, qs, c) ==
  /\ queue' = [q \in Queues |->
                 IF q \in qs THEN list_push_back(queue[q], p) ELSE queue[q]]
  /\ owners' = [owners EXCEPT ![p] = @ \cup qs]
  /\ interrupted' = [interrupted EXCEPT ![p] = FALSE]
  /\ state' = [state EXCEPT ![p] = "sleeping"]
  /\ cont' = [cont EXCEPT ![p] = c]
  /\ kpc' = "switch"
  /\ UNCHANGED <<current, ready_queue, kq, kcont>>

(* The system call of the running process returns a value the model leaves *)
(* out, and the dispatcher goes on to deliver signals (POST_INTERRUPT).    *)
Return ==
  /\ kpc' = "signals"
  /\ UNCHANGED <<current, kq, kcont>>

(* A system call can start: process p runs in user mode.                   *)
InUser(p) == kpc = "user" /\ current = p

(* The kernel is about to follow pointers into memory it has freed.        *)
Lost == kpc \in {"cycle", "zombie"}

Lose(how) ==
  /\ kpc' = how
  /\ UNCHANGED <<schedVars, timerVars, blockVars, flagVars, sigVars, treeVars,
                 callVars, kq, kcont>>
----------------------------------------------------------------------------
(* The scheduler.                                                          *)

Switch_Lifo ==
  /\ kpc = "switch"
  /\ IF ready_queue = << >>
     THEN /\ current' = Idle
          /\ kpc' = "user"
          /\ UNCHANGED <<state, ready_queue>>
     ELSE LET p == list_tail(ready_queue) IN
          /\ ready_queue' = list_pop_back(ready_queue)
          /\ current' = p
          /\ state' = [state EXCEPT ![p] = "running"]
          /\ kpc' = "resume"
  /\ UNCHANGED <<timerVars, blockVars, flagVars, sigVars, treeVars, callVars,
                 kq, kcont>>

(* One round of k_proc_process_switch.                                     *)
Switch ==
  /\ kpc = "switch"
  /\ IF ready_queue = << >>
     THEN /\ current' = Idle
          /\ kpc' = "user"
          /\ UNCHANGED <<state, ready_queue>>
     ELSE LET p == list_head(ready_queue) IN
          /\ ready_queue' = list_pop_front(ready_queue)
          /\ IF Schedulable(p)
             THEN /\ current' = p
                  /\ state' = [state EXCEPT ![p] = "running"]
                  /\ kpc' = "resume"
             ELSE UNCHANGED <<current, state, kpc>>
  /\ UNCHANGED <<timerVars, blockVars, flagVars, sigVars, treeVars, callVars,
                 kq, kcont>>

(* IRQ 0 arrives in user mode or in the idle loop.                         *)
Tick ==
  /\ kpc = "user"
  /\ left' = [p \in Procs |-> IF left[p] > 0 THEN left[p] - 1 ELSE 0]
  /\ kpc' = "timing"
  /\ UNCHANGED <<schedVars, timer, sleep_queue, blockVars, flagVars, sigVars,
                 treeVars, callVars, kq, kcont>>

Expired == sleep_queue # << >> /\ left[list_head(sleep_queue)] = 0

(* One round of __k_proc_process_wakeup_timing: only the head is examined. *)
WakeupTiming ==
  /\ kpc = "timing"
  /\ Expired
  /\ LET p == list_head(sleep_queue)
         S == list_pop_front(sleep_queue)
         T == [timer EXCEPT ![p] = "none"]
     IN  IF state[p] = "finished"
         THEN /\ sleep_queue' = S
              /\ UNCHANGED <<schedVars, blockVars, flagVars, timer, left>>
         ELSE IF timer[p] = "timeout"
         THEN /\ MarkReady(p, Without(queue, p, owners[p]),
                           [owners EXCEPT ![p] = {}], T, S)
              /\ select_wait' = [select_wait EXCEPT ![p] = None]
              /\ UNCHANGED current
         ELSE /\ MarkReady(p, queue, owners, T, S)
              /\ UNCHANGED <<current, select_wait>>
  /\ UNCHANGED <<sigVars, treeVars, callVars, cpuVars>>

(* The timer interrupt ends in k_proc_process_yield.                       *)
Preempt ==
  /\ kpc = "timing"
  /\ ~Expired
  /\ IF current # Idle /\ Schedulable(current)
     THEN /\ MarkReady(current, queue, owners, timer, sleep_queue)
          /\ cont' = [cont EXCEPT ![current] = "irq"]
     ELSE UNCHANGED <<state, ready_queue, timerVars, blockVars, interrupted, cont>>
  /\ kpc' = "switch"
  /\ UNCHANGED <<current, select_wait, sigVars, treeVars, asked, target, kq, kcont>>

(* A process switched in after a preemption, or for the first time after   *)
(* fork: __k_proc_process_fork_return goes straight to user mode.          *)
ResumeUser ==
  /\ kpc = "resume"
  /\ cont[current] \in {"irq", "fork"}
  /\ kpc' = IF cont[current] = "irq" THEN "signals" ELSE "user"
  /\ cont' = [cont EXCEPT ![current] = "none"]
  /\ UNCHANGED <<schedVars, timerVars, blockVars, flagVars, sigVars, treeVars,
                 asked, target, kq, kcont>>
----------------------------------------------------------------------------
(* Sleeping on the queue of a driver, and waking it up.                    *)

(* A driver finds its condition false and calls sleep_on_queue.            *)
BlockOn(p, q) ==
  /\ InUser(p)
  /\ SleepOn(p, {q}, "queue")
  /\ UNCHANGED <<timerVars, select_wait, sigVars, treeVars, asked, target>>

(* The driver goes on: when interrupted it gives up, else its loop tests   *)
(* the condition again.                                                    *)
ResumeDriver ==
  /\ kpc = "resume"
  /\ cont[current] = "queue"
  /\ cont' = [cont EXCEPT ![current] = "none"]
  /\ Return
  /\ UNCHANGED <<state, ready_queue, timerVars, blockVars, flagVars, sigVars,
                 treeVars, asked, target>>

BlockAgain(q) ==
  /\ kpc = "resume"
  /\ cont[current] = "queue"
  /\ ~interrupted[current]
  /\ SleepOn(current, {q}, "queue")
  /\ UNCHANGED <<timerVars, select_wait, sigVars, treeVars, asked, target>>

(* A system call of the running process, or the interrupt of a device,     *)
(* starts k_proc_process_wakeup_queue or ..._wakeup_queue_select on q.     *)
WakeupQueue(q) ==
  /\ kpc = "user"
  /\ kpc' = "wake"
  /\ kq' = q
  /\ UNCHANGED <<schedVars, timerVars, blockVars, flagVars, sigVars, treeVars,
                 callVars, kcont>>

WakeupSingle_KeepsOwner ==
  /\ kpc = "wake"
  /\ kq \notin SelectQs
  /\ queue[kq] # << >>
  /\ LET p == list_tail(queue[kq]) IN
     MarkReady(p, [queue EXCEPT ![kq] = list_pop_back(@)], owners, timer, sleep_queue)
  /\ UNCHANGED <<current, select_wait, sigVars, treeVars, callVars, cpuVars>>

(* One round of k_proc_process_wakeup_queue_single: the last process on    *)
(* the queue leaves it and is made ready.                                  *)
WakeupSingle ==
  /\ kpc = "wake"
  /\ kq \notin SelectQs
  /\ queue[kq] # << >>
  /\ LET p == list_tail(queue[kq])
         Q == [queue EXCEPT ![kq] = list_pop_back(@)]
         O == [owners EXCEPT ![p] = @ \ {kq}]
     IN  IF state[p] # "finished" /\ ~Schedulable(p)
         THEN /\ MarkReady(p, Q, O, timer, sleep_queue)
              /\ UNCHANGED <<current, select_wait>>
         ELSE /\ queue' = Q
              /\ owners' = O
              /\ UNCHANGED <<schedVars, timerVars, flagVars>>
  /\ UNCHANGED <<sigVars, treeVars, callVars, cpuVars>>

WakeupSingleSelect_OneQueue ==
  /\ kpc = "wake"
  /\ kq \in SelectQs
  /\ queue[kq] # << >>
  /\ LET p == list_tail(queue[kq]) IN
     /\ MarkReady(p, [queue EXCEPT ![kq] = list_pop_back(@)],
                  [owners EXCEPT ![p] = {}], timer, sleep_queue)
     /\ select_wait' = [select_wait EXCEPT ![p] = kq]
  /\ UNCHANGED <<current, sigVars, treeVars, callVars, cpuVars>>

(* One round of k_proc_process_wakeup_queue_single_select: the process     *)
(* leaves every queue, is told which file fired, and loses its timeout.    *)
WakeupSingleSelect ==
  /\ kpc = "wake"
  /\ kq \in SelectQs
  /\ queue[kq] # << >>
  /\ LET p  == list_tail(queue[kq])
         Q1 == [queue EXCEPT ![kq] = list_pop_back(@)]
         Q  == Without(Q1, p, owners[p] \ {kq})
         O  == [owners EXCEPT ![p] = {}]
         S  == IF timer[p] = "timeout"
               THEN list_delete_element(sleep_queue, p) ELSE sleep_queue
         T  == [timer EXCEPT ![p] = IF @ = "timeout" THEN "none" ELSE @]
     IN  IF state[p] # "finished" /\ ~Schedulable(p)
         THEN /\ MarkReady(p, Q, O, T, S)
              /\ select_wait' = [select_wait EXCEPT ![p] = kq]
              /\ UNCHANGED current
         ELSE /\ queue' = Q
              /\ owners' = O
              /\ UNCHANGED <<schedVars, timerVars, flagVars>>
  /\ UNCHANGED <<sigVars, treeVars, callVars, cpuVars>>

(* The queue is empty and the caller returns to user mode or to idle.      *)
WakeupDone ==
  /\ kpc = "wake"
  /\ kcont = "none"
  /\ queue[kq] = << >>
  /\ kpc' = IF current = Idle THEN "user" ELSE "signals"
  /\ kq' = None
  /\ UNCHANGED <<schedVars, timerVars, blockVars, flagVars, sigVars, treeVars,
                 callVars, kcont>>
----------------------------------------------------------------------------
(* Timed sleep and select.                                                 *)

(* The first node of the sleep queue is due no later than one due in d.    *)
DueFirst(d) == sleep_queue # << >> /\ left[list_head(sleep_queue)] <= d

(* Link the node of p, due in d ticks, into the sleep queue.  Insertion    *)
(* walks past the nodes due later, and keeps the queue a list if the first *)
(* one is.                                                                 *)
InsertTimer(p, d, kind) ==
  /\ ~DueFirst(d)
  /\ \E i \in 1..(Len(sleep_queue) + 1) :
       /\ \A j \in 1..(i - 1) : left[sleep_queue[j]] > d
       /\ i <= Len(sleep_queue) => left[sleep_queue[i]] <= d
       /\ sleep_queue' = list_link_before(sleep_queue, i, p)
  /\ left' = [left EXCEPT ![p] = d]
  /\ timer' = [timer EXCEPT ![p] = kind]

(* If the first node is due no later than the new one, sleep and select    *)
(* link the two to each other and lose the rest (process.c:825, 865).  The *)
(* timer frees both and then walks from one to the other; SleepQueue has   *)
(* the pointers.                                                           *)
LinkCycle(p, d) ==
  /\ InUser(p)
  /\ DueFirst(d)
  /\ Lose("cycle")

(* sys_sleep: no queue, only a wait_node.                                  *)
Sleep(p, d) ==
  /\ InUser(p)
  /\ InsertTimer(p, d, "wait")
  /\ state' = [state EXCEPT ![p] = "sleeping"]
  /\ cont' = [cont EXCEPT ![p] = "sleep"]
  /\ kpc' = "switch"
  /\ UNCHANGED <<current, ready_queue, blockVars, flagVars, sigVars, treeVars,
                 asked, target, kq, kcont>>

ResumeSleep ==
  /\ kpc = "resume"
  /\ cont[current] = "sleep"
  /\ cont' = [cont EXCEPT ![current] = "none"]
  /\ Return
  /\ UNCHANGED <<state, ready_queue, timerVars, blockVars, flagVars, sigVars,
                 treeVars, asked, target>>

(* sys_select on the queues in qs, none of which has its event yet; d = 0  *)
(* stands for a null timeval, that is no timeout.                          *)
Select(p, qs, d) ==
  /\ InUser(p)
  /\ IF d = 0 THEN UNCHANGED timerVars ELSE InsertTimer(p, d, "timeout")
  /\ SleepOn(p, qs, "select")
  /\ asked' = [asked EXCEPT ![p] = qs]
  /\ UNCHANGED <<select_wait, sigVars, treeVars, target>>

(* sys_select with nothing to wait for and no timeout: p sleeps until a    *)
(* signal comes.                                                           *)
Pause(p) ==
  /\ InUser(p)
  /\ SleepOn(p, {}, "pause")
  /\ UNCHANGED <<timerVars, select_wait, sigVars, treeVars, asked, target>>

ResumeSelect_KeepsAnswer ==
  /\ kpc = "resume"
  /\ cont[current] \in {"select", "pause"}
  /\ cont' = [cont EXCEPT ![current] = "none"]
  /\ asked' = [asked EXCEPT ![current] = {}]
  /\ Return
  /\ UNCHANGED <<state, ready_queue, timerVars, blockVars, flagVars, sigVars,
                 treeVars, target>>

(* EINTR, 0 after a timeout, or the file that fired.                       *)
ResumeSelect ==
  /\ kpc = "resume"
  /\ cont[current] \in {"select", "pause"}
  /\ select_wait' = IF interrupted[current] THEN select_wait
                    ELSE [select_wait EXCEPT ![current] = None]
  /\ cont' = [cont EXCEPT ![current] = "none"]
  /\ asked' = [asked EXCEPT ![current] = {}]
  /\ Return
  /\ UNCHANGED <<state, ready_queue, timerVars, blockVars, interrupted, sigVars,
                 treeVars, target>>
----------------------------------------------------------------------------
(* Signals.                                                                *)

SendSignal_Always(t, sig, Q, O, T, S) ==
  /\ signal_queue' = [signal_queue EXCEPT ![t] = @ \cup {sig}]
  /\ IF t # current
     THEN MarkReady(t, Q, O, T, S)
     ELSE /\ queue' = Q /\ owners' = O /\ timer' = T /\ sleep_queue' = S
          /\ UNCHANGED <<state, ready_queue, left, interrupted>>

(* k_proc_process_send_signal when the queues and owner lists are Q and O  *)
(* and the timer nodes and sleep queue T and S: a process that is neither  *)
(* running nor ready is woken, whatever it sleeps on.                      *)
SendSignal(t, sig, Q, O, T, S) ==
  /\ signal_queue' = [signal_queue EXCEPT ![t] = @ \cup {sig}]
  /\ IF t # current /\ ~Schedulable(t)
     THEN MarkReady(t, Q, O, T, S)
     ELSE /\ queue' = Q /\ owners' = O /\ timer' = T /\ sleep_queue' = S
          /\ UNCHANGED <<state, ready_queue, left, interrupted>>

Kill_Zombie(p, t, sig) ==
  /\ InUser(p)
  /\ t # InitProc
  /\ state[t] # "absent"
  /\ SendSignal(t, sig, queue, owners, timer, sleep_queue)
  /\ Return
  /\ UNCHANGED <<select_wait, handler, treeVars, callVars>>

(* sys_kill.  init is never the target: its exit would not terminate.      *)
Kill(p, t, sig) ==
  /\ InUser(p)
  /\ t # InitProc
  /\ state[t] \notin {"absent", "finished"}
  /\ SendSignal(t, sig, queue, owners, timer, sleep_queue)
  /\ Return
  /\ UNCHANGED <<select_wait, handler, treeVars, callVars>>

(* A key that signals, in the write of a terminal's program: tty.c:215     *)
(* does not ask whether the process has exited.  A zombie is made ready    *)
(* although its block node is freed.                                       *)
TtySignal(p, t, sig) ==
  \/ Kill(p, t, sig)
  \/ /\ InUser(p)
     /\ state[t] = "finished"
     /\ Lose("zombie")

(* sys_sigact.                                                             *)
SigAct(p, sig, d) ==
  /\ InUser(p)
  /\ handler' = [handler EXCEPT ![p][sig] = d]
  /\ Return
  /\ UNCHANGED <<state, ready_queue, timerVars, blockVars, flagVars,
                 signal_queue, treeVars, callVars>>

ExitBegin_KeepsChildren(p) ==
  /\ state' = [state EXCEPT ![p] = "finished"]
  /\ kpc' = "wake"
  /\ kq' = parent[p]
  /\ kcont' = "exit"
  /\ UNCHANGED <<current, ready_queue, timerVars, blockVars, flagVars, handler,
                 treeVars, callVars>>

(* The beginning of k_proc_process_exit: the children of p go to init,     *)
(* then the loop that wakes p's parent starts.                             *)
ExitBegin(p) ==
  /\ state' = [state EXCEPT ![p] = "finished"]
  /\ parent' = [c \in Procs |-> IF parent[c] = p THEN InitProc ELSE parent[c]]
  /\ kpc' = "wake"
  /\ kq' = parent[p]
  /\ kcont' = "exit"
  /\ UNCHANGED <<current, ready_queue, timerVars, blockVars, flagVars, handler,
                 group_id, callVars>>

(* One round of k_proc_process_process_signals on the way to user mode:    *)
(* the lowest pending signal is taken.  A handler or an ignored signal     *)
(* ends the round, whatever else is pending.                               *)
Deliver ==
  /\ kpc = "signals"
  /\ \E sig \in signal_queue[current] :
       /\ \A s \in signal_queue[current] : sig <= s
       /\ signal_queue' = [signal_queue EXCEPT ![current] = @ \ {sig}]
       /\ IF handler[current][sig] = "default" /\ Terminates(sig)
          THEN ExitBegin(current)
          ELSE /\ kpc' = IF \/ handler[current][sig] # "default"
                            \/ signal_queue[current] = {sig}
                         THEN "user" ELSE "signals"
               /\ UNCHANGED <<schedVars, timerVars, blockVars, flagVars,
                              handler, treeVars, callVars, kq, kcont>>

NoSignal ==
  /\ kpc = "signals"
  /\ signal_queue[current] = {}
  /\ kpc' = "user"
  /\ UNCHANGED <<schedVars, timerVars, blockVars, flagVars, sigVars, treeVars,
                 callVars, kq, kcont>>
----------------------------------------------------------------------------
(* Life and death of a process.                                            *)

(* k_proc_process_fork and _clone: the new process_t is a copy of p's with *)
(* its own queues and no signals, made ready at once.                      *)
Fork(p, c) ==
  /\ InUser(p)
  /\ state[c] = "absent"
  /\ state' = [state EXCEPT ![c] = "running"]
  /\ ready_queue' = list_push_back(ready_queue, c)
  /\ interrupted' = [interrupted EXCEPT ![c] = interrupted[p]]
  /\ select_wait' = [select_wait EXCEPT ![c] = select_wait[p]]
  /\ signal_queue' = [signal_queue EXCEPT ![c] = {}]
  /\ handler' = [handler EXCEPT ![c] = NoHandlers]
  /\ parent' = [parent EXCEPT ![c] = p]
  /\ group_id' = [group_id EXCEPT ![c] = p]
  /\ cont' = [cont EXCEPT ![c] = "fork"]
  /\ Return
  /\ UNCHANGED <<timerVars, blockVars, asked, target>>

(* sys_exit; init never leaves its main loop (user/init/src/main.c:139).   *)
Exit(p) ==
  /\ InUser(p)
  /\ p # InitProc
  /\ ExitBegin(p)
  /\ UNCHANGED signal_queue

(* The rest of exit, once the parent's wait queue is empty: SIGCHLD to the *)
(* parent, the locks of the process itself, and the switch.                *)
ExitFinish ==
  /\ kpc = "wake"
  /\ kcont = "exit"
  /\ queue[kq] = << >>
  /\ SendSignal(parent[current], SIGCHLD,
                Without(queue, current, owners[current]),
                [owners EXCEPT ![current] = {}],
                [timer EXCEPT ![current] = "none"],
                list_delete_element(sleep_queue, current))
  /\ kpc' = "switch"
  /\ kq' = None
  /\ kcont' = "none"
  /\ UNCHANGED <<current, select_wait, handler, treeVars, callVars>>

(* __k_proc_process_waitpid_can_pick.                                      *)
CanPick(c, p, t) ==
  CASE t = "any"   -> TRUE
    [] t = "group" -> group_id[c] = group_id[p]
    [] OTHER       -> c = t

Pickable(p, t) == {c \in Procs : parent[c] = p /\ CanPick(c, p, t)}

(* k_proc_process_destroy gives the slot back.                             *)
Destroy(c) ==
  /\ state' = [state EXCEPT ![c] = "absent"]
  /\ interrupted' = [interrupted EXCEPT ![c] = FALSE]
  /\ select_wait' = [select_wait EXCEPT ![c] = None]
  /\ signal_queue' = [signal_queue EXCEPT ![c] = {}]
  /\ handler' = [handler EXCEPT ![c] = NoHandlers]
  /\ parent' = [parent EXCEPT ![c] = None]
  /\ group_id' = [group_id EXCEPT ![c] = None]

WaitpidRound_SleepsFirst(p, t, nohang) ==
  /\ Pickable(p, t) # {}
  /\ SleepOn(p, {p}, "waitpid")
  /\ target' = [target EXCEPT ![p] = t]
  /\ UNCHANGED <<timerVars, select_wait, sigVars, treeVars, asked>>

(* One round of the loop of k_proc_process_waitpid: a finished child is    *)
(* destroyed; without one p returns or sleeps on its own wait queue.  What *)
(* woke it is not looked at.  Return values are left out.                  *)
WaitpidRound(p, t, nohang) ==
  LET zombies == {c \in Pickable(p, t) : state[c] = "finished"} IN
  \/ /\ zombies # {}
     /\ \E c \in zombies : Destroy(c)
     /\ cont' = [cont EXCEPT ![p] = "none"]
     /\ target' = [target EXCEPT ![p] = "any"]
     /\ Return
     /\ UNCHANGED <<ready_queue, timerVars, blockVars, asked>>
  \/ /\ zombies = {}
     /\ Pickable(p, t) = {} \/ nohang
     /\ cont' = [cont EXCEPT ![p] = "none"]
     /\ target' = [target EXCEPT ![p] = "any"]
     /\ Return
     /\ UNCHANGED <<state, ready_queue, timerVars, blockVars, flagVars, sigVars,
                    treeVars, asked>>
  \/ /\ zombies = {}
     /\ Pickable(p, t) # {}
     /\ ~nohang
     /\ SleepOn(p, {p}, "waitpid")
     /\ target' = [target EXCEPT ![p] = t]
     /\ UNCHANGED <<timerVars, select_wait, sigVars, treeVars, asked>>

Waitpid(p, t, nohang) == InUser(p) /\ WaitpidRound(p, t, nohang)

ResumeWaitpid ==
  /\ kpc = "resume"
  /\ cont[current] = "waitpid"
  /\ WaitpidRound(current, target[current], FALSE)
----------------------------------------------------------------------------
(* What a program may ask of the kernel.                                   *)
Syscall(p) ==
  \/ \E q \in BlockQs : BlockOn(p, q)
  \/ \E qs \in SUBSET SelectQs, d \in 0..MaxSleep :
       (qs # {} \/ d # 0) /\ Select(p, qs, d)
  \/ Pause(p)
  \/ \E d \in 0..MaxSleep : Sleep(p, d) \/ LinkCycle(p, d)
  \/ \E t \in Procs, sig \in Signals : Kill(p, t, sig)
  \/ \E t \in Procs, sig \in Signals \cap KeySignals : TtySignal(p, t, sig)
  \/ \E act \in SigActs : SigAct(p, act[1], act[2])
  \/ \E c \in Procs : Fork(p, c)
  \/ Exit(p)
  \/ \E t \in Targets, nohang \in BOOLEAN : Waitpid(p, t, nohang)

(* Interrupts taken in user mode or in idle.                               *)
Interrupt == Tick \/ \E q \in BlockQs \cup SelectQs : WakeupQueue(q)

(* Kernel code that runs with interrupts off.                              *)
Kernel ==
  \/ Switch
  \/ WakeupTiming
  \/ Preempt
  \/ ResumeUser
  \/ ResumeDriver
  \/ \E q \in BlockQs : BlockAgain(q)
  \/ ResumeSleep
  \/ ResumeSelect
  \/ ResumeWaitpid
  \/ WakeupSingle
  \/ WakeupSingleSelect
  \/ WakeupDone
  \/ Deliver
  \/ NoSignal
  \/ ExitFinish

(* Nothing is said about what a lost kernel does.                          *)
Stop == Lost /\ UNCHANGED vars

Next == (\E p \in Procs : Syscall(p)) \/ Interrupt \/ Kernel \/ Stop

Spec == Init /\ [][Next]_vars

(* The kernel does not stop in the middle of its own code.  The timer      *)
(* fires at 100 Hz and the interrupt controller latches it, so it is taken *)
(* in one of the windows in which interrupts are on, however short they    *)
(* are: fairness is strong.                                                *)
Fairness == WF_vars(Kernel) /\ SF_vars(Tick)

FairSpec == Spec /\ Fairness
----------------------------------------------------------------------------
(* Type correctness of the process table, the queues and the kernel's      *)
(* control state.                                                          *)
TypeOK ==
  /\ state \in [Procs -> {"absent", "starting", "running", "sleeping", "finished"}]
  /\ current \in Procs \cup {Idle}
  /\ ready_queue \in Seq(Procs)
  /\ queue \in [Queues -> Seq(Procs)]
  /\ owners \in [Procs -> SUBSET Queues]
  /\ timer \in [Procs -> {"none", "wait", "timeout"}]
  /\ left \in [Procs -> Nat]
  /\ sleep_queue \in Seq(Procs)
  /\ interrupted \in [Procs -> BOOLEAN]
  /\ select_wait \in [Procs -> SelectQs \cup {None}]
  /\ signal_queue \in [Procs -> SUBSET Signals]
  /\ handler \in [Procs -> [Signals -> Dispositions]]
  /\ parent \in [Procs -> Procs \cup {None}]
  /\ group_id \in [Procs -> Procs \cup {None}]
  /\ cont \in [Procs -> {"none", "irq", "fork", "queue", "sleep", "select", "pause", "waitpid"}]
  /\ asked \in [Procs -> SUBSET SelectQs]
  /\ target \in [Procs -> Targets]
  /\ kpc \in {"user", "switch", "resume", "timing", "wake", "signals", "cycle", "zombie"}
  /\ kq \in Queues \cup {None}
  /\ kcont \in {"none", "exit"}

(* The process that owns the CPU; during a switch the old one has given it *)
(* up and the new one is not chosen yet.                                   *)
Running == IF kpc = "switch" THEN None ELSE current

(* Every runnable process that does not own the CPU is on the ready queue, *)
(* exactly once, and nothing else is: no wakeup path forgets a process,    *)
(* queues it twice or queues one that has exited (mark_ready pushes        *)
(* without looking).  So it is until two sleepers are linked to each other *)
(* or a key signals a zombie, the two ways in which the kernel is lost.    *)
ReadyQueueExact ==
  /\ IsInjective(ready_queue)
  /\ \A p \in Procs : p \in Range(ready_queue) <=> Schedulable(p) /\ p # Running

(* Wait queues Q and owner lists O, and timer nodes T and sleep queue S,   *)
(* tell the same story.                                                    *)
AgreeOn(Q, O, T, S) ==
  /\ \A q \in Queues :
       /\ IsInjective(Q[q])
       /\ \A p \in Procs : p \in Range(Q[q]) <=> q \in O[p]
  /\ IsInjective(S)
  /\ \A p \in Procs : p \in Range(S) <=> T[p] # "none"

(* The two sides of every block agree: p is on wait queue q, once, exactly *)
(* when q is among the owners of p's block node; likewise for the sleep    *)
(* queue and the node pointers, until the kernel is lost.  Each pointer is *)
(* freed through one side after being unlinked through the other.          *)
BlocksAgree == AgreeOn(queue, owners, timer, sleep_queue)

(* Only a sleeping process is on a wait queue or on the sleep queue: none  *)
(* that runs, is ready, or has exited and freed its block node.            *)
BlockedAreAsleep ==
  \A p \in Procs : owners[p] # {} \/ timer[p] # "none" => state[p] = "sleeping"

(* And a sleeping process is on one, so something other than a signal can  *)
(* wake it up, unless it called select with neither files nor timeout; all *)
(* of this until the kernel is lost.                                       *)
SleepersAreBlocked ==
  \A p \in Procs :
    (owners[p] # {} \/ timer[p] # "none") <=> state[p] = "sleeping" /\ cont[p] # "pause"

(* A process that select() wakes up is told about a queue it asked for,    *)
(* and no stale answer is left for a later select().                       *)
SelectAnswersTheQuestion ==
  \A p \in Procs :
    select_wait[p] # None =>
      cont[p] = "select" /\ select_wait[p] \in asked[p] /\ Schedulable(p)

(* waitpid loses no wakeup: while a process sleeps in waitpid, none of its *)
(* own children it waits for has exited, except one that is just exiting.  *)
(* (An adopted child may: exit hands zombies to init without waking it.)   *)
WaitpidMissesNoChild ==
  \A p, c \in Procs :
    /\ state[p] = "sleeping"
    /\ cont[p] = "waitpid"
    /\ c \in Pickable(p, target[p])
    /\ group_id[c] = p
    /\ state[c] = "finished"
    => c = current /\ kcont = "exit"

(* Every process but init has a parent that has not exited, so exit always *)
(* signals a process that still has its block node and wait queue.         *)
ParentsAreAlive ==
  \A p \in Procs \ {InitProc} :
    state[p] # "absent" =>
      parent[p] \in Procs /\ state[parent[p]] \notin {"absent", "finished"}

(* What the proof needs besides: which process the kernel works for in     *)
(* each control state, and why init never exits.                           *)
ControlOK ==
  /\ kpc \in {"resume", "signals"} => current \in Procs
  /\ kpc # "switch" /\ kcont = "none" => current = Idle \/ Schedulable(current)
  /\ kpc = "wake" => kq \in Queues
  /\ kcont = "exit" => /\ kpc = "wake"
                       /\ current \in Procs \ {InitProc}
                       /\ state[current] = "finished"

InitIsSafe ==
  /\ state[InitProc] \notin {"absent", "finished"}
  /\ parent[InitProc] = None
  /\ \A sig \in signal_queue[InitProc] : ~Terminates(sig)
  /\ \A p \in Procs : parent[p] # p /\ (state[p] = "absent" => parent[p] = None)

(* The inductive invariant behind the safety theorems of Process_proofs:   *)
(* queues, states, control state and process tree fit together.            *)
IInv ==
  /\ TypeOK
  /\ ReadyQueueExact
  /\ BlocksAgree
  /\ BlockedAreAsleep
  /\ ParentsAreAlive
  /\ ControlOK
  /\ InitIsSafe

(* What the system calls themselves rely on.  A sleeping process is blocked*)
(* on exactly what its system call asked for, so an event that wakes it    *)
(* leaves nothing of the block behind.                                     *)
SleepsAsAsked ==
  \A p \in Procs :
    state[p] = "sleeping" =>
      \/ /\ cont[p] = "queue" /\ timer[p] = "none"
         /\ \E q \in BlockQs : owners[p] = {q}
      \/ cont[p] = "waitpid" /\ timer[p] = "none" /\ owners[p] = {p}
      \/ /\ cont[p] = "select" /\ timer[p] # "wait" /\ owners[p] = asked[p]
         /\ asked[p] # {} \/ timer[p] = "timeout"
         /\ ~interrupted[p]
      \/ cont[p] = "pause" /\ timer[p] = "none" /\ owners[p] = {}
      \/ cont[p] = "sleep" /\ timer[p] = "wait" /\ owners[p] = {}

(* An answer of select() is kept for a process that was not interrupted    *)
(* and has not seen it yet; in user mode no system call is under way.      *)
AnswersAreFresh ==
  /\ SelectAnswersTheQuestion
  /\ \A p \in Procs : select_wait[p] # None => ~interrupted[p]
  /\ kpc \in {"user", "timing", "wake", "signals"} /\ current \in Procs
       => cont[current] = "none"

(* A process keeps the parent that forked it until init adopts it, and an  *)
(* exit empties the wait queue of the parent itself.                       *)
ExitTellsParent ==
  /\ \A c \in Procs : parent[c] \in {group_id[c], InitProc}
  /\ kcont = "exit" => kq = parent[current]

(* The inductive invariant of the system calls, relative to IInv.          *)
CallInv ==
  /\ SleepsAsAsked
  /\ AnswersAreFresh
  /\ ExitTellsParent
  /\ WaitpidMissesNoChild

(* A process that has exited never runs again: it stays finished until it  *)
(* is reaped, although signals are sent without regard to locks.  The one  *)
(* exception is a key that signals a zombie, whose block node is freed     *)
(* (tty.c:218): there the kernel is lost and the module ends.              *)
FinishedIsFinal ==
  [][\A p \in Procs :
       state[p] = "finished" => state'[p] \in {"finished", "absent"}]_vars

(* A sleep reports an interruption only while a signal is pending for the  *)
(* process: no event, timeout or child exit sets INTERRUPTED.              *)
InterruptedBySignalOnly ==
  [][\A p \in Procs :
       /\ state[p] = "sleeping"
       /\ ~interrupted[p]
       /\ interrupted'[p]
       => signal_queue'[p] # {}]_vars

(* Round robin: every process on the ready queue gets the CPU, unless the  *)
(* kernel is lost.                                                         *)
ReadyEventuallyRuns ==
  \A p \in Procs : p \in Range(ready_queue) ~> Running = p \/ Lost

(* A fatal signal kills: the process it preempted or woke from a timed     *)
(* sleep, from select or from a driver exits.  Two cases are left out      *)
(* because the code misses them: a waitpid loop ignores the interruption,  *)
(* and a process that was ready when the signal was posted may fall asleep *)
(* again before it looks at its signals.                                   *)
KilledEventuallyExits ==
  \A p \in Procs :
    (/\ 9 \in signal_queue[p]
     /\ Schedulable(p)
     /\ \/ cont[p] \in {"irq", "sleep", "select", "pause"}
        \/ cont[p] = "queue" /\ interrupted[p])
      ~> state[p] \in {"finished", "absent"} \/ Lost

(* A zombie whose parent waits for it is reaped, unless the kernel is lost *)
(* before: the parent leaves waitpid.                                      *)
ZombieIsReaped ==
  \A p, c \in Procs :
    (/\ state[c] = "finished" /\ group_id[c] = p
     /\ cont[p] = "waitpid" /\ c \in Pickable(p, target[p]))
      ~> (cont[p] # "waitpid" \/ Lost)
----------------------------------------------------------------------------
(* The system call yield (sys_yield) is kept apart because it has no       *)
(* defined continuation: the code marks the point after its call of        *)
(* k_proc_process_yield as unreachable.  The caller goes to the back of    *)
(* the ready queue and gives up the CPU.                                   *)
Yield(p) ==
  /\ InUser(p)
  /\ MarkReady(p, queue, owners, timer, sleep_queue)
  /\ cont' = [cont EXCEPT ![p] = "yield"]
  /\ kpc' = "switch"
  /\ UNCHANGED <<current, select_wait, sigVars, treeVars, asked, target, kq, kcont>>

YieldNext == Next \/ \E p \in Procs : Yield(p)

YieldSpec == Init /\ [][YieldNext]_vars

(* What sys_yield says of itself: __builtin_unreachable() after the call   *)
(* of k_proc_process_yield, that is, a process that yielded never gets     *)
(* back to this point.                                                     *)
YieldNeverReturns ==
  ~ (/\ kpc = "resume"
     /\ current \in Procs
     /\ cont[current] = "yield")
----------------------------------------------------------------------------
(* Small instances: programs that handle SIGCHLD; init is distinguished,   *)
(* the other slots are interchangeable.                                    *)
CatchChild == {<<17, "handler">>}

Symmetry == Permutations(Procs \ {InitProc})
============================================================================
