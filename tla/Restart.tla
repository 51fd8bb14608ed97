------------------------------- MODULE Restart ------------------------------
(***************************************************************************)
(* System calls that a signal interrupts (the dispatcher of kernel/src/    *)
(* int/syscall.c, POST_INTERRUPT in kernel/include/int/idt.h, and the      *)
(* delivery and return of signals in kernel/src/proc/process.c), for one   *)
(* process whose handlers make calls too.                                  *)
(*                                                                         *)
(* A call is its number; args is the call the other registers were loaded  *)
(* for.  A call ends, or a signal ends its sleep and it gives ERESTARTSYS. *)
(* Signals that end or stop the process are left to Process.               *)
(* Refused_Kept is a faulty variant of the definition that follows it.     *)
(***************************************************************************)
EXTENDS Integers, Sequences, FiniteSets

CONSTANTS Calls, Signals,    \* numbers; signals are taken in their order
          MaxDepth, MaxKills,  \* bounds: handlers within handlers, signals sent
          None

RestartAssumption ==
  Signals \subseteq Nat /\ MaxDepth \in Nat /\ MaxKills \in Nat /\ None \notin Calls

VARIABLES
  cfg,            \* signal -> "default" (ignored), "ignore", "handler" or "restart" (with SA_RESTART)
  mode,           \* "user", or "call" inside the call cur
  cur,            \* [num, args] of the last call
  eax,            \* its result while the program has not taken it: "ok", "restart", "eintr", "none"
  interrupted,    \* process_t.interrupted_syscall
  signal_queue,
  frames,         \* contexts saved on the user stack: [eax, args, sig]
  clean,          \* history: nothing of what the properties exclude has happened
  kills

vars == <<cfg, mode, cur, eax, interrupted, signal_queue, frames, clean, kills>>

Init ==
  /\ cfg \in [Signals -> {"default", "ignore", "handler", "restart"}]
  /\ mode = "user" /\ cur = [num |-> None, args |-> None] /\ eax = "none" /\ interrupted = None
  /\ signal_queue = {} /\ frames = << >> /\ clean = TRUE /\ kills = 0

(* k_proc_process_send_signal *)
send_signal(s) ==
  /\ kills < MaxKills /\ kills' = kills + 1
  /\ signal_queue' = signal_queue \cup {s}
  /\ UNCHANGED <<cfg, mode, cur, eax, interrupted, frames, clean>>

(* The signal k_proc_process_process_signals stops at: those that are      *)
(* ignored by default are passed, the first other one ends the loop.       *)
Stops == {s \in signal_queue : cfg[s] # "default"}
Stop == CHOOSE s \in Stops : \A t \in Stops : s <= t
Enters == Stops # {} /\ cfg[Stop] \in {"handler", "restart"}
Taken == IF Stops = {} THEN signal_queue ELSE {s \in signal_queue : s <= Stop}

Room == Enters => Len(frames) < MaxDepth   \* the bound

(* process_signals for a context with the result r and registers args: a   *)
(* handler is entered on a saved copy, or the program gets r.              *)
process_signals(r, args) ==
  /\ signal_queue' = signal_queue \ Taken
  /\ IF Enters
     THEN frames' = Append(frames, [eax |-> r, args |-> args, sig |-> Stop]) /\ eax' = "none"
     ELSE UNCHANGED frames /\ eax' = r

(* The program, or a handler of it, makes a call.                          *)
syscall(c) ==
  /\ mode = "user" /\ mode' = "call"
  /\ cur' = [num |-> c, args |-> c] /\ eax' = "none"
  /\ UNCHANGED <<cfg, interrupted, signal_queue, frames, clean, kills>>

(* The dispatcher after a call that ended.                                 *)
finish ==
  /\ mode = "call" /\ mode' = "user" /\ Room
  /\ process_signals("ok", cur.args)
  /\ UNCHANGED <<cfg, cur, interrupted, clean, kills>>

(* The dispatcher after a call whose sleep a signal ended.  Excluded: that *)
(* no handler runs, and that another call waits for its restart.           *)
interrupt ==
  /\ mode = "call" /\ mode' = "user" /\ signal_queue # {} /\ Room
  /\ interrupted' = cur.num
  /\ process_signals("restart", cur.args)
  /\ clean' = (clean /\ Enters /\ interrupted = None)
  /\ UNCHANGED <<cfg, cur, kills>>

(* Another interrupt while the program runs.                               *)
irq ==
  /\ mode = "user" /\ signal_queue # {} /\ Room
  /\ process_signals(eax, cur.args)
  /\ UNCHANGED <<cfg, mode, cur, interrupted, clean, kills>>

(* The program goes on with the result.                                    *)
run ==
  /\ mode = "user" /\ eax # "none" /\ eax' = "none"
  /\ UNCHANGED <<cfg, mode, cur, interrupted, signal_queue, frames, clean, kills>>

Refused_Kept == "restart"
(* The result of a call that is not restarted.                             *)
Refused == "eintr"

(* The registers that return_from_signal pops.                             *)
Restored(f) == f.args

(* interrupted_syscall once its call is taken up.                          *)
Cleared == None

(* __k_proc_process_try_restart_syscalls, after the context f.             *)
try_restart(f) ==
  IF interrupted # None /\ f.eax = "restart"
  THEN /\ interrupted' = Cleared
       /\ IF cfg[f.sig] = "restart"
          THEN mode' = "call" /\ cur' = [num |-> interrupted, args |-> Restored(f)] /\ eax' = "none"
          ELSE mode' = "user" /\ cur' = [cur EXCEPT !.args = Restored(f)] /\ eax' = Refused
  ELSE /\ mode' = "user" /\ cur' = [cur EXCEPT !.args = Restored(f)] /\ eax' = f.eax
       /\ UNCHANGED interrupted

(* A handler returns to 0xDEADBEEF: k_proc_process_return_from_signal.  A  *)
(* signal that is waiting enters the next handler, on the same context.    *)
return_from_signal ==
  /\ mode = "user" /\ frames # << >>
  /\ LET f == frames[Len(frames)]
         rest == SubSeq(frames, 1, Len(frames) - 1)
     IN  /\ signal_queue' = signal_queue \ Taken
         /\ IF Enters
            THEN /\ frames' = Append(rest, [f EXCEPT !.sig = Stop])
                 /\ eax' = "none" /\ UNCHANGED <<mode, cur, interrupted>>
            ELSE frames' = rest /\ try_restart(f)
  /\ UNCHANGED <<cfg, clean, kills>>

Next ==
  \/ finish \/ interrupt \/ irq \/ run \/ return_from_signal
  \/ \E s \in Signals : send_signal(s)
  \/ \E c \in Calls : syscall(c)

Spec == Init /\ [][Next]_vars

(***************************************************************************)
(* Properties, for behaviours in which each signal that interrupts a call  *)
(* runs a handler, and no handler has a call of its own interrupted while  *)
(* the interrupted one waits.  Without either, they fail.                  *)
(***************************************************************************)

(* The program never gets ERESTARTSYS, however many handlers run in a row  *)
(* or one inside the other, with or without SA_RESTART.                    *)
RestartIsNotSeen == clean /\ mode = "user" => eax # "restart"

(* A call is restarted with its own registers, whatever calls the handlers *)
(* made meanwhile.                                                         *)
RestartIsOwn == clean => cur.num = cur.args \/ mode = "user"

(* interrupted_syscall always belongs to a context on the stack, which is  *)
(* still to be restarted or refused.                                       *)
InterruptedIsSaved ==
  clean => LET waiting == {k \in DOMAIN frames : frames[k].eax = "restart"} IN
           IF interrupted = None THEN waiting = {}
           ELSE Cardinality(waiting) = 1 /\ \A k \in waiting : frames[k].args = interrupted

(***************************************************************************)
(* The inductive invariant of these properties.                            *)
(***************************************************************************)
Results == {"none", "ok", "restart", "eintr"}
Context == [eax : Results, args : Calls \cup {None}, sig : Signals]

TypeOK ==
  /\ mode \in {"user", "call"}
  /\ cur \in [num : Calls \cup {None}, args : Calls \cup {None}]
  /\ eax \in Results
  /\ interrupted \in Calls \cup {None}
  /\ signal_queue \subseteq Signals
  /\ frames \in Seq(Context)
  /\ clean \in BOOLEAN

(* Only one context waits for its call, and it is the interrupted one's.   *)
OneWaits ==
  clean =>
    /\ \A j, k \in DOMAIN frames :
         frames[j].eax = "restart" /\ frames[k].eax = "restart" => j = k
    /\ \A k \in DOMAIN frames :
         frames[k].eax = "restart" => interrupted # None /\ frames[k].args = interrupted
    /\ interrupted # None => \E k \in DOMAIN frames : frames[k].eax = "restart"

RestartInv ==
  /\ TypeOK
  /\ mode = "call" => cur.num # None
  /\ RestartIsNotSeen /\ RestartIsOwn /\ OneWaits
=============================================================================
