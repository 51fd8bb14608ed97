------------------------------ MODULE Endings -------------------------------
(***************************************************************************)
(* What must come to an end: the scheduler, signals and waitpid, requests  *)
(* to a disk, the resizing of a window, the boot sequence of init, and     *)
(* exec.  The parts share no state; `part' says which one runs, the others *)
(* stay as they are.                                                       *)
(***************************************************************************)
EXTENDS Integers, Sequences

CONSTANTS None, p1, p2, idle, que, sel, a1, a2, d1, d2, f1, f2, ld

(* Which part runs, and the variables of each.                             *)
VARIABLES
  part,
  state, current, ready_queue, queue, owners, timer, left, sleep_queue,
  interrupted, select_wait, signal_queue, handler, parent, group_id, cont,
  proc_asked, target, kpc, kq, kcont,
  ata_disk, lock, blocked, command, selected, irq, ata_pc, op, internal, cpu,
  halted, ops, seen, disturbed,
  selects, requests, events, created, window_id, win, gc, ses_pc, own,
  raised, sent, delivered, taken, wanted, resizes, others,
  boot_pc, boot_kind, dir, loaded, boot_disk, boot_part, scripts, i, j,
  swapped, next, child, daemon, ended,
  exec_kind, interp, call, env, image, exec_asked, fds, at

procVars == <<state, current, ready_queue, queue, owners, timer, left,
              sleep_queue, interrupted, select_wait, signal_queue, handler,
              parent, group_id, cont, proc_asked, target, kpc, kq, kcont>>
ataVars == <<ata_disk, lock, blocked, command, selected, irq, ata_pc, op,
             internal, cpu, halted, ops, seen, disturbed>>
sesVars == <<selects, requests, events, created, window_id, win, gc, ses_pc,
             own, raised, sent, delivered, taken, wanted, resizes, others>>
bootVars == <<boot_pc, boot_kind, dir, loaded, boot_disk, boot_part, scripts,
              i, j, swapped, next, child, daemon, ended>>
execVars == <<exec_kind, interp, call, env, image, exec_asked, fds, at>>

P == INSTANCE Process WITH Procs <- {p1, p2}, InitProc <- p1, Idle <- idle,
                           BlockQs <- {que}, SelectQs <- {sel},
                           Signals <- {9, 17}, SigActs <- {}, MaxSleep <- 1,
                           asked <- proc_asked

(* Two processes, a drive of four sectors; requests of whole and of broken  *)
(* sectors, one of them longer than a transfer.                             *)
A == INSTANCE Ata WITH Procs <- {a1, a2}, Drives <- {0}, Sectors <- 4,
                       SectorSize <- 2, Prd <- 2, MaxCount <- 2,
                       Offsets <- {0, 2, 3}, Sizes <- {1, 3, 4, 6},
                       Faults <- FALSE, MaxOps <- 2, disk <- ata_disk,
                       pc <- ata_pc

C == INSTANCE ComposeSession WITH
  Sizes <- {1, 2, 3}, First <- 1, MaxWin <- 2, MaxResize <- 2, MaxOther <- 2,
  pc <- ses_pc

(* Four scripts, of which one name begins another.                          *)
B == INSTANCE Boot WITH Modules <- {"ata", "dospart", "ext2"},
                        Scripts <- {<<1>>, <<1, 2>>, <<1, 3>>, <<2>>},
                        Kinds <- {"ok", "bad", "gone"}, Daemons <- {d1, d2},
                        pc <- boot_pc, kind <- boot_kind, disk <- boot_disk,
                        part <- boot_part

(* Two files of any kind and the dynamic linker.                            *)
E == INSTANCE Exec WITH Paths <- {f1, f2, ld}, Ld <- ld, Args <- {1, 2},
                        MaxArgs <- 1, MaxDepth <- 4, kind <- exec_kind,
                        asked <- exec_asked

Parts == {"process", "ata", "session", "boot", "exec"}

Off == "off"

(* The first three are in their initial state while another part runs.     *)
Init ==
  /\ part \in Parts
  /\ P!Init /\ A!Init
  /\ C!Init /\ (part # "session" => ~selects)
  /\ IF part = "boot" THEN B!Init
     ELSE boot_pc = Off /\ boot_kind = Off /\ dir = Off /\ loaded = Off
          /\ boot_disk = Off /\ boot_part = Off /\ scripts = Off /\ i = Off
          /\ j = Off /\ swapped = Off /\ next = Off /\ child = Off
          /\ daemon = Off /\ ended = Off
  /\ IF part = "exec" THEN E!Init
     ELSE exec_kind = Off /\ interp = Off /\ call = Off /\ env = Off
          /\ image = Off /\ exec_asked = Off /\ fds = Off /\ at = Off

Next ==
  /\ UNCHANGED part
  /\ IF part = "process" THEN P!Next ELSE UNCHANGED procVars
  /\ IF part = "ata" THEN A!Next ELSE UNCHANGED ataVars
  /\ IF part = "session" THEN C!Next ELSE UNCHANGED sesVars
  /\ IF part = "boot" THEN B!Next ELSE UNCHANGED bootVars
  /\ IF part = "exec" THEN E!Next ELSE UNCHANGED execVars

vars == <<part, procVars, ataVars, sesVars, bootVars, execVars>>

(* Every part makes progress where the code and the hardware see to it.    *)
(* The kernel does not stop in its own code and the timer, which the       *)
(* interrupt controller latches, is taken in some window with interrupts   *)
(* on, however short (strong fairness); the disk finishes its commands,    *)
(* interrupts are delivered and who is ready runs; compositor and client   *)
(* poll for ever; init runs, and every script ends; exec is kernel code.   *)
(* Nothing makes a program issue a request.                                *)
Fairness ==
  /\ WF_procVars(part = "process" /\ P!Kernel) /\ SF_procVars(part = "process" /\ P!Tick)
  /\ WF_ataVars(part = "ata" /\ A!Complete) /\ WF_ataVars(part = "ata" /\ A!Irq)
  /\ \A p \in {a1, a2} : WF_ataVars(part = "ata" /\ A!Step(p))
  /\ WF_sesVars(part = "session" /\ C!Server) /\ WF_sesVars(part = "session" /\ C!Client)
  /\ WF_bootVars(part = "boot" /\ B!InitStep) /\ WF_bootVars(part = "boot" /\ B!exit_script)
  /\ WF_execVars(part = "exec" /\ E!Loader)

Spec == Init /\ [][Next]_vars /\ Fairness

ASSUME EndingsAssumption ==
  /\ A!AtaAssumption /\ C!ComposeSessionAssumption /\ B!BootAssumption /\ E!ExecAssumption

(***************************************************************************)
(* Properties                                                              *)
(***************************************************************************)

(* Round robin: every process on the ready queue gets the CPU, unless the  *)
(* kernel is lost in a sleep queue that it has linked into a cycle or by a *)
(* key that signals a zombie (k_proc_process_switch).                      *)
ReadyEventuallyRuns == P!ReadyEventuallyRuns

(* A fatal signal kills: the process it preempted or woke from a timed     *)
(* sleep, from select or from a driver exits.  The code misses two cases:  *)
(* a waitpid loop ignores the interruption, and a process that was ready   *)
(* when the signal was posted may fall asleep again before it looks at its *)
(* signals (k_proc_process_send_signal).  Or the kernel is lost.           *)
KilledEventuallyExits == P!KilledEventuallyExits

(* A zombie whose parent waits for it is reaped (k_proc_process_waitpid),  *)
(* unless the kernel is lost before.                                       *)
ZombieIsReaped == P!ZombieIsReaped

(* A request to the disk ends, whoever else uses the drive: the interrupt  *)
(* wakes the process that waits for it, and the mutex comes free; unless a *)
(* request for part of a sector hung the driver or overran its buffer      *)
(* (modules/ata/main.c).                                                   *)
RequestsEnd == A!RequestsEnd

(* A resize of a window ends with the client's confirmation, although      *)
(* calls that wait for another kind of event read it first; as long as the *)
(* client knows its windows (libcompose, libwidgets).                      *)
ResizeEnds == C!ResizeEnds

(* Init gets to its end if every listed module can be opened: no wakeup of *)
(* its waitpid is lost to orphans that end meanwhile (user/init).  An exec *)
(* ends, with the new program or the old, unless interpreters name each    *)
(* other in a circle (kernel/src/util/exec.c).                             *)
StartsEnd ==
  /\ part = "boot" /\ B!AllOpen => <>(boot_pc = "spin")
  /\ (part = "exec" /\ at = "exec") ~> (part # "exec" \/ at = "run" \/ E!Circle)
=============================================================================
