------------------------------- MODULE System -------------------------------
(***************************************************************************)
(* Kernel services and programs that share no state: the sleep queue,      *)
(* restarted system calls, descriptor tables, virtual terminals, sockets,  *)
(* kernel modules, the dynamic linker, the shell, the window manager and   *)
(* the conversation of a client with the compositor.  `part' says which    *)
(* one runs; the behaviours of this module are those of its parts.         *)
(***************************************************************************)
EXTENDS Integers, Sequences, TLC

CONSTANTS
  None,                                       \* no process, call, socket, ...
  Sleepers, SleepNodes, MaxTime, Delays,      \* of SleepQueue
  Calls, Signals, MaxDepth, MaxKills,         \* of Restart
  FdProcs, Root, Fdts, FdNodes, CloExec, MaxTable,       \* of Fds
  Vts, FKeys, VtProcs, MaxOut,                \* of Vt
  Clients, Acceptors, MaxAccepted, MaxBacklog,   \* of SocketConnect
  Writers, Reader, InitSize, MaxSize, MaxLen, MaxSent,   \* of SocketStream
  Mods, MaxHeaders,                           \* of ElfModule
  Main, Libs, MaxNeeds,                       \* of Ld
  Lines, MaxLines, Children, MaxKeys,         \* of Shell
  Windows, Screen, Opened, Least, MaxEvents,  \* of Scwm
  Sizes, First, MaxWin, MaxResize, MaxOther   \* of ComposeSession

(* For Lines: a builtin, and programs in the foreground and in the         *)
(* background, with redirections.                                          *)
ScriptLines ==
  { [ext |-> FALSE, bg |-> FALSE, outs |-> 1, ins |-> 0],
    [ext |-> TRUE, bg |-> FALSE, outs |-> 0, ins |-> 1],
    [ext |-> TRUE, bg |-> TRUE, outs |-> 2, ins |-> 0] }

(* For Screen and Opened: the least size, 2, is two steps of the mouse     *)
(* away.                                                                   *)
SmallScreen == [w |-> 4, h |-> 3]
SmallWindow == [x |-> 1, y |-> 1, w |-> 3, h |-> 2]

(* Only SleepQueue names these values.                                     *)
Symmetry == Permutations(Sleepers) \cup Permutations(SleepNodes)

(* Which part runs, and the variables of each: they are Off in the others. *)
VARIABLES
  part,
  now, sleep_queue, node, live, timer, sleep_hung, later, ticked,
  cfg, mode, cur, eax, interrupted, signal_queue, frames, clean, kills,
  alive, fd_nodes, amount, fdt, links,
  active, vt_next, vt_mode, display, vt_owner, vt_buffer, screen, kbd,
  intact, written, wild,
  listening, backlog, blocked_processes, sel_queue, cnn_blocked_processes,
  connect, nonblock, open, cnn_at, woken, irregular, dropped,
  buffer, buffer_size, owner, str_at, call, selecting, sent, received, split,
  wrapped,
  symbols, elf_file, elf_at, elf_state, bss, info, refs,
  dependencies, sym, phase, stack, loaded, override, next, slot, copied,
  times,
  sh_pc, script, status, sh_interrupted, pending, fg, proc, child, files,
  leaked, begun, hit, sh_keys,
  geo, mod, mov, res, right, low, props, overlay, start, least, cut,
  switched, events,
  selects, requests, ses_events, created, window_id, win, gc, ses_pc, own,
  raised, ses_sent, delivered, taken, wanted, resizes, others

sleepVars == <<now, sleep_queue, node, live, timer, sleep_hung, later,
               ticked>>
callVars == <<cfg, mode, cur, eax, interrupted, signal_queue, frames, clean,
              kills>>
fdsVars == <<alive, fd_nodes, amount, fdt, links>>
vtVars == <<active, vt_next, vt_mode, display, vt_owner, vt_buffer, screen,
            kbd, intact, written, wild>>
cnnVars == <<listening, backlog, blocked_processes, sel_queue,
             cnn_blocked_processes, connect, nonblock, open, cnn_at, woken,
             irregular, dropped>>
strVars == <<buffer, buffer_size, owner, str_at, call, selecting, sent,
             received, split, wrapped>>
elfVars == <<symbols, elf_file, elf_at, elf_state, bss, info, refs>>
ldVars == <<dependencies, sym, phase, stack, loaded, override, next, slot,
            copied, times>>
shVars == <<sh_pc, script, status, sh_interrupted, pending, fg, proc, child,
            files, leaked, begun, hit, sh_keys>>
wmVars == <<geo, mod, mov, res, right, low, props, overlay, start, least,
            cut, switched, events>>
sesVars == <<selects, requests, ses_events, created, window_id, win, gc,
             ses_pc, own, raised, ses_sent, delivered, taken, wanted,
             resizes, others>>

Q == INSTANCE SleepQueue WITH
  Procs <- Sleepers, Nodes <- SleepNodes, Null <- None, hung <- sleep_hung

R == INSTANCE Restart

F == INSTANCE Fds WITH Procs <- FdProcs, Nodes <- FdNodes, Null <- None,
                       MaxSize <- MaxTable, nodes <- fd_nodes

V == INSTANCE Vt WITH Procs <- VtProcs, NoProc <- None, next <- vt_next,
                      mode <- vt_mode, owner <- vt_owner,
                      buffer <- vt_buffer

C == INSTANCE SocketConnect WITH at <- cnn_at

S == INSTANCE SocketStream WITH at <- str_at

E == INSTANCE ElfModule WITH file <- elf_file, at <- elf_at,
                             state <- elf_state

L == INSTANCE Ld

Sh == INSTANCE Shell WITH pc <- sh_pc, interrupted <- sh_interrupted,
                          keys <- sh_keys

M == INSTANCE Scwm WITH NoWindow <- None, Root <- Screen

Ses == INSTANCE ComposeSession WITH events <- ses_events, pc <- ses_pc,
                                    sent <- ses_sent

Parts == {"sleep", "restart", "fds", "vt", "connect", "stream", "module", "ld",
          "shell", "scwm", "session"}

Off == "off"

Init ==
  /\ part \in Parts
  /\ IF part = "sleep" THEN Q!Init
     ELSE now = Off /\ sleep_queue = Off /\ node = Off /\ live = Off
          /\ timer = Off /\ sleep_hung = Off /\ later = Off /\ ticked = Off
  /\ IF part = "restart" THEN R!Init
     ELSE cfg = Off /\ mode = Off /\ cur = Off /\ eax = Off
          /\ interrupted = Off /\ signal_queue = Off /\ frames = Off
          /\ clean = Off /\ kills = Off
  /\ IF part = "fds" THEN F!Init
     ELSE alive = Off /\ fd_nodes = Off /\ amount = Off /\ fdt = Off
          /\ links = Off
  /\ IF part = "vt" THEN V!Init
     ELSE active = Off /\ vt_next = Off /\ vt_mode = Off /\ display = Off
          /\ vt_owner = Off /\ vt_buffer = Off /\ screen = Off /\ kbd = Off
          /\ intact = Off /\ written = Off /\ wild = Off
  /\ IF part = "connect" THEN C!Init
     ELSE listening = Off /\ backlog = Off /\ blocked_processes = Off
          /\ sel_queue = Off /\ cnn_blocked_processes = Off
          /\ connect = Off /\ nonblock = Off /\ open = Off /\ cnn_at = Off
          /\ woken = Off /\ irregular = Off /\ dropped = Off
  /\ IF part = "stream" THEN S!Init
     ELSE buffer = Off /\ buffer_size = Off /\ owner = Off /\ str_at = Off
          /\ call = Off /\ selecting = Off /\ sent = Off /\ received = Off
          /\ split = Off /\ wrapped = Off
  /\ IF part = "module" THEN E!Init
     ELSE symbols = Off /\ elf_file = Off /\ elf_at = Off
          /\ elf_state = Off /\ bss = Off /\ info = Off /\ refs = Off
  /\ IF part = "ld" THEN L!Init
     ELSE dependencies = Off /\ sym = Off /\ phase = Off /\ stack = Off
          /\ loaded = Off /\ override = Off /\ next = Off /\ slot = Off
          /\ copied = Off /\ times = Off
  /\ IF part = "shell" THEN Sh!Init
     ELSE sh_pc = Off /\ script = Off /\ status = Off
          /\ sh_interrupted = Off /\ pending = Off /\ fg = Off
          /\ proc = Off /\ child = Off /\ files = Off /\ leaked = Off
          /\ begun = Off /\ hit = Off /\ sh_keys = Off
  /\ IF part = "scwm" THEN M!Init
     ELSE geo = Off /\ mod = Off /\ mov = Off /\ res = Off /\ right = Off
          /\ low = Off /\ props = Off /\ overlay = Off /\ start = Off
          /\ least = Off /\ cut = Off /\ switched = Off /\ events = Off
  /\ IF part = "session" THEN Ses!Init
     ELSE selects = Off /\ requests = Off /\ ses_events = Off /\ created = Off
          /\ window_id = Off /\ win = Off /\ gc = Off /\ ses_pc = Off
          /\ own = Off /\ raised = Off /\ ses_sent = Off /\ delivered = Off
          /\ taken = Off /\ wanted = Off /\ resizes = Off /\ others = Off

Next ==
  /\ UNCHANGED part
  /\ IF part = "sleep" THEN Q!Next ELSE UNCHANGED sleepVars
  /\ IF part = "restart" THEN R!Next ELSE UNCHANGED callVars
  /\ IF part = "fds" THEN F!Next ELSE UNCHANGED fdsVars
  /\ IF part = "vt" THEN V!Next ELSE UNCHANGED vtVars
  /\ IF part = "connect" THEN C!Next ELSE UNCHANGED cnnVars
  /\ IF part = "stream" THEN S!Next ELSE UNCHANGED strVars
  /\ IF part = "module" THEN E!Next ELSE UNCHANGED elfVars
  /\ IF part = "ld" THEN L!Next ELSE UNCHANGED ldVars
  /\ IF part = "shell" THEN Sh!Next ELSE UNCHANGED shVars
  /\ IF part = "scwm" THEN M!Next ELSE UNCHANGED wmVars
  /\ IF part = "session" THEN Ses!Next ELSE UNCHANGED sesVars

vars == <<part, sleepVars, callVars, fdsVars, vtVars, cnnVars, strVars,
          elfVars, ldVars, shVars, wmVars, sesVars>>

Spec == Init /\ [][Next]_vars

ASSUME SystemAssumption ==
  /\ Q!SleepQueueAssumption /\ R!RestartAssumption /\ F!FdsAssumption /\ V!VtAssumption
  /\ C!SocketConnectAssumption /\ S!SocketStreamAssumption /\ L!LdAssumption
  /\ Sh!ShellAssumption /\ M!ScwmAssumption
  /\ Ses!ComposeSessionAssumption

(* Bound: open redirection files of the shell.                             *)
Small == part = "shell" => files <= 6

(***************************************************************************)
(* Properties                                                              *)
(***************************************************************************)

(* As long as no sleep was due later than all the others (`later'; such a  *)
(* one closes a cycle of nodes, and nothing is said from then on), the     *)
(* sleep queue is a list of the nodes of the sleeping processes, each once,*)
(* the latest first; and although a process may oversleep behind one that  *)
(* sleeps longer, nobody sleeps past the last deadline of all              *)
(* (k_proc_process_timeout, __k_proc_process_wakeup_timing).               *)
SleepersAreQueued == part = "sleep" => Q!QueueIsExact /\ Q!NobodySleepsPastAll

(* If each signal that interrupts a call runs a handler, and no handler has*)
(* a call of its own interrupted meanwhile (`clean'), then the program     *)
(* never sees -ERESTARTSYS, an interrupted call is restarted with its own  *)
(* registers, and interrupted_syscall belongs to a context still on the    *)
(* stack.  Of a program that breaks either condition it says nothing: an   *)
(* ignored signal shows it -ERESTARTSYS                                    *)
(* (k_proc_process_return_from_signal, __k_proc_process_try_restart_...).  *)
RestartsAreHidden ==
  part = "restart" => R!RestartIsNotSeen /\ R!RestartIsOwn /\ R!InterruptedIsSaved

(* Through forks, execs, exits and closes in any order, a descriptor and a *)
(* file node count exactly who holds them, and a process whose table has a *)
(* free slot by its counter has one (k_proc_process_open_node), as long as *)
(* no process calls dup2, which this part leaves out and FdsDup2 adds.     *)
LinksAreExact == part = "fds" => F!LinksAreExact /\ F!SlotExists

(* The screen belongs to one virtual terminal.  It shows that terminal's   *)
(* text while it is in text and auto mode, if it was so when it got the    *)
(* screen and its modes were not touched since (`intact').  Only it can    *)
(* have a release outstanding, and one in process mode keeps the screen    *)
(* until its owner gives it up, both as long as no release was answered by *)
(* a terminal whose next was never written (`wild') (vt.c).                *)
ScreenIsOwned ==
  [][part = "vt" => /\ V!PendingIsActive' /\ V!ScreenIsBuffer'
                    /\ V!ReleasedByOwner]_vars

(* Sockets (socket.c), as far as the code keeps it.  Connections: nobody   *)
(* sleeps in accept or select while a request waits; who sleeps in connect *)
(* has no peer and is in the backlog, or its connection was closed before  *)
(* it could run (`dropped': it sleeps on); two ends that are connected     *)
(* name each other, unless one of them called connect again or closed      *)
(* while it was in the backlog (`irregular').  Data: a reader or selector  *)
(* sleeps only while it could not go on; a writer that sleeps or gave up   *)
(* keeps the lock only of a buffer that is full, for ever; and what is     *)
(* written comes out in order and whole until the first transfer that      *)
(* takes more than one copy (`split': a write beyond the room there is, or *)
(* a read of more than there is), which repeats its first bytes.           *)
SocketsDeliver ==
  /\ part = "connect" =>
       C!AcceptorNotForgotten /\ C!ConnectorNotForgotten /\ C!PeersAgree
  /\ part = "stream" => /\ S!StreamInOrder /\ S!ReaderNotForgotten
                        /\ S!WriteSelectorNotForgotten /\ S!LockedOutMeansFull

(* A kernel module has its variables in zeroed memory unless it refers to  *)
(* one before the header of their section, and uses the kernel and itself  *)
(* only (elf.c).  A program's libraries are loaded and relocated once each *)
(* (ld.c).  A variable that the program has a copy of is that copy for     *)
(* all, made of a relocated value; one it has none of stays a null entry   *)
(* in every library that imports it.  All that import a function call the  *)
(* same one, which a loaded object defines; but if the program uses the    *)
(* function's address, its own entry leads to itself and the first call of *)
(* the function never returns.                                             *)
LinkingIsConsistent ==
  /\ part = "module" => E!VariablesAreMemory /\ E!ModulesAreApart
  /\ part = "ld" => /\ L!LoadedOnce /\ L!RelocatedOnce /\ L!OneVariable
                    /\ L!CopyIsRelocated /\ L!CallsAgree

(* At its prompt the shell has the terminal and no redirection open but    *)
(* the streams that a second redirection on a line replaced, which are     *)
(* never closed; a command that has the terminal is waited for; and after  *)
(* an interrupt a script begins at most one more line (user/scsh).         *)
ShellIsInControl ==
  part = "shell" => /\ Sh!PromptIsForeground /\ Sh!ForegroundIsWaitedFor
                    /\ Sh!InterruptStops /\ Sh!FilesAreClosed

(* The window manager (user/scwm) knows where the window is that it moves, *)
(* except after a press that cuts the resize of the same window (`cut');   *)
(* resizes it without moving the opposite edge, until the least size is    *)
(* reached (`least': from then on that edge only goes outwards); and gives *)
(* it in the end the rectangle that its overlay showed, which is the only  *)
(* one on it, unless a second press of the right button replaced a resize  *)
(* (`switched').  Programs do not change a window that is being dragged.   *)
DragIsTracked ==
  [][part = "scwm" => /\ M!MovedIsTracked' /\ M!OppositeEdge' /\ M!OverlayIsCurrent'
                      /\ M!ResizeIsApplied]_vars

(* Between client and compositor: the main loop gets every event that no   *)
(* waiting call kept, once and in order; a call that creates a window gets *)
(* its own, if the client did not select the WIN events of others; one     *)
(* resize of a window is under way at a time; and the size asked for last  *)
(* wins, also when it was asked for during a resize.                       *)
SessionIsSound ==
  part = "session" => /\ Ses!EventsInOrder /\ Ses!OwnWindowIsOwn
                      /\ Ses!OneResizeAtATime /\ Ses!LastSizeWins
=============================================================================
