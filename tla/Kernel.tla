------------------------------- MODULE Kernel -------------------------------
(***************************************************************************)
(* How the kernel gives out memory and starts programs: the allocator of   *)
(* physical frames, the kernel heap, the address spaces of processes with  *)
(* the memory they share, the boot sequence of init, and exec.  The parts  *)
(* share no state; `part' says which one runs, and the behaviours of this  *)
(* module are those of its parts.                                          *)
(***************************************************************************)
EXTENDS Integers, Sequences

CONSTANTS
  Frames, WordBits, FrameWords, BitmapFrame, MaxRun, Unset,    \* of Pmm
  Header, Pointer, Page, InitialSize, HeapEnd, Sizes, Alignments,  \* of Heap
  MemProcs, MemFirst, NFrames, MmapStart, Top, ShmNodes, MaxShm, MaxBlocks,
  Lens, FixedAt, Uses,                                         \* of Memory
  Modules, Scripts, ModKinds, Daemons,                         \* of Boot
  Paths, Ld, Args, MaxArgs, MaxDepth                           \* of Exec

(* For Scripts: of four names, one begins another.                         *)
ScriptNames == {<<1>>, <<1, 2>>, <<1, 3>>, <<2>>}

(* Which part runs, and the variables of each: they are Off in the others. *)
VARIABLES
  part,
  bitmap, bitmap_size, first_free_index, init, panic, owned,
  heap_blocks, heap_size, heap_panic, heap_held,
  kinds, mem_state, used, copied, pt, mem_blocks, mem_start, mem_file, mem_fds,
  mem_nodes, shm, mem_hung,
  boot_pc, boot_kind, dir, loaded, boot_disk, boot_part, scripts, sort_i,
  sort_j, swapped, boot_next, child, daemon, ended,
  exec_kind, interp, call, env, image, asked, exec_fds, exec_at

pmmVars == <<bitmap, bitmap_size, first_free_index, init, panic, owned>>
heapVars == <<heap_blocks, heap_size, heap_panic, heap_held>>
memVars == <<kinds, mem_state, used, copied, pt, mem_blocks, mem_start, mem_file,
             mem_fds, mem_nodes, shm, mem_hung>>
bootVars == <<boot_pc, boot_kind, dir, loaded, boot_disk, boot_part, scripts,
              sort_i, sort_j, swapped, boot_next, child, daemon, ended>>
execVars == <<exec_kind, interp, call, env, image, asked, exec_fds, exec_at>>

Fr == INSTANCE Pmm

Hp == INSTANCE Heap WITH blocks <- heap_blocks, panic <- heap_panic, held <- heap_held

Mem == INSTANCE Memory WITH
  Procs <- MemProcs, First <- MemFirst, Nodes <- ShmNodes, state <- mem_state,
  blocks <- mem_blocks, start <- mem_start, file <- mem_file, fds <- mem_fds,
  nodes <- mem_nodes, hung <- mem_hung

Bt == INSTANCE Boot WITH
  Kinds <- ModKinds, pc <- boot_pc, kind <- boot_kind, disk <- boot_disk,
  part <- boot_part, i <- sort_i, j <- sort_j, next <- boot_next

Ex == INSTANCE Exec WITH kind <- exec_kind, fds <- exec_fds, at <- exec_at

Parts == {"frames", "heap", "memory", "boot", "exec"}

Off == "off"

Init ==
  /\ part \in Parts
  /\ IF part = "frames" THEN Fr!Init
     ELSE bitmap = Off /\ bitmap_size = Off /\ first_free_index = Off
          /\ init = Off /\ panic = Off /\ owned = Off
  /\ IF part = "heap" THEN Hp!Init
     ELSE heap_blocks = Off /\ heap_size = Off /\ heap_panic = Off /\ heap_held = Off
  /\ IF part = "memory" THEN Mem!Init
     ELSE kinds = Off /\ mem_state = Off /\ used = Off /\ copied = Off /\ pt = Off
          /\ mem_blocks = Off /\ mem_start = Off /\ mem_file = Off
          /\ mem_fds = Off /\ mem_nodes = Off /\ shm = Off /\ mem_hung = Off
  /\ IF part = "boot" THEN Bt!Init
     ELSE boot_pc = Off /\ boot_kind = Off /\ dir = Off /\ loaded = Off
          /\ boot_disk = Off /\ boot_part = Off /\ scripts = Off
          /\ sort_i = Off /\ sort_j = Off /\ swapped = Off /\ boot_next = Off
          /\ child = Off /\ daemon = Off /\ ended = Off
  /\ IF part = "exec" THEN Ex!Init
     ELSE exec_kind = Off /\ interp = Off /\ call = Off /\ env = Off
          /\ image = Off /\ asked = Off /\ exec_fds = Off /\ exec_at = Off

Next ==
  /\ UNCHANGED part
  /\ IF part = "frames" THEN Fr!Next ELSE UNCHANGED pmmVars
  /\ IF part = "heap" THEN Hp!Next ELSE UNCHANGED heapVars
  /\ IF part = "memory" THEN Mem!Next ELSE UNCHANGED memVars
  /\ IF part = "boot" THEN Bt!Next ELSE UNCHANGED bootVars
  /\ IF part = "exec" THEN Ex!Next ELSE UNCHANGED execVars

vars == <<part, pmmVars, heapVars, memVars, bootVars, execVars>>

Spec == Init /\ [][Next]_vars

ASSUME KernelAssumption ==
  /\ Fr!PmmAssumption /\ Hp!HeapAssumption /\ Mem!MemoryAssumption
  /\ Bt!BootAssumption /\ Ex!ExecAssumption

(***************************************************************************)
(* Properties                                                              *)
(***************************************************************************)

(* No frame is handed out twice: what a caller owns is not free, and       *)
(* nobody ever owns a frame of the bitmap itself (pmm.c).                  *)
OwnedOnce == part = "frames" => Fr!OwnedOnce

(* The kernel panics for lack of memory only if no run of that many free   *)
(* frames exists anywhere (k_mem_pmm_alloc_frames).                        *)
PanicIsJustified == part = "frames" => Fr!PanicIsJustified

(* An allocation hands out n consecutive frames that were free and that    *)
(* nobody owned: the search starts to count again at every frame in use.   *)
GrantsAreFresh == [][part = "frames" => Fr!Fresh]_vars

(* Memory has one owner and none is lost: through mmap, munmap, page       *)
(* faults, fork, exec, exit and the calls on shared memory, in any order,  *)
(* a frame is held by one private page or once by the shared object, a     *)
(* used one is held, but for the copies that fork makes of shared pages,   *)
(* and no mappings overlap unless files are mapped (mmap.c, paging.c,      *)
(* shm.c).  The blocks of the kernel heap tile it, those in use are the    *)
(* callers', free ones do not crumble and no panic about the allocator's   *)
(* own state is reached, until a caller asks for no bytes (alloc.c).       *)
MemoryIsOwned ==
  /\ part = "memory" => /\ Mem!OneOwner /\ Mem!NoFrameLost
                        /\ "file" \notin kinds => Mem!MappingsAreDisjoint
  /\ part = "heap" => /\ Hp!HeapIsTiled /\ Hp!HeldIsUsed
                      /\ Hp!FreeMemoryIsMerged /\ Hp!NoInternalPanic

(* Scripts run in the order of their names, each after the one before has  *)
(* ended, and init loads every module the kernel takes (user/init).  The   *)
(* program that runs after an exec is the one meant, through any number of *)
(* interpreters; it gets the scripts that led to it and the arguments of   *)
(* execve in order, after its path or, if it is static, its node's name,   *)
(* and the environment of execve if it is static, else none (exec.c,       *)
(* user/ld).                                                               *)
StartsAreRight ==
  /\ part = "boot" => Bt!ScriptsInOrder /\ Bt!BootIsComplete
  /\ part = "exec" => Ex!ArgumentsArrive /\ Ex!EnvironmentArrives
=============================================================================
