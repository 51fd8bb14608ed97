------------------------------- MODULE Storage ------------------------------
(***************************************************************************)
(* Where data is kept, in memory and in files: mmap's search for an        *)
(* address, the virtual file system, paths, tmpfs, tar archives, procfs,   *)
(* the disk driver, ext2, streams, environment.  The code keeps their      *)
(* state apart, so each is explored on its own: `part' says which one      *)
(* runs, and the behaviours of this module are those of its parts.         *)
(***************************************************************************)
EXTENDS Integers, Sequences

CONSTANTS None, proc1, proc2, h1, h2

TarNames == {<<"a">>, <<"a", "b">>, <<"b">>}
StreamData == <<1, 2, 99, 4, 5>>

(* An ext2 disk with three files: 2 has a direct and an indirect part, 7   *)
(* has one block, 5 is long enough for double and triple indirect blocks.  *)
Table == [g \in 0..1 |-> IF g = 0 THEN 1 ELSE 3]
DiskInode ==
  [i \in {2, 5, 7} |->
     CASE i = 2 -> [size |-> 7, ptr |-> <<5, 6>>, s |-> 9, d |-> 0, t |-> 0]
       [] i = 5 -> [size |-> 36, ptr |-> <<12, 13>>, s |-> 14, d |-> 15, t |-> 15]
       [] i = 7 -> [size |-> 2, ptr |-> <<10, 0>>, s |-> 0, d |-> 0, t |-> 0]]
DiskPointers ==
  [b \in {9, 14, 15, 16} |->
     CASE b = 9 -> <<7, 8, 0, 0>>
       [] b = 14 -> <<17, 18, 19, 20>>
       [] b = 15 -> <<16, 0, 0, 0>>
       [] b = 16 -> <<11, 0, 0, 0>>]

(* Which part runs, and the variables of each: they are Off in the others. *)
VARIABLES
  part,
  kinds, mem_state, used, pt, mem_blocks, start, mem_file, fds, nodes, shm,
  copied, mem_hung,
  entry, vfs_node, open,
  wd, dir,
  live, size, blocks_amount, block_array_size, mem, tmp_node, gen, switched,
  tmp_halted, tmp_content, tmp_result, tmp_expected, skewed, tmp_calls,
  tree_node, prog, tree_halted,
  archive, phase, tar_node, tar_asked, tar_index, tar_listed, done, got,
  list, proc, proc_index, proc_listed, fin, begun, gone, file, offset,
  proc_last,
  disk, lock, blocked, command, selected, irq, ata_pc, op, internal, ata_cpu,
  ata_halted, ops, seen, disturbed,
  block_cache, inode_cache, readahead_buffer, ext2_pc, rd, dev, ext2_cpu,
  reads, torn,
  perms, entries, dir_node, dir_asked, dir_index, dir_listed,
  s, io_last, pos, io_content, io_result, io_expected, middle, lost, written,
  io_calls,
  environ, _envc, map, clash, env_got, env_calls

memVars == <<kinds, mem_state, used, pt, mem_blocks, start, mem_file, fds,
             nodes, shm, copied, mem_hung>>
vfsVars == <<entry, vfs_node, open>>
pathVars == <<wd, dir>>
tmpVars == <<live, size, blocks_amount, block_array_size, mem, tmp_node, gen,
             switched, tmp_halted, tmp_content, tmp_result, tmp_expected,
             skewed, tmp_calls>>
treeVars == <<tree_node, prog, tree_halted>>
tarVars == <<archive, phase, tar_node, tar_asked, tar_index, tar_listed,
             done, got>>
procVars == <<list, proc, proc_index, proc_listed, fin, begun, gone, file,
              offset, proc_last>>
ataVars == <<disk, lock, blocked, command, selected, irq, ata_pc, op,
             internal, ata_cpu, ata_halted, ops, seen, disturbed>>
ext2Vars == <<block_cache, inode_cache, readahead_buffer, ext2_pc, rd, dev,
              ext2_cpu, reads, torn>>
dirVars == <<perms, entries, dir_node, dir_asked, dir_index, dir_listed>>
ioVars == <<s, io_last, pos, io_content, io_result, io_expected, middle,
            lost, written, io_calls>>
envVars == <<environ, _envc, map, clash, env_got, env_calls>>

(* A process that maps blocks of one and two pages, also at an address it  *)
(* chooses.                                                                *)
M == INSTANCE Memory WITH Procs <- {1}, First <- 1, NFrames <- 8,
                          MmapStart <- 2, Top <- 7, Nodes <- {},
                          MaxShm <- 2, MaxBlocks <- 4, Lens <- {1, 2},
                          FixedAt <- {4}, Uses <- {{"anon"}},
                          state <- mem_state, blocks <- mem_blocks,
                          file <- mem_file, hung <- mem_hung

(* Two names, of which one is that of the file of every file system.       *)
V == INSTANCE Vfs WITH Names <- {"a", "b"}, Leaf <- "b", LinkTo <- <<"a">>,
                       MaxPath <- 2, NodeIds <- 1..4, node <- vfs_node

P == INSTANCE Paths WITH Names <- {"a", "b"}, MaxSegs <- 3, MaxDepth <- 3

T == INSTANCE Tmpfs WITH BLOCK <- 4, Word <- 2, Handles <- {h1, h2},
                         Offsets <- {0, 1, 4}, Sizes <- {2, 4, 6},
                         MaxOps <- 6, node <- tmp_node, halted <- tmp_halted,
                         content <- tmp_content, result <- tmp_result,
                         expected <- tmp_expected, calls <- tmp_calls

(* Two programs side by side on a small tree, and one on a larger tree.    *)
T2 == INSTANCE TmpfsTree WITH
  Procs <- {proc1, proc2}, FileNames <- {3, 4}, MaxNodes <- 3, node <- tree_node,
  halted <- tree_halted
T1 == INSTANCE TmpfsTree WITH
  Procs <- {proc1}, FileNames <- {3, 4}, MaxNodes <- 4, node <- tree_node,
  halted <- tree_halted

(* A name, one that begins with it, and another.                          *)
R == INSTANCE Tar WITH Names <- TarNames, Sizes <- {0, 513}, MaxEntries <- 3,
                       Lengths <- {0, 1, 512, 600}, node <- tar_node,
                       asked <- tar_asked, index <- tar_index,
                       listed <- tar_listed

(* Status files of several lengths with three processes, and four of which *)
(* one may end before another in the list.                                 *)
C == INSTANCE Procfs WITH Pids <- {1, 2, 3}, Bare <- {1, 5}, Chunk <- 3,
                          Reads <- {2, 9}, index <- proc_index,
                          listed <- proc_listed, last <- proc_last
C4 == INSTANCE Procfs WITH Pids <- {1, 2, 3, 4}, Bare <- {1}, Chunk <- 3,
                           Reads <- {}, index <- proc_index,
                           listed <- proc_listed, last <- proc_last

(* Both drives of a bus, with errors and signals.                          *)
A == INSTANCE Ata WITH Procs <- {proc1, proc2}, Drives <- {0, 1}, Sectors <- 2,
                       SectorSize <- 2, Prd <- 1, MaxCount <- 2,
                       Offsets <- {0, 2}, Sizes <- {2, 4}, Faults <- TRUE,
                       MaxOps <- 2, pc <- ata_pc, cpu <- ata_cpu,
                       halted <- ata_halted

E == INSTANCE Ext2 WITH Procs <- {proc1, proc2}, BlockSize <- 2, Direct <- 2,
                        Single <- 4, TotalBlocks <- 20, InodesPerGroup <- 4,
                        InodesPerBlock <- 2, InodeTable <- Table,
                        Inode <- DiskInode, Pointers <- DiskPointers,
                        Junk <- {0, 6, 99}, CacheBlocks <- 3, CacheInodes <- 1,
                        MaxReadahead <- 3, Chunk <- 1, Offsets <- {0, 3, 7, 33},
                        Sizes <- {5}, MaxReads <- 2, pc <- ext2_pc,
                        cpu <- ext2_cpu

D == INSTANCE Ext2Dir WITH Names <- {"a", "b"}, Inodes <- {2, 3},
                           Formats <- {4, 8, 12}, MaxEntries <- 2,
                           node <- dir_node, asked <- dir_asked,
                           index <- dir_index, listed <- dir_listed

S == INSTANCE Stdio WITH Data <- StreamData, BUFSIZE <- 2, Newline <- 99,
                         MaxWritten <- 3, MaxOps <- 5, Fails <- TRUE,
                         last <- io_last, content <- io_content,
                         result <- io_result, expected <- io_expected,
                         calls <- io_calls

(* Three variables, two with names of one length; that of the third ends   *)
(* where a value of the first has a second '='.                            *)
NameLength(n) == IF n = "A" THEN 1 ELSE 3
N == INSTANCE Env WITH Names <- {"A", "B", "C"}, Length <- NameLength,
                       Values <- {"x", "x=y"}, Equal <- {"x=y"}, MaxOps <- 4,
                       got <- env_got, calls <- env_calls

Parts == {"search", "vfs", "paths", "tmpfs", "pair", "single", "tar",
          "procfs", "processes", "ata", "ext2", "ext2_dir", "stdio", "env"}

Off == "off"

Init ==
  /\ part \in Parts
  /\ IF part = "search" THEN M!Init
     ELSE kinds = Off /\ mem_state = Off /\ used = Off /\ pt = Off
          /\ mem_blocks = Off /\ start = Off /\ mem_file = Off /\ fds = Off
          /\ nodes = Off /\ shm = Off /\ copied = Off /\ mem_hung = Off
  /\ IF part = "vfs" THEN V!Init
     ELSE entry = Off /\ vfs_node = Off /\ open = Off
  /\ IF part = "paths" THEN P!Init
     ELSE wd = Off /\ dir = Off
  /\ IF part = "tmpfs" THEN T!Init
     ELSE live = Off /\ size = Off /\ blocks_amount = Off
          /\ block_array_size = Off /\ mem = Off /\ tmp_node = Off
          /\ gen = Off /\ switched = Off /\ tmp_halted = Off
          /\ tmp_content = Off /\ tmp_result = Off /\ tmp_expected = Off
          /\ skewed = Off /\ tmp_calls = Off
  /\ IF part = "pair" THEN T2!Init
     ELSE IF part = "single" THEN T1!Init
     ELSE tree_node = Off /\ prog = Off /\ tree_halted = Off
  /\ IF part = "tar" THEN R!Init
     ELSE archive = Off /\ phase = Off /\ tar_node = Off /\ tar_asked = Off
          /\ tar_index = Off /\ tar_listed = Off /\ done = Off /\ got = Off
  /\ IF part = "procfs" THEN C!Init
     ELSE IF part = "processes" THEN C4!Init
     ELSE list = Off /\ proc = Off /\ proc_index = Off /\ proc_listed = Off
          /\ fin = Off /\ begun = Off /\ gone = Off /\ file = Off
          /\ offset = Off /\ proc_last = Off
  /\ IF part = "ata" THEN A!Init
     ELSE disk = Off /\ lock = Off /\ blocked = Off /\ command = Off
          /\ selected = Off /\ irq = Off /\ ata_pc = Off /\ op = Off
          /\ internal = Off /\ ata_cpu = Off /\ ata_halted = Off
          /\ ops = Off /\ seen = Off /\ disturbed = Off
  /\ IF part = "ext2" THEN E!Init
     ELSE block_cache = Off /\ inode_cache = Off /\ readahead_buffer = Off
          /\ ext2_pc = Off /\ rd = Off /\ dev = Off /\ ext2_cpu = Off
          /\ reads = Off /\ torn = Off
  /\ IF part = "ext2_dir" THEN D!Init
     ELSE perms = Off /\ entries = Off /\ dir_node = Off /\ dir_asked = Off
          /\ dir_index = Off /\ dir_listed = Off
  /\ IF part = "stdio" THEN S!Init
     ELSE s = Off /\ io_last = Off /\ pos = Off /\ io_content = Off
          /\ io_result = Off /\ io_expected = Off /\ middle = Off
          /\ lost = Off /\ written = Off /\ io_calls = Off
  /\ IF part = "env" THEN N!Init
     ELSE environ = Off /\ _envc = Off /\ map = Off /\ clash = Off
          /\ env_got = Off /\ env_calls = Off

Next ==
  /\ UNCHANGED part
  /\ IF part = "search" THEN M!Next ELSE UNCHANGED memVars
  /\ IF part = "vfs" THEN V!Next ELSE UNCHANGED vfsVars
  /\ IF part = "paths" THEN P!Next ELSE UNCHANGED pathVars
  /\ IF part = "tmpfs" THEN T!Next ELSE UNCHANGED tmpVars
  /\ IF part = "pair" THEN T2!Next
     ELSE IF part = "single" THEN T1!Next
     ELSE UNCHANGED treeVars
  /\ IF part = "tar" THEN R!Next ELSE UNCHANGED tarVars
  /\ IF part = "procfs" THEN C!Next
     ELSE IF part = "processes" THEN C4!Next
     ELSE UNCHANGED procVars
  /\ IF part = "ata" THEN A!Next ELSE UNCHANGED ataVars
  /\ IF part = "ext2" THEN E!Next ELSE UNCHANGED ext2Vars
  /\ IF part = "ext2_dir" THEN D!Next ELSE UNCHANGED dirVars
  /\ IF part = "stdio" THEN S!Next ELSE UNCHANGED ioVars
  /\ IF part = "env" THEN N!Next ELSE UNCHANGED envVars

vars == <<part, memVars, vfsVars, pathVars, tmpVars, treeVars, tarVars,
          procVars, ataVars, ext2Vars, dirVars, ioVars, envVars>>

Spec == Init /\ [][Next]_vars

ASSUME StorageAssumption ==
  /\ M!MemoryAssumption
  /\ V!VfsAssumption /\ P!PathsAssumption /\ T!TmpfsAssumption
  /\ T1!TmpfsTreeAssumption /\ T2!TmpfsTreeAssumption /\ R!TarAssumption
  /\ C!ProcfsAssumption /\ C4!ProcfsAssumption /\ A!AtaAssumption /\ E!Ext2Assumption
  /\ D!Ext2DirAssumption /\ S!StdioAssumption /\ N!EnvAssumption

(***************************************************************************)
(* Properties                                                              *)
(***************************************************************************)

(* A path leads to the file that the tree says it does: in the virtual     *)
(* file system (vfs.c) whatever is mounted, created and removed, short of  *)
(* the root itself, and behind a symbolic link short of what is mounted    *)
(* below its target; in ext2 past deleted entries; in a tar archive past   *)
(* names that begin with it; and from a working directory through dots     *)
(* (path.c), where two slashes in a row stand for a name that no directory *)
(* has, unless they end the path.                                          *)
LookupsAreRight ==
  /\ part = "vfs" => V!LookupIsRight
  /\ part = "ext2_dir" => D!LookupFinds
  /\ part = "tar" => R!OpenFinds
  /\ part = "paths" => P!WdIsDirectory /\ P!FolderAndName

(* A directory listed entry by entry shows what is there: every mounted    *)
(* name and file, every entry of an ext2 or tar directory; in tmpfs and in *)
(* /proc, where others remove entries meanwhile and the index shifts, none *)
(* twice, and at most one of those that stay is missed for each that goes. *)
ListingsAreComplete ==
  /\ part = "vfs" => V!ListedIsFound
  /\ part = "pair" => T2!ListingIsComplete /\ T2!ListingIsSorted
  /\ part = "single" => T1!ListingIsComplete /\ T1!ListingIsSorted
  /\ part = "ext2_dir" => D!ListingIsComplete
  /\ part = "tar" => R!ListingIsChildren
  /\ part = "procfs" => C!ListedOnce /\ C!ListingMissesFew
  /\ part = "processes" => C4!ListedOnce /\ C4!ListingMissesFew

(* What a read returns was written: through the blocks of tmpfs at whole   *)
(* blocks, and the clipped end of a tar file; through the DMA of two       *)
(* drives on one bus (unless a fault disturbed it); through the caches of  *)
(* ext2, in the direct and single indirect blocks of a file and until two  *)
(* readaheads meet in the buffer they share; from a status file of /proc   *)
(* but for the characters where its buffer moved; through the buffer of a  *)
(* stream that also seeks and writes and whose reads fail, until a refill  *)
(* begins in the middle of the buffer or a write fails; and from the       *)
(* environment while putenv has not taken one variable for another.        *)
ReadsAreExact ==
  /\ part = "tmpfs" => T!ReadsWhatWasWritten
  /\ part = "tar" => R!ReadIsExact
  /\ part = "ata" => A!TransfersAreExact /\ A!HaltNeedsPart
  /\ part = "ext2" => E!ReadIsExact
  /\ part = "procfs" => C!StatusIsText /\ C!LengthIsKept
  /\ part = "stdio" => S!StreamIsFile /\ S!NothingUnwritten
  /\ part = "env" => N!Terminated /\ N!SetIsGot /\ N!EnvIsMap

(* The search of mmap hands out disjoint ranges to anonymous mappings (the *)
(* pages of a file mapping look free until they are touched), and runs     *)
(* forever only on a hole between two mappings smaller than the request    *)
(* (mmap.c); entries of the virtual file system name live nodes, while the *)
(* root is mounted, and a handle is its opener's own; the tree of tmpfs is *)
(* whole; a cache of ext2 holds what the disk holds until two readaheads   *)
(* have met.                                                               *)
Sound ==
  /\ part = "search" => M!MappingsAreDisjoint /\ M!HangNeedsHole
  /\ part = "vfs" => V!EntriesAreLive /\ V!HandlesAreOwn
  /\ part = "pair" => T2!TreeIsWhole
  /\ part = "single" => T1!TreeIsWhole
  /\ part = "ext2" => E!CachesAreTrue

(* Every step keeps the structures sound, as far as Sound says; no step of *)
(* rm takes a directory out of tmpfs that it should have found to have     *)
(* entries; and on a file of tmpfs that is there a write from its start of *)
(* at most one block more than it has, and a read of whole blocks once     *)
(* something was written, stay inside its blocks.                          *)
StepsAreSound ==
  [][/\ Sound'
     /\ part = "pair" => T2!EmptyIsChecked
     /\ part = "tmpfs" => T!AlignedIsSafe]_vars
=============================================================================
