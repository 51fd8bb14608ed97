------------------------------- MODULE Memory -------------------------------
(***************************************************************************)
(* Address spaces: page tables (kernel/src/mem/paging.c), memory mappings  *)
(* (mem/mmap.c and the mmap, munmap and msync calls), shared memory        *)
(* objects (mem/shm.c) and the frames they take from the frame allocator,  *)
(* through fork, exec, exit and waitpid.  System calls run with interrupts *)
(* off, so each is one step.                                               *)
(*                                                                         *)
(* A user address space is a window of pages 0 .. Top - 1 under one page   *)
(* table: the heap below MmapStart, mappings from MmapStart on, the stack  *)
(* from Top (USER_STACK_END) on.  Contents, protection and the frames of   *)
(* the page tables themselves are left out.                                *)
(* Programs map a shared memory object whole, as libcompose does, and do   *)
(* not map files beside it: the search for an address takes the untouched  *)
(* part of a file mapping for free memory.                                 *)
(* CLONE_VM, which shares a directory between two processes, is left out.  *)
(* Freed_All is a faulty variant of the definition that follows it.        *)
(***************************************************************************)
EXTENDS Integers, Sequences, FiniteSetsExt

CONSTANTS
  Procs, First,     \* processes, and the one that exists at first
  NFrames,          \* frames of memory
  MmapStart, Top,   \* USER_MMAP_START and USER_STACK_END, in pages
  Nodes,            \* fs_node_t objects of the shared memory object
  MaxShm,           \* largest size of the object considered
  MaxBlocks,        \* most mappings of a process considered
  Lens, FixedAt,    \* mapping lengths, and addresses given with MAP_FIXED, considered
  Uses              \* mappings that programs use side by side: sets of kinds

MemoryAssumption ==
  /\ First \in Procs /\ IsFiniteSet(Procs)
  /\ {NFrames, MmapStart, Top, MaxShm, MaxBlocks} \subseteq Nat \ {0}
  /\ MmapStart <= Top
  /\ Lens \subseteq Nat \ {0} /\ FixedAt \subseteq MmapStart..(Top - 1)
  /\ Nodes \subseteq Nat /\ IsFiniteSet(Nodes)
  /\ \A K \in Uses : K \in {{"anon"}, {"anon", "file"}, {"anon", "shm"}}

VARIABLES
  kinds,    \* the kinds of mappings used
  state,    \* "none", "live", or "finished" and not yet waited for
  used,     \* frames marked in the allocator's bitmap, but for `copied':
  copied,   \* those that fork made of the pages of a shared memory mapping
  pt,       \* page table entries: a frame, 0 when not present
  blocks,   \* image.mmap_info.mmap_blocks
  start,    \* image.mmap_info.start
  file,     \* processes that have the mapped file open
  fds,      \* nodes of the shared memory object each process has open
  nodes,    \* fs_node_t: links and size
  shm,      \* shm_node_t: frames and links
  hung      \* the request whose search never ends, <<>> when there is none

vars == <<kinds, state, used, copied, pt, blocks, start, file, fds, nodes, shm, hung>>

AllFrames == 1..NFrames
Pages == 0..(Top - 1)
Empty == [v \in Pages |-> 0]
NoNode == [links |-> 0, size |-> 0]
NoShm  == [frames |-> << >>, links |-> 0]

(* The k lowest elements of a set of numbers, in order.                    *)
Ascending(S, k) == [i \in 1..k |-> CHOOSE x \in S : Cardinality({y \in S : y < x}) = i - 1]

(* The frames k_mem_pmm_alloc_frames returns: the lowest free ones.        *)
Free(u) == AllFrames \ (u \cup copied)
Lowest(k) == Ascending(Free(used), k)
HasFree(k) == Cardinality(Free(used)) >= k

Present(p) == {v \in Pages : pt[p][v] # 0}
Span(b)   == b.start..(b.start + b.len - 1)
Blocks(p)  == {blocks[p][i] : i \in DOMAIN blocks[p]}
Spans(p, kind) == UNION {Span(b) : b \in {c \in Blocks(p) : c.kind = kind}}

Init ==
  /\ kinds \in Uses
  /\ state = [p \in Procs |-> IF p = First THEN "live" ELSE "none"]
  /\ used = {1}
  /\ copied = {}
  /\ pt = [p \in Procs |-> IF p = First THEN [Empty EXCEPT ![0] = 1] ELSE Empty]
  /\ blocks = [p \in Procs |-> << >>]
  /\ start = [p \in Procs |-> MmapStart]
  /\ file = {First}
  /\ fds = [p \in Procs |-> {}]
  /\ nodes = [n \in Nodes |-> NoNode]
  /\ shm = NoShm
  /\ hung = << >>

(***************************************************************************)
(* k_mem_mmap_allocate_block                                               *)
(***************************************************************************)
(* k_mem_paging_virt2phys answers: a stack of one page lies at Top.        *)
Mapped(p, v) == v = Top \/ (v < Top /\ pt[p][v] # 0)

(* k_mem_mmap_get_mapping: the first block of the list around a page.      *)
Around(p, v) == {i \in DOMAIN blocks[p] : v \in Span(blocks[p][i])}
InBlock(p, v) == Around(p, v) # {}
get_mapping(p, v) == blocks[p][Min(Around(p, v))]

Fits(p, len, at) == \A i \in 0..(len - 1) : ~Mapped(p, at + i)

(* The next offset tried: the first free page after the obstacle, counted  *)
(* from the offset tried last.                                             *)
NextOffset(p, len, off) ==
  LET at == start[p] + off
      i  == Min({k \in 0..(len - 1) : Mapped(p, at + k)})
  IN  Min({j \in i..(Top + 1) : ~Mapped(p, at + j) /\ ~InBlock(p, at + j)})

(* The loop of the search, with Top + 2 rounds, more than it has offsets:  *)
(* the offset it ends with is one that fits, one past the end, or one of   *)
(* a circle it never leaves.  Past the end the code tries once more from   *)
(* LOWMEM_START, which lies above the stack and fails as well.             *)
Search(p, len) ==
  LET done(off) == start[p] + off >= Top \/ Fits(p, len, start[p] + off)
      next == [off \in 0..(Top + 1) |-> IF done(off) THEN off ELSE NextOffset(p, len, off)]
      round[n \in 0..(Top + 2)] == IF n = 0 THEN 0 ELSE next[round[n - 1]]
      off == round[Top + 2]
  IN  [ends |-> done(off), at |-> start[p] + off]

(* The block and its pages: at once for anonymous memory, the object's     *)
(* frames for shared memory, on the first access for a file.               *)
Mapping(p, kind, at, len) ==
  LET fresh == Lowest(len) IN
  /\ Len(blocks[p]) < MaxBlocks
  /\ kind = "anon" => HasFree(len)
  /\ blocks' = [blocks EXCEPT ![p] =
       Append(@, [kind |-> kind, start |-> at, len |-> len, listed |-> kind # "anon"])]
  /\ pt' = [pt EXCEPT ![p] = [v \in Pages |->
       IF v \notin at..(at + len - 1) THEN @[v]
       ELSE CASE kind = "anon" -> fresh[v - at + 1]
              [] kind = "shm" -> shm.frames[v - at + 1]
              [] OTHER -> @[v]]]
  /\ used' = IF kind = "anon" THEN used \cup Range(fresh) ELSE used

(* sys_mmap: what may be mapped.                                           *)
Mappable(p, kind, len) ==
  /\ state[p] = "live"
  /\ kind \in kinds
  /\ CASE kind = "anon" -> len \in Lens
       [] kind = "file" -> len \in Lens /\ p \in file
       [] OTHER -> fds[p] # {} /\ len = Len(shm.frames) /\ len > 0

sys_mmap(p, kind, len) ==
  /\ Mappable(p, kind, len)
  /\ LET s == Search(p, len) IN
       \/ /\ ~s.ends
          /\ hung' = <<p, len>>
          /\ UNCHANGED <<used, pt, blocks, start>>
       \/ /\ s.ends /\ s.at + len < Top
          /\ Mapping(p, kind, s.at, len)
          /\ start' = [start EXCEPT ![p] = s.at + len]
          /\ UNCHANGED hung
  /\ UNCHANGED <<state, copied, file, fds, nodes, shm>>

(* MAP_FIXED: only where nothing is present.                               *)
FixedFree(p, at, len) == at + len < Top /\ Fits(p, len, at)

sys_mmap_fixed(p, kind, at, len) ==
  /\ Mappable(p, kind, len)
  /\ FixedFree(p, at, len)
  /\ Mapping(p, kind, at, len)
  /\ UNCHANGED <<state, copied, start, file, fds, nodes, shm, hung>>

(***************************************************************************)
(* Unmapping and page faults                                               *)
(***************************************************************************)
(* The frames given back when pages of kind are unmapped: not those of a   *)
(* shared memory object.                                                   *)
Freed_All(p, kind, pages) == {pt[p][v] : v \in pages} \ {0}
Freed(p, kind, pages) == IF kind = "shm" THEN {} ELSE {pt[p][v] : v \in pages} \ {0}

Unmapped(p, pages) == [v \in Pages |-> IF v \in pages THEN 0 ELSE pt[p][v]]

(* sys_munmap: the block around the address, with k_mem_mmap_free_block.   *)
sys_munmap(p, v) ==
  /\ state[p] = "live" /\ InBlock(p, v)
  /\ LET b == get_mapping(p, v)
         i == Min(Around(p, v))
     IN
       /\ used' = used \ Freed(p, b.kind, Span(b))
       /\ pt' = [pt EXCEPT ![p] = Unmapped(p, Span(b))]
       /\ blocks' = [blocks EXCEPT ![p] = SubSeq(@, 1, i - 1) \o SubSeq(@, i + 1, Len(@))]
       /\ start' = [start EXCEPT ![p] = b.start]
  /\ UNCHANGED <<state, copied, file, fds, nodes, shm, hung>>

(* Every shared mapping of the same descriptor number, of any process, is  *)
(* dropped from the directory that is current.                             *)
SharedRanges == UNION {UNION {Span(b) : b \in {c \in Blocks(q) : c.kind = "file" /\ c.listed}}
                       : q \in Procs}

(* sys_msync with MS_INVALIDATE.                                           *)
sys_msync(p, v) ==
  /\ state[p] = "live" /\ p \in file
  /\ InBlock(p, v) /\ get_mapping(p, v).kind = "file"
  /\ used' = used \ Freed(p, "file", SharedRanges)
  /\ pt' = [pt EXCEPT ![p] = Unmapped(p, SharedRanges)]
  /\ UNCHANGED <<state, copied, blocks, start, file, fds, nodes, shm, hung>>

(* __pf_handler and k_mem_mmap_handle_pagefault where the fault is served. *)
(* Otherwise the process gets SIGSEGV, which ends it: k_proc_process_exit. *)
handle_pagefault(p, v) ==
  /\ state[p] = "live" /\ p \in file
  /\ v >= MmapStart /\ ~Mapped(p, v)
  /\ InBlock(p, v) /\ get_mapping(p, v).kind = "file"
  /\ HasFree(1)
  /\ pt' = [pt EXCEPT ![p][v] = Lowest(1)[1]]
  /\ used' = used \cup {Lowest(1)[1]}
  /\ UNCHANGED <<state, copied, blocks, start, file, fds, nodes, shm, hung>>

(* k_proc_process_grow_heap by a page.                                     *)
grow_heap(p) ==
  LET v == Cardinality({w \in 0..(MmapStart - 1) : pt[p][w] # 0}) IN
  /\ state[p] = "live" /\ v < MmapStart /\ HasFree(1)
  /\ pt' = [pt EXCEPT ![p][v] = Lowest(1)[1]]
  /\ used' = used \cup {Lowest(1)[1]}
  /\ UNCHANGED <<state, copied, blocks, start, file, fds, nodes, shm, hung>>

(***************************************************************************)
(* The shared memory object                                                *)
(***************************************************************************)
(* Opened by name: a new node each time, and the object with the first.    *)
shm_open(p, n) ==
  /\ "shm" \in kinds /\ state[p] = "live"
  /\ nodes[n].links = 0 /\ \A m \in Nodes : m < n => nodes[m].links > 0
  /\ nodes' = [nodes EXCEPT ![n] = [links |-> 1, size |-> 0]]
  /\ fds' = [fds EXCEPT ![p] = @ \cup {n}]
  /\ shm' = [shm EXCEPT !.links = @ + 1]
  /\ UNCHANGED <<state, copied, used, pt, blocks, start, file, hung>>

(* The size compared is the node's own; the frames dropped are the first.  *)
shm_truncate(p, n, size) ==
  LET diff == size - nodes[n].size
      fresh == Lowest(diff) IN
  /\ state[p] = "live" /\ n \in fds[p] /\ diff # 0
  /\ nodes' = [nodes EXCEPT ![n].size = size]
  /\ \/ /\ diff > 0 /\ HasFree(diff) /\ Len(shm.frames) + diff <= MaxShm
        /\ shm' = [shm EXCEPT !.frames = @ \o fresh]
        /\ used' = used \cup Range(fresh)
     \/ /\ diff < 0
        /\ shm' = [shm EXCEPT !.frames = SubSeq(@, 1 - diff, Len(@))]
        /\ used' = used \ Range(SubSeq(shm.frames, 1, -diff))
  /\ UNCHANGED <<state, copied, pt, blocks, start, file, fds, hung>>

(* Nodes lose a link; the object goes with its last node, and its frames.  *)
Unlinked(ns) == {n \in ns : nodes[n].links = 1}
Removed(ns) == Unlinked(ns) # {} /\ shm.links = Cardinality(Unlinked(ns))
Closed(ns) ==
  /\ nodes' = [n \in Nodes |-> IF n \in Unlinked(ns) THEN NoNode
                               ELSE IF n \in ns THEN [nodes[n] EXCEPT !.links = @ - 1]
                               ELSE nodes[n]]
  /\ shm' = IF Removed(ns) THEN NoShm ELSE [shm EXCEPT !.links = @ - Cardinality(Unlinked(ns))]

shm_close(p, n) ==
  /\ state[p] = "live" /\ n \in fds[p]
  /\ Closed({n})
  /\ fds' = [fds EXCEPT ![p] = @ \ {n}]
  /\ used' = IF Removed({n}) THEN used \ Range(shm.frames) ELSE used
  /\ UNCHANGED <<state, copied, pt, blocks, start, file, hung>>

close_file(p) ==
  /\ "file" \in kinds /\ p \in file
  /\ file' = file \ {p}
  /\ UNCHANGED <<state, copied, used, pt, blocks, start, fds, nodes, shm, hung>>

(***************************************************************************)
(* fork, exec, exit, waitpid                                               *)
(***************************************************************************)
(* k_mem_paging_clone_page_directory: a new frame for every page that is   *)
(* present, from the lowest page up, also where the page is the object's.  *)
(* The child's mapping keeps its flag, so no unmapping frees such a copy.  *)
Cloned(p) ==
  LET fresh == Lowest(Cardinality(Present(p))) IN
  [v \in Pages |->
     IF v \in Present(p) THEN fresh[Cardinality({w \in Present(p) : w < v}) + 1] ELSE 0]

fork(p, q) ==
  LET copies == {Cloned(p)[v] : v \in Spans(p, "shm") \cap Present(p)} IN
  /\ state[p] = "live" /\ state[q] = "none"
  /\ HasFree(Cardinality(Present(p)))
  /\ state' = [state EXCEPT ![q] = "live"]
  /\ pt' = [pt EXCEPT ![q] = Cloned(p)]
  /\ used' = used \cup ({Cloned(p)[v] : v \in Present(p)} \ copies)
  /\ copied' = copied \cup copies
  /\ blocks' = [blocks EXCEPT ![q] =
       [i \in DOMAIN blocks[p] |-> [blocks[p][i] EXCEPT !.listed = FALSE]]]
  /\ start' = [start EXCEPT ![q] = start[p]]
  /\ file' = IF p \in file THEN file \cup {q} ELSE file
  /\ fds' = [fds EXCEPT ![q] = fds[p]]
  /\ nodes' = [n \in Nodes |-> IF n \in fds[p] THEN [nodes[n] EXCEPT !.links = @ + 1]
                               ELSE nodes[n]]
  /\ UNCHANGED <<shm, hung>>

(* All blocks are freed, the last of the list first: the pages they leave  *)
(* unmapped and the frames they give back.                                 *)
BlockPages(p) == UNION {Span(b) : b \in Blocks(p)}
GivenBack(p) ==
  UNION {Freed(p, blocks[p][Max(Around(p, v))].kind, {v}) : v \in BlockPages(p)}

(* k_mem_paging_release_directory: the pages still present when the blocks *)
(* are gone.                                                               *)
Released(p) == {pt[p][v] : v \in Present(p) \ BlockPages(p)}

(* k_util_exec_elf: the blocks and the old directory go, a new one comes.  *)
exec(p) ==
  LET kept == used \ (GivenBack(p) \cup Released(p))
      fresh == Ascending(Free(kept), 1) IN
  /\ state[p] = "live" /\ Free(kept) # {}
  /\ pt' = [pt EXCEPT ![p] = [Empty EXCEPT ![0] = fresh[1]]]
  /\ used' = kept \cup Range(fresh)
  /\ blocks' = [blocks EXCEPT ![p] = << >>]
  /\ start' = [start EXCEPT ![p] = MmapStart]
  /\ UNCHANGED <<state, copied, file, fds, nodes, shm, hung>>

(* k_proc_process_exit: the descriptors are closed, then the blocks freed. *)
exit(p) ==
  /\ state[p] = "live" /\ \E q \in Procs \ {p} : state[q] = "live"
  /\ state' = [state EXCEPT ![p] = "finished"]
  /\ Closed(fds[p])
  /\ fds' = [fds EXCEPT ![p] = {}]
  /\ file' = file \ {p}
  /\ used' = used \ (GivenBack(p) \cup IF Removed(fds[p]) THEN Range(shm.frames) ELSE {})
  /\ pt' = [pt EXCEPT ![p] = Unmapped(p, BlockPages(p))]
  /\ blocks' = [blocks EXCEPT ![p] = << >>]
  /\ UNCHANGED <<copied, start, hung>>

(* k_proc_process_destroy, when the process is waited for.                 *)
destroy(p) ==
  /\ state[p] = "finished"
  /\ state' = [state EXCEPT ![p] = "none"]
  /\ used' = used \ Released(p)
  /\ pt' = [pt EXCEPT ![p] = Empty]
  /\ UNCHANGED <<copied, blocks, start, file, fds, nodes, shm, hung>>

Next ==
  /\ hung = << >> /\ UNCHANGED kinds
  /\ \E p \in Procs :
       \/ \E kind \in kinds, len \in Lens \cup 1..MaxShm :
            sys_mmap(p, kind, len) \/ \E v \in FixedAt : sys_mmap_fixed(p, kind, v, len)
       \/ \E v \in Pages : sys_munmap(p, v) \/ sys_msync(p, v) \/ handle_pagefault(p, v)
       \/ \E n \in Nodes : shm_open(p, n) \/ shm_close(p, n)
                           \/ \E size \in 0..MaxShm : shm_truncate(p, n, size)
       \/ \E q \in Procs \ {p} : fork(p, q)
       \/ grow_heap(p) \/ close_file(p) \/ exec(p) \/ exit(p) \/ destroy(p)

Spec == Init /\ [][Next]_vars

(***************************************************************************)
(* Properties                                                              *)
(***************************************************************************)
(* What holds a frame: private pages and the shared object.                *)
Owners(f) ==
  Cardinality({pv \in Procs \X Pages : pt[pv[1]][pv[2]] = f /\ pv[2] \notin Spans(pv[1], "shm")})
    + Cardinality({i \in DOMAIN shm.frames : shm.frames[i] = f})

(* No frame has two owners, and none that has one is free: what a process  *)
(* writes to its own memory reaches no other process and no shared object, *)
(* after any order of mmap, munmap, fork, exec, exit, waitpid and shared   *)
(* memory calls (k_mem_mmap_free_block, k_mem_paging_clone_page_directory, *)
(* k_mem_paging_release_directory).                                        *)
OneOwner == \A f \in AllFrames : Owners(f) <= IF f \in used THEN 1 ELSE 0

(* No frame is lost but those that fork makes of the pages of a shared     *)
(* memory mapping: any other that is marked used has an owner that will    *)
(* give it back.                                                           *)
NoFrameLost == \A f \in used : Owners(f) > 0

(* Where mappings have their pages at once, no two of a process overlap.   *)
MappingsAreDisjoint ==
  \A p \in Procs : \A i, j \in DOMAIN blocks[p] :
    i # j => Span(blocks[p][i]) \cap Span(blocks[p][j]) = {}

(* The search of k_mem_mmap_allocate_block runs forever only on a hole     *)
(* between two mappings that is smaller than the request: a single page is *)
(* always found or refused.                                                *)
HangNeedsHole ==
  hung # << >> =>
    LET p == hung[1] IN
    \E lo, hi \in start[p]..Top :
      /\ Mapped(p, lo) /\ Mapped(p, hi)
      /\ hi - lo - 1 \in 1..(hung[2] - 1)
      /\ \A v \in (lo + 1)..(hi - 1) : ~Mapped(p, v)

(***************************************************************************)
(* The inductive invariant of the proofs                                   *)
(***************************************************************************)
Block == [kind : {"anon", "file", "shm"}, start : Nat, len : Nat \ {0}, listed : BOOLEAN]

TypeOK ==
  /\ kinds \in Uses
  /\ state \in [Procs -> {"none", "live", "finished"}]
  /\ used \subseteq AllFrames
  /\ pt \in [Procs -> [Pages -> 0..NFrames]]
  /\ blocks \in [Procs -> Seq(Block)]
  /\ start \in [Procs -> Nat]
  /\ fds \in [Procs -> SUBSET Nodes]
  /\ nodes \in [Nodes -> [links : Nat, size : 0..MaxShm]]
  /\ shm \in [frames : Seq(AllFrames), links : Nat]

(* Mappings lie between the heap and the stack.                            *)
MappingsFit ==
  \A p \in Procs :
    /\ MmapStart <= start[p]
    /\ \A i \in DOMAIN blocks[p] : LET b == blocks[p][i] IN
         b.kind \in kinds /\ MmapStart <= b.start /\ b.start + b.len < Top

(* A process that has ended has no mappings and no files, and its slot no  *)
(* pages.                                                                  *)
EndedIsClean ==
  \A p \in Procs : /\ state[p] # "live" => blocks[p] = << >> /\ fds[p] = {}
                   /\ state[p] = "none" => pt[p] = Empty

(* The heap has its pages from the lowest up, and at least one.            *)
HeapIsDense ==
  \A p \in Procs :
    /\ state[p] = "live" => pt[p][0] # 0
    /\ \A v \in 0..(MmapStart - 1) : \A w \in 0..v : pt[p][v] # 0 => pt[p][w] # 0

(* Unless files are mapped, the pages of a mapping are present.            *)
MappingsArePresent ==
  \A p \in Procs : \A i \in DOMAIN blocks[p] : \A v \in Span(blocks[p][i]) : pt[p][v] # 0

(* The frame that each page of a process holds, 0 for none.                *)
Held == [p \in Procs |-> [v \in Pages |-> IF v \in Spans(p, "shm") THEN 0 ELSE pt[p][v]]]

(* Pages that hold h and an object with the frames fr own the frames u.    *)
Own(h, fr, u) ==
  /\ \A p, q \in Procs, v, w \in Pages : h[p][v] # 0 /\ h[p][v] = h[q][w] => p = q /\ v = w
  /\ \A p \in Procs, v \in Pages : h[p][v] # 0 => h[p][v] \in u
  /\ \A p \in Procs, v \in Pages : \A i \in DOMAIN fr : fr[i] # h[p][v]
  /\ \A i \in DOMAIN fr : fr[i] \in u
  /\ \A i, j \in DOMAIN fr : fr[i] = fr[j] => i = j
  /\ \A f \in u : (\E p \in Procs, v \in Pages : h[p][v] = f) \/ (\E i \in DOMAIN fr : fr[i] = f)

(* The pages that nodes with these sizes think the object has.             *)
Sized(ns) == {nk \in Nodes \X (1..MaxShm) : nk[2] <= ns[nk[1]].size}

Openers(n) == {p \in Procs : n \in fds[p]}
Linked == {n \in Nodes : nodes[n].links > 0}

(* Links are counted exactly, and the object has a frame for every page of *)
(* every node: a truncation finds the frames it drops.                     *)
ShmIsCounted ==
  /\ \A n \in Nodes : nodes[n].links = Cardinality(Openers(n))
  /\ \A n \in Nodes : nodes[n].links = 0 => nodes[n].size = 0
  /\ shm.links = Cardinality(Linked)
  /\ Cardinality(Sized(nodes)) <= Len(shm.frames)

MemoryInv ==
  /\ TypeOK /\ MappingsFit /\ EndedIsClean /\ HeapIsDense
  /\ "file" \notin kinds => MappingsArePresent /\ MappingsAreDisjoint
  /\ Own(Held, shm.frames, used)
  /\ ShmIsCounted
=============================================================================
