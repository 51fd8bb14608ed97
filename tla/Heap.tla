-------------------------------- MODULE Heap --------------------------------
(***************************************************************************)
(* The allocator behind k_malloc (libc/src/stdlib/alloc.c, built into the  *)
(* kernel with __LIBK, where it grows the heap in place; the user build    *)
(* gets its memory from mmap).  Blocks are linked through next in the      *)
(* order of their addresses; each is a header and size bytes.              *)
(*                                                                         *)
(* Addresses are offsets from HEAP_START, which is aligned to a page.      *)
(* Blocks are valid while HeapIsTiled holds, so walks visit the whole list.*)
(* A caller that asks for no bytes gets a block of size 0, which is not    *)
(* valid to __mem_heap_is_valid_block: it hides the blocks behind it, and  *)
(* the next growth of the heap unlinks them.  The model ends there.        *)
(* Callers free what they hold, once.  Contents are left out.              *)
(***************************************************************************)
EXTENDS Integers, Sequences, FiniteSetsExt

CONSTANTS
  Header,      \* sizeof(mem_block_t)
  Pointer,     \* sizeof(void*)
  Page,
  InitialSize, \* HEAP_INITIAL_SIZE
  HeapEnd,     \* HEAP_END - HEAP_START
  Sizes,       \* sizes that are asked for
  Alignments   \* alignments that are asked for

HeapAssumption ==
  /\ Header \in Nat \ {0} /\ Pointer \in Nat \ {0} /\ Page \in Nat \ {0}
  /\ Sizes \subseteq Nat \ {0} /\ Alignments \subseteq Nat \ {0}
  /\ InitialSize \in Nat /\ InitialSize > Header
  /\ HeapEnd \in Nat /\ HeapEnd >= InitialSize

VARIABLES
  blocks,     \* the list that starts at heap
  heap_size,
  panic,      \* why the kernel has stopped, "none", or "empty block" at the model's end
  held        \* what callers hold: the pointer, the size they asked for, the
              \* pointer malloc had returned, and the bytes valloc needs between

vars == <<blocks, heap_size, panic, held>>

Block(addr, size, free) == [addr |-> addr, size |-> size, free |-> free]
M_MEMORY(b) == b.addr + Header
End(b) == b.addr + Header + b.size

(* k_mem_heap_init.                                                        *)
Init ==
  /\ blocks = << Block(0, InitialSize - Header, TRUE) >>
  /\ heap_size = InitialSize
  /\ panic = "none"
  /\ held = {}
----------------------------------------------------------------------------
(* The first block of exactly the size, or with room for another block.    *)
Fitting(size) ==
  {i \in DOMAIN blocks : /\ blocks[i].free
                         /\ \/ blocks[i].size = size
                            \/ blocks[i].size >= size + Header + 1}

Pages(size) == (size + Header + 1) \div Page + 1

Growth(size) == IF Fitting(size) = {} THEN Pages(size) * Page ELSE 0

(* The list after __mem_grow_heap, if the heap had to grow.                *)
Grown(size) ==
  IF Fitting(size) # {} THEN blocks
  ELSE Append(blocks, Block(heap_size, Pages(size) * Page - Header, TRUE))

Chosen(size) == IF Fitting(size) # {} THEN Min(Fitting(size)) ELSE Len(blocks) + 1

(* The block for the caller and, if there is room for a header and a byte, *)
(* the rest of b.                                                          *)
__mem_split_block(b, size) ==
  IF b.size < size + Header + 1
  THEN << Block(b.addr, b.size, FALSE) >>
  ELSE << Block(b.addr, size, FALSE),
          Block(b.addr + Header + size, b.size - size - Header, TRUE) >>

(* The list after malloc(size), and what becomes of the kernel.            *)
Placed(size) ==
  LET B == Grown(size)
      i == Chosen(size)
  IN SubSeq(B, 1, i - 1) \o __mem_split_block(B[i], size) \o SubSeq(B, i + 1, Len(B))

Outcome(size) ==
  CASE heap_size + Growth(size) > HeapEnd        -> "out of memory"
    [] Grown(size)[Chosen(size)].size < size     -> "block split failed"
    [] \E b \in Range(Placed(size)) : b.size = 0 -> "zero-size block"
    [] OTHER                                     -> "none"

Returned(size) == M_MEMORY(Grown(size)[Chosen(size)])
----------------------------------------------------------------------------

(* One step of the walk of __mem_merge.  A block that has taken in its     *)
(* neighbour is left behind, so it does not take in the one after that.    *)
JoinNext(acc, b) ==
  LET n    == Len(acc.list)
      join == /\ ~acc.joined /\ n > 0 /\ acc.list[n].free /\ b.free
              /\ End(acc.list[n]) = b.addr
  IN [joined |-> join,
      list   |-> IF join THEN [acc.list EXCEPT ![n].size = @ + Header + b.size]
                 ELSE Append(acc.list, b)]

__mem_merge(B) ==
  LET walk[k \in 0..Len(B)] ==
        IF k = 0 THEN [joined |-> FALSE, list |-> << >>] ELSE JoinNext(walk[k - 1], B[k])
  IN  walk[Len(B)].list

SetFree(B, ptr) ==
  [i \in DOMAIN B |-> IF M_MEMORY(B[i]) = ptr THEN Block(B[i].addr, B[i].size, TRUE) ELSE B[i]]

Freed(B, ptr) == __mem_merge(SetFree(B, ptr))
----------------------------------------------------------------------------
Grant(at, size, base, hidden) == [at |-> at, size |-> size, base |-> base, hidden |-> hidden]

malloc(size) ==
  /\ panic = "none"
  /\ panic' = Outcome(size)
  /\ IF panic' = "none"
     THEN /\ blocks' = Placed(size)
          /\ heap_size' = heap_size + Growth(size)
          /\ held' = held \cup {Grant(Returned(size), size, Returned(size), 0)}
     ELSE UNCHANGED <<blocks, heap_size, held>>

(* malloc(0), as k_calloc calls it for a process that forks and has never  *)
(* opened a file: there is a block of size 0 now.                          *)
malloc_empty ==
  /\ panic = "none"
  /\ panic' = "empty block"
  /\ UNCHANGED <<blocks, heap_size, held>>

free(h) ==
  /\ panic = "none"
  /\ h.hidden = 0
  /\ blocks' = Freed(blocks, h.base)
  /\ held' = held \ {h}
  /\ UNCHANGED <<heap_size, panic>>

(* Unless the block has the size already, the contents move to a new one.  *)
realloc(h, size) ==
  /\ panic = "none"
  /\ h.hidden = 0
  /\ IF \E b \in Range(blocks) : M_MEMORY(b) = h.base /\ b.size = size
     THEN /\ held' = (held \ {h}) \cup {Grant(h.at, size, h.base, 0)}
          /\ UNCHANGED <<blocks, heap_size, panic>>
     ELSE /\ panic' = Outcome(size)
          /\ IF panic' = "none"
             THEN /\ blocks' = Freed(Placed(size), h.base)
                  /\ heap_size' = heap_size + Growth(size)
                  /\ held' = (held \ {h}) \cup {Grant(Returned(size), size, Returned(size), 0)}
             ELSE UNCHANGED <<blocks, heap_size, held>>

Slack(alignment) == alignment - 1 + Pointer

(* p2 = (p1 + offset) & ~(alignment - 1); p2[-1] = p1.                     *)
AlignDown(addr, alignment) == addr - (addr % alignment)

valloc(size, alignment) ==
  LET all == size + Slack(alignment)
      p1  == Returned(all)
  IN /\ panic = "none"
     /\ panic' = Outcome(all)
     /\ IF panic' = "none"
        THEN /\ blocks' = Placed(all)
             /\ heap_size' = heap_size + Growth(all)
             /\ held' = held \cup {Grant(AlignDown(p1 + Slack(alignment), alignment), size, p1,
                                        Pointer)}
        ELSE UNCHANGED <<blocks, heap_size, held>>

vfree(h) ==
  /\ panic = "none"
  /\ h.hidden # 0
  /\ blocks' = Freed(blocks, h.base)
  /\ held' = held \ {h}
  /\ UNCHANGED <<heap_size, panic>>

Next ==
  \/ \E size \in Sizes : malloc(size)
  \/ malloc_empty
  \/ \E h \in held : free(h)
  \/ \E h \in held, size \in Sizes : realloc(h, size)
  \/ \E size \in Sizes, alignment \in Alignments : valloc(size, alignment)
  \/ \E h \in held : vfree(h)

Spec == Init /\ [][Next]_vars
----------------------------------------------------------------------------
(* The list is the heap: its blocks, in the order of the list, cover the   *)
(* heap from its start to its end without gap or overlap, and none is      *)
(* empty, so every walk of the list sees all of them.                      *)
HeapIsTiled ==
  /\ blocks # << >> /\ blocks[1].addr = 0
  /\ \A i \in 2..Len(blocks) : blocks[i].addr = End(blocks[i - 1])
  /\ End(blocks[Len(blocks)]) = heap_size
  /\ \A b \in Range(blocks) : b.size > 0

(* Callers never share memory, and none is lost: the blocks in use are     *)
(* exactly those callers hold, one for each, and what a caller asked for   *)
(* lies inside his block; so does the pointer valloc hides before it.      *)
HeldIsUsed ==
  /\ Cardinality(held) = Cardinality({i \in DOMAIN blocks : ~blocks[i].free})
  /\ \A h \in held : \E b \in Range(blocks) :
       /\ ~b.free
       /\ M_MEMORY(b) = h.base
       /\ h.at + h.size <= End(b)
       /\ h.at - h.hidden >= h.base

(* __mem_merge joins neighbours in pairs only, yet free memory does not    *)
(* crumble: there are never three free blocks in a row, and never two      *)
(* places where two meet.                                                  *)
FreePairs == {i \in 2..Len(blocks) : blocks[i - 1].free /\ blocks[i].free}
FreeMemoryIsMerged == Cardinality(FreePairs) <= 1

(* The panics of the allocator about its own state are never reached: a    *)
(* block that was found or made is large enough to be split, and what is   *)
(* left of it is not empty, unless a caller asks for no bytes.             *)
NoInternalPanic == panic \in {"none", "out of memory", "empty block"}
----------------------------------------------------------------------------
(* The inductive invariant: the properties, told of a list, of what is     *)
(* used in it and of who holds that, so that they carry over the lists in  *)
(* between, before and after the merge.                                    *)
Blocks == [addr : Nat, size : Nat, free : BOOLEAN]
Grants == [at : Nat, size : Nat, base : Nat, hidden : Nat]

Tiles(B, end) ==
  /\ B \in Seq(Blocks) /\ Len(B) > 0 /\ B[1].addr = 0
  /\ \A i \in 2..Len(B) : B[i].addr = End(B[i - 1])
  /\ End(B[Len(B)]) = end
  /\ \A i \in 1..Len(B) : B[i].size > 0

Used(B) == {b \in Range(B) : ~b.free}

Meet(B, i) == B[i - 1].free /\ B[i].free
MeetOnce(B) == \A i, j \in 2..Len(B) : Meet(B, i) /\ Meet(B, j) => i = j

(* Each grant is within a used block, and each used block is one's own.    *)
HoldersFit(G, U) ==
  /\ G \subseteq Grants
  /\ \A h \in G : \E u \in U : /\ M_MEMORY(u) = h.base
                              /\ h.at + h.size <= End(u) /\ h.at - h.hidden >= h.base
  /\ \A u \in U : \E h \in G : h.base = M_MEMORY(u)
  /\ \A h, g \in G : h.base = g.base => h = g
  /\ \A h \in G : h.hidden = 0 => h.at = h.base

HeapInv ==
  /\ heap_size \in Nat /\ Tiles(blocks, heap_size) /\ MeetOnce(blocks)
  /\ HoldersFit(held, Used(blocks)) /\ NoInternalPanic
=============================================================================
