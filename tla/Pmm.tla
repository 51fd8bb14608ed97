--------------------------------- MODULE Pmm --------------------------------
(***************************************************************************)
(* The physical memory manager (kernel/src/mem/pmm.c): a bitmap of free    *)
(* frames, grown while the memory map is read, and the index of a word     *)
(* below which no frame is free.  A frame is its number; words hold        *)
(* WordBits frames (32) and a frame holds FrameWords words (1024).         *)
(* `owned' is what callers hold: the frames k_mem_pmm_alloc_frames handed  *)
(* out and those k_mem_paging_map_region claimed with                      *)
(* k_mem_pmm_set_allocated.  Callers free only what they own.  A frame     *)
(* claimed outside the bitmap, where the code writes past its end, and the *)
(* statistics of the panic message are left out.                           *)
(* Look_NoReset, NextIndex_Next and FinishInit_Free are faulty variants.   *)
(***************************************************************************)
EXTENDS Integers, FiniteSets, FiniteSetsExt

CONSTANTS
  Frames,       \* the number of frames
  WordBits,
  FrameWords,
  BitmapFrame,  \* the first frame of the bitmap itself
  MaxRun,       \* the longest run a caller asks for
  Unset         \* 0xFFFFFFFF, the initial first_free_index

PmmAssumption ==
  /\ Frames \in Nat
  /\ WordBits \in Nat \ {0}
  /\ FrameWords \in Nat \ {0}
  /\ BitmapFrame \in Nat
  /\ MaxRun \in Nat
  /\ Unset \in Nat
  /\ \A f \in 0..(Frames - 1) : f \div WordBits \in 0..(Unset - 1)

VARIABLES
  bitmap,             \* the frames whose bit is set: the free ones
  bitmap_size,        \* in words
  first_free_index,
  init,               \* the memory map has been read
  panic,              \* the request on which the kernel panicked, or 0
  owned

vars == <<bitmap, bitmap_size, first_free_index, init, panic, owned>>

Frame == 0..(Frames - 1)
BITMAP_INDEX(f) == f \div WordBits
Run(f, n) == f..(f + n - 1)

Init ==
  /\ bitmap = {}
  /\ bitmap_size = 0
  /\ first_free_index = Unset
  /\ init = FALSE
  /\ panic = 0
  /\ owned = {}

is_allocated(f) == BITMAP_INDEX(f) < bitmap_size /\ f \notin bitmap

(* k_mem_pmm_free(frame, n).  The loop stops at the first frame that is    *)
(* already free, after the bitmap has grown to hold its bit (new words are *)
(* zero: allocated).                                                       *)
Freed(frame, n) == {f \in Run(frame, n) : Run(frame, f - frame + 1) \cap bitmap = {}}

Visited(frame, n) == {f \in Run(frame, n) : Run(frame, f - frame) \cap bitmap = {}}

Free(frame, n) ==
  /\ bitmap' = bitmap \cup Freed(frame, n)
  /\ bitmap_size' = Max({bitmap_size} \cup {BITMAP_INDEX(f) + 1 : f \in Visited(frame, n)})
  /\ first_free_index' = Min({first_free_index} \cup {BITMAP_INDEX(f) : f \in Freed(frame, n)})

(* k_mem_pmm_init: every usable frame from the bitmap on is marked free,   *)
(* in the order of the memory map, which may name a frame twice.           *)
mark_frame(f) ==
  /\ ~init
  /\ f >= BitmapFrame
  /\ Free(f, 1)
  /\ UNCHANGED <<init, panic, owned>>

BitmapFrames == {BitmapFrame + (w \div FrameWords) : w \in 0..bitmap_size}

FinishInit_Free ==
  /\ ~init
  /\ init' = TRUE
  /\ UNCHANGED <<bitmap, bitmap_size, first_free_index, panic, owned>>

(* The end of k_mem_pmm_init: the frames that hold the bitmap itself are   *)
(* taken, up to and including the one that holds the word after its end.   *)
FinishInit ==
  /\ ~init
  /\ init' = TRUE
  /\ bitmap' = bitmap \ BitmapFrames
  /\ UNCHANGED <<bitmap_size, first_free_index, panic, owned>>

Look_NoReset(s) ==
  [bit   |-> s.bit + 1,
   frame |-> IF s.bit \in bitmap /\ s.found = 0 THEN s.bit ELSE s.frame,
   found |-> IF s.bit \in bitmap THEN s.found + 1 ELSE s.found]

(* One round of the loop that looks for free frames: s has the bit that is *)
(* tested, frame and found_frames.  A frame in use starts the count again. *)
Look(s) ==
  [bit   |-> s.bit + 1,
   frame |-> IF s.bit \in bitmap /\ s.found = 0 THEN s.bit ELSE s.frame,
   found |-> IF s.bit \in bitmap THEN s.found + 1 ELSE 0]

(* The loop, for n frames, from the word of the hint to the last one.      *)
Start == [bit |-> first_free_index * WordBits, frame |-> 0, found |-> 0]
Bits == bitmap_size * WordBits

Searched(n) ==
  LET over(s)  == s.found >= n \/ s.bit >= Bits
      step     == [s \in [bit : Nat, frame : Nat, found : Nat] |->
                     IF over(s) THEN s ELSE Look(s)]
      round[k \in 0..Bits] == IF k = 0 THEN Start ELSE step[round[k - 1]]
  IN round[Bits]

Words(S) == {BITMAP_INDEX(f) : f \in S}

(* first_free_index moves on to the next word with a free frame; at the    *)
(* end the search starts again at word 0, and stops at bitmap_size.        *)
NextIndex_Next(free) == first_free_index + 1

NextIndex(free) ==
  LET ahead == {i \in Words(free) : i >= first_free_index}
  IN IF ahead # {} THEN Min(ahead)
     ELSE IF free # {} THEN Min(Words(free)) ELSE bitmap_size

alloc_frames(n) ==
  /\ init /\ panic = 0
  /\ first_free_index < bitmap_size
  /\ Searched(n).found >= n
  /\ LET frame == Searched(n).frame
         left  == bitmap \ Run(frame, n)
     IN /\ bitmap' = left
        /\ first_free_index' = NextIndex(left)
        /\ owned' = owned \cup Run(frame, n)
  /\ UNCHANGED <<bitmap_size, init, panic>>

(* k_panic: "Out of physical memory".                                      *)
OutOfMemory(n) ==
  /\ init /\ panic = 0
  /\ first_free_index >= bitmap_size \/ Searched(n).found < n
  /\ panic' = n
  /\ UNCHANGED <<bitmap, bitmap_size, first_free_index, init, owned>>

(* k_mem_paging_map_region of given frames claims the ones that are free.  *)
set_allocated(f) ==
  /\ init /\ panic = 0
  /\ BITMAP_INDEX(f) < bitmap_size
  /\ ~is_allocated(f)
  /\ bitmap' = bitmap \ {f}
  /\ owned' = owned \cup {f}
  /\ UNCHANGED <<bitmap_size, first_free_index, init, panic>>

Release(f, n) ==
  /\ init /\ panic = 0
  /\ Run(f, n) \subseteq owned
  /\ Free(f, n)
  /\ owned' = owned \ Run(f, n)
  /\ UNCHANGED <<init, panic>>

Next ==
  \/ \E f \in Frame : mark_frame(f)
  \/ FinishInit
  \/ \E n \in 1..MaxRun : alloc_frames(n) \/ OutOfMemory(n)
  \/ \E f \in Frame : set_allocated(f)
  \/ \E f \in Frame, n \in 1..MaxRun : Release(f, n)

Spec == Init /\ [][Next]_vars
----------------------------------------------------------------------------
TypeOK ==
  /\ bitmap \subseteq Frame
  /\ bitmap_size \in Nat
  /\ first_free_index \in Nat
  /\ init \in BOOLEAN
  /\ panic \in 0..MaxRun
  /\ owned \subseteq Frame

(* The hint is safe: whatever order allocations, frees and claims come in, *)
(* no frame below first_free_index is free and none beyond the bitmap is,  *)
(* so the search that starts there misses nothing.                         *)
HintIsSafe ==
  \A f \in bitmap : first_free_index <= BITMAP_INDEX(f) /\ BITMAP_INDEX(f) < bitmap_size

(* No frame is handed out twice: what a caller owns is not free, and       *)
(* nobody ever owns a frame of the bitmap itself.                          *)
OwnedOnce ==
  /\ owned \cap bitmap = {}
  /\ init => (owned \cup bitmap) \cap BitmapFrames = {}

(* The kernel panics for lack of memory only if no run of that many free   *)
(* frames exists anywhere.                                                 *)
PanicIsJustified ==
  panic > 0 => \A f \in Frame : ~(Run(f, panic) \subseteq bitmap)

(* An allocation hands out n consecutive frames that were free and that    *)
(* nobody owned: the search starts to count again at every frame in use.   *)
Fresh ==
  \A n \in 1..MaxRun :
    alloc_frames(n) =>
      \E f \in bitmap : Run(f, n) \subseteq bitmap /\ owned' \ owned = Run(f, n)

(* With what a step relies on besides: a caller owns frames of the bitmap  *)
(* only, so freeing them never makes it grow into frames in use.           *)
PmmInv ==
  /\ TypeOK
  /\ HintIsSafe
  /\ OwnedOnce
  /\ PanicIsJustified
  /\ \A f \in owned : BITMAP_INDEX(f) < bitmap_size
  /\ init \/ (owned = {} /\ panic = 0)
=============================================================================
