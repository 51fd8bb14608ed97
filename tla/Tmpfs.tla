------------------------------- MODULE Tmpfs --------------------------------
(***************************************************************************)
(* A file of the memory file system (kernel/src/fs/tmpfs.c) and the nodes  *)
(* through which processes have it open.  Its blocks lie one after the     *)
(* other in an address space of its own, from BASE on, so memory is one    *)
(* function of addresses; blocks[i] of the code is the address             *)
(* i * BLOCK for i < blocks_amount, and an arbitrary word beyond.  A call  *)
(* does not sleep: it is one step.  Where the code writes past its array,  *)
(* follows a word that is no pointer or uses a freed node, the model ends. *)
(***************************************************************************)
EXTENDS Integers, Sequences, SequencesExt, FiniteSets

CONSTANTS BLOCK,      \* TMPFS_BLOCK_SIZE
          Word,       \* sizeof(uint32_t): blocks[i][k] is Word * k bytes on
          Handles,    \* open nodes
          Offsets, Sizes,
          MaxOps      \* bound: calls

TmpfsAssumption == BLOCK > 0 /\ Word > 0 /\ MaxOps \in Nat

VARIABLES
  live,          \* the file exists (it is in its directory's children)
  size, blocks_amount, block_array_size,   \* of its tmpfs_node_t
  mem,           \* the bytes of its blocks, from 1
  node,          \* node[h]: the fs_node_t of h: the file's generation and the size
  gen,           \* how often the file has been created
  switched,      \* the page directory of the file is the current one
  halted,        \* "no", "heap", "wild", "null" or "freed": what the code went wrong with
  content,       \* history: the file as it should be
  result, expected,
  skewed,        \* history: an offset inside a block was used
  calls

vars == <<live, size, blocks_amount, block_array_size, mem, node, gen, switched, halted,
          content, result, expected, skewed, calls>>
blockVars == <<blocks_amount, block_array_size, mem>>

Closed == [gen |-> 0, size |-> 0]

Init ==
  /\ live = FALSE /\ size = 0 /\ blocks_amount = 0 /\ block_array_size = 0 /\ mem = << >>
  /\ node = [h \in Handles |-> Closed] /\ gen = 0
  /\ switched = FALSE /\ halted = "no" /\ content = << >>
  /\ result = << >> /\ expected = << >> /\ skewed = FALSE /\ calls = 0

Call == halted = "no" /\ ~switched /\ calls < MaxOps /\ calls' = calls + 1

(* __k_fs_tmpfs_create, __k_fs_tmpfs_create_node                           *)
create(h) ==
  /\ Call /\ ~live /\ node[h] = Closed
  /\ live' = TRUE /\ gen' = gen + 1
  /\ size' = 0 /\ blocks_amount' = 0 /\ block_array_size' = 0 /\ mem' = << >> /\ content' = << >>
  /\ node' = [node EXCEPT ![h] = [gen |-> gen', size |-> 0]]
  /\ UNCHANGED <<switched, halted, result, expected, skewed>>

(* __k_fs_tmpfs_to_fs_node: a node has the size of the moment.             *)
NodeSize == size

(* __k_fs_tmpfs_finddir                                                    *)
finddir(h) ==
  /\ Call /\ live /\ node[h] = Closed
  /\ node' = [node EXCEPT ![h] = [gen |-> gen, size |-> NodeSize]]
  /\ UNCHANGED <<live, size, blockVars, gen, switched, halted, content, result, expected, skewed>>

close(h) ==
  /\ Call /\ node[h] # Closed
  /\ node' = [node EXCEPT ![h] = Closed]
  /\ UNCHANGED <<live, size, blockVars, gen, switched, halted, content, result, expected, skewed>>

(* __k_fs_tmpfs_rm, whoever else has the file open.                        *)
rm(h) ==
  /\ Call /\ node[h] # Closed
  /\ IF node[h].gen = gen /\ live THEN live' = FALSE /\ UNCHANGED halted
                                  ELSE halted' = "freed" /\ UNCHANGED live
  /\ node' = [node EXCEPT ![h] = Closed]
  /\ UNCHANGED <<size, blockVars, gen, switched, content, result, expected, skewed>>

Usable(h) == node[h].gen = gen /\ live

(***************************************************************************)
(* Data                                                                    *)
(***************************************************************************)

(* The array doubles if the new blocks fit already.                        *)
Grown(amount, array, n) == IF amount + n <= array THEN 2 * array ELSE array

(* __k_fs_tmpfs_allocate_blocks, from first to last.                       *)
Array(n) == Grown(blocks_amount, IF block_array_size = 0 THEN 1 ELSE block_array_size, n)

(* required_blocks: the blocks before the offset are not among them.       *)
Required(offset, n) ==
  LET part == offset % BLOCK
      rest == IF part <= n % BLOCK THEN (n % BLOCK) - part ELSE 0
  IN n \div BLOCK + (IF part > 0 THEN 1 ELSE 0) + (IF rest > 0 THEN 1 ELSE 0)

(* &blocks[i][k]                                                           *)
Address(i, k) == i * BLOCK + Word * k

(* What the three copies of __k_fs_tmpfs_write move: <<block, index in it, *)
(* first byte, bytes>>.  The last may begin past the end of the buffer.    *)
Copies(offset, n) ==
  LET b == offset \div BLOCK
      part == offset % BLOCK
      ahead == IF part > 0 THEN 1 ELSE 0
      first == IF part = 0 THEN 0 ELSE IF BLOCK - part > n THEN n ELSE BLOCK - part
      full == n \div BLOCK
      rest == IF part <= n % BLOCK THEN (n % BLOCK) - part ELSE 0
  IN (IF part > 0 THEN {<<b, part, 0, first>>} ELSE {})
     \cup {<<b + ahead + i, 0, first + i * BLOCK, BLOCK>> : i \in 0..full-1}
     \cup (IF rest > 0 THEN {<<b + ahead + full, 0, first + full * BLOCK, rest>>} ELSE {})

Put(f, off, bytes) ==
  [i \in 1..(IF off + Len(bytes) > Len(f) THEN off + Len(bytes) ELSE Len(f)) |->
     IF i \in off+1..off+Len(bytes) THEN bytes[i - off] ELSE IF i <= Len(f) THEN f[i] ELSE 0]

Junk == -1     \* a byte of the heap behind the buffer
Written(m, cs, bytes) ==
  [a \in 1..Len(m) |->
     LET In(c) == a \in Address(c[1], c[2]) + 1 .. Address(c[1], c[2]) + c[4]
         hits == {c \in cs : In(c)}
     IN IF hits = {} THEN m[a]
        ELSE LET c == CHOOSE x \in hits : \A y \in hits : x[3] >= y[3]
                 k == c[3] + a - Address(c[1], c[2])
             IN IF k <= Len(bytes) THEN bytes[k] ELSE Junk]

(* __k_fs_tmpfs_write.  Byte i of the call is calls * 100 + i.             *)
write(h, offset, n) ==
  LET required == Required(offset, n)
      more == IF blocks_amount < required THEN required - blocks_amount ELSE 0
      array == IF more > 0 THEN Array(more) ELSE block_array_size
      amount == blocks_amount + more
      bytes == [i \in 1..n |-> calls * 100 + i]
      cs == Copies(offset, n)
      m == mem \o [i \in 1..more * BLOCK |-> 0]
      wild == \E c \in cs : c[1] >= amount \/ Address(c[1], c[2]) + c[4] > Len(m)
      bad == IF ~Usable(h) THEN "freed" ELSE IF amount > array THEN "heap" ELSE IF wild THEN "wild" ELSE "no" IN
  /\ Call /\ node[h] # Closed
  /\ halted' = bad
  /\ skewed' = (skewed \/ offset % BLOCK > 0)
  /\ IF bad # "no" THEN UNCHANGED <<blockVars, size, content>>
     ELSE /\ blocks_amount' = amount /\ block_array_size' = array
          /\ mem' = Written(m, cs, bytes)
          /\ size' = IF offset + n > size THEN offset + n ELSE size
          /\ content' = Put(content, offset, bytes)
  /\ UNCHANGED <<live, node, gen, switched, result, expected>>

(* __k_fs_tmpfs_read.  blocks[blocks_amount] is looked at when the read    *)
(* ends with a block: it may be 0, and then the call returns before it has *)
(* copied anything and without switching back the page directory.  A file  *)
(* that was never written to has no array: blocks is a null pointer.       *)
read(h, offset, asked) ==
  LET n == IF asked + offset > node[h].size THEN node[h].size - offset ELSE asked
      full == n \div BLOCK
      b == offset \div BLOCK
      part == offset % BLOCK
      At(i) == Address(b + i, IF i = 0 THEN part ELSE 0)
      Bytes(i) == IF i < full THEN BLOCK ELSE n % BLOCK
      used == {i \in 0..full : Bytes(i) > 0}
      wild == \E i \in used : b + i >= blocks_amount \/ At(i) + Bytes(i) > Len(mem)
      bad == IF ~Usable(h) THEN "freed" ELSE IF block_array_size = 0 THEN "null"
             ELSE IF wild THEN "wild" ELSE "no"
      data == [k \in 1..n |-> mem[At((k - 1) \div BLOCK) + ((k - 1) % BLOCK) + 1]] IN
  /\ Call /\ node[h] # Closed /\ node[h].size >= offset
  /\ halted' = bad
  /\ skewed' = (skewed \/ part > 0)
  /\ IF bad # "no" THEN UNCHANGED <<switched, result, expected>>
     ELSE /\ switched' \in IF b + full < blocks_amount THEN {FALSE} ELSE BOOLEAN
          /\ IF switched' THEN UNCHANGED <<result, expected>>
             ELSE result' = data /\ expected' = SubSeq(content, offset + 1, offset + n)
  /\ UNCHANGED <<live, size, blockVars, node, gen, content>>

Next ==
  \E h \in Handles :
    \/ create(h) \/ finddir(h) \/ close(h) \/ rm(h)
    \/ \E o \in Offsets, n \in Sizes : write(h, o, n) \/ read(h, o, n)

Spec == Init /\ [][Next]_vars

(* A read returns what was written, as far as the node knows the file, if  *)
(* all offsets were multiples of the block size.                           *)
ReadsWhatWasWritten == skewed \/ result = expected

(* A write from the beginning that needs at most one block more than the   *)
(* file has stays inside the array and the blocks, and so does every read  *)
(* of whole blocks once something was written; all on a file that has not  *)
(* been removed.                                                           *)
AlignedIsSafe ==
  \A h \in Handles, n \in Sizes : Usable(h) =>
    /\ write(h, 0, n) /\ n <= (blocks_amount + 1) * BLOCK => halted' = "no"
    /\ \A o \in Offsets : read(h, o, n) /\ ~skewed' /\ block_array_size # 0 => halted' = "no"
=============================================================================
