-------------------------------- MODULE Ext2 --------------------------------
(***************************************************************************)
(* Reading files from an ext2 file system (modules/ext2/main.c): inode and *)
(* block caches, the readahead buffer that all readers share, and the way  *)
(* from an offset through the inode's pointers to a block.                 *)
(*                                                                         *)
(* A reader gives up the CPU only while the disk reads (modules/ata), and  *)
(* a read of several Chunks does so once for each.  The disk does not fail *)
(* here (its faults are in Ata).  Nothing writes to the                    *)
(* disk, so the content of block b is the number b; byte j of it is        *)
(* b * BlockSize + j.                                                      *)
(***************************************************************************)
EXTENDS Integers, Sequences, SequencesExt, FiniteSets, Lists

CONSTANTS Procs, None,
          BlockSize,        \* BLOCK_SIZE
          Direct,           \* DIRECT_BLOCK_CAPACITY, 12
          Single,           \* SINGLE_INDIRECT_BLOCK_CAPACITY
          TotalBlocks,      \* superblock->total_blocks, and the device's end
          InodesPerGroup,
          InodesPerBlock,   \* BlockSize / inode_size
          InodeTable,       \* inode_table of each group (from 0)
          Inode,            \* the inodes: size, ptr (direct), s, d, t
          Pointers,         \* Pointers[b]: the contents of pointer block b
          Junk,             \* the words that memory which is no pointer block holds
          CacheBlocks,      \* BLOCKS_PER_CACHE
          CacheInodes,      \* INODES_PER_CACHE
          MaxReadahead,     \* MAX_READAHEAD in blocks
          Chunk,            \* blocks of one device transfer
          Offsets, Sizes,   \* of reads, in bytes
          MaxReads          \* bound: reads in all

Ext2Assumption ==
  /\ None \notin Procs /\ BlockSize > 0 /\ Direct < Single /\ Chunk > 0 /\ MaxReads \in Nat
  /\ Junk \subseteq Nat /\ CacheBlocks > 0 /\ CacheInodes > 0 /\ MaxReadahead > 0

VARIABLES
  block_cache,       \* fs->block_cache: [num, data], the last used first
  inode_cache,       \* fs->inode_cache, likewise
  readahead_buffer,  \* fs->readahead_buffer, a sequence of blocks
  pc,                \* what the block read next is for: "idle", "inode", "pointer" or "data"
  rd,                \* rd[p]: the read of p
  dev,               \* dev[p]: the device read p sleeps in, or None
  cpu,               \* the process that runs on without a sleep, or None
  reads,
  torn               \* history: a reader copied to readahead_buffer between
                     \* two chunks of another

vars == <<block_cache, inode_cache, readahead_buffer, pc, rd, dev, cpu, reads, torn>>

Idle == [ino |-> 0]

Init ==
  /\ block_cache = << >> /\ inode_cache = << >>
  /\ readahead_buffer = [i \in 1..MaxReadahead |-> 0]
  /\ pc = [p \in Procs |-> "idle"] /\ rd = [p \in Procs |-> Idle]
  /\ dev = [p \in Procs |-> None] /\ cpu = None /\ reads = 0 /\ torn = FALSE

(***************************************************************************)
(* The caches                                                              *)
(***************************************************************************)
Nums(cache) == {cache[i].num : i \in DOMAIN cache}
Hit(cache, n) == cache[CHOOSE i \in DOMAIN cache : cache[i].num = n /\ \A j \in 1..i-1 : cache[j].num # n]

(* __ext2_try_get_cached_block, __ext2_try_get_cached_inode                *)
Used(cache, n) == list_push_front(list_delete_element(cache, Hit(cache, n)), Hit(cache, n))

(* __ext2_cache_block, __ext2_cache_inode                                  *)
Cached(cache, n, data, max) ==
  LET c == list_push_front(cache, [num |-> n, data |-> data])
  IN IF Len(c) > max THEN SubSeq(c, 1, Len(c) - 1) ELSE c

(***************************************************************************)
(* Where things are                                                        *)
(***************************************************************************)
Group(ino) == (ino - 1) \div InodesPerGroup
Index(ino) == (ino - 1) % InodesPerGroup
InodeBlock(ino) == InodeTable[Group(ino)] + Index(ino) \div InodesPerBlock
Inner(ino) == Index(ino) - (Index(ino) \div InodesPerBlock) * InodesPerBlock

(* The inode that a table block holds in a place.                          *)
InodeAt(b, inner) ==
  LET g == CHOOSE h \in DOMAIN InodeTable :
             b \in InodeTable[h] .. InodeTable[h] + (InodesPerGroup - 1) \div InodesPerBlock
  IN g * InodesPerGroup + (b - InodeTable[g]) * InodesPerBlock + inner + 1

SingleIndex(off) == off - Direct
DoubleIndex(off) == <<(off - Single) \div Single, SingleIndex((off - Single) % Single)>>
TripleIndex(off) ==
  LET n == Single * Single IN <<(off - n) \div n>> \o DoubleIndex((off - n) % n)

(* __ext2_block_from_offset: the pointer to begin with and the indices to  *)
(* follow.  The capacities do not count the direct blocks.                 *)
Way(inode, off) ==
  IF off < Direct THEN [at |-> inode.ptr[off + 1], by |-> << >>]
  ELSE IF off < Single /\ inode.s # 0 THEN [at |-> inode.s, by |-> <<SingleIndex(off)>>]
  ELSE IF off < Single * Single /\ inode.d # 0 THEN [at |-> inode.d, by |-> DoubleIndex(off)]
  ELSE IF off < Single * Single * Single /\ inode.t # 0
  THEN [at |-> inode.t, by |-> TripleIndex(off)]
  ELSE [at |-> 0, by |-> << >>]

(* A word of a pointer block; of another block, or outside it, any word.   *)
Follow(b, i) == IF b \in DOMAIN Pointers /\ i \in 0..Single-1 THEN {Pointers[b][i + 1]} ELSE Junk

(***************************************************************************)
(* Reading                                                                 *)
(***************************************************************************)
(* __ext2_read, to the first block it needs.                               *)
read(p, ino, offset, size) ==
  /\ cpu = None /\ pc[p] = "idle" /\ reads < MaxReads
  /\ reads' = reads + 1
  /\ rd' = [rd EXCEPT ![p] = [ino |-> ino, inode |-> 0, offset |-> offset, size |-> size, left |-> size,
                              block |-> offset \div BlockSize, part |-> offset % BlockSize,
                              way |-> [at |-> 0, by |-> << >>], got |-> << >>]]
  /\ pc' = [pc EXCEPT ![p] = "inode"] /\ cpu' = p
  /\ UNCHANGED <<block_cache, inode_cache, readahead_buffer, dev, torn>>

(* A found inode: __ext2_read_inode_contents begins, or returns 0.         *)
WithInode(p, i) ==
  LET f == Inode[i]
      r == rd[p]
      size == IF r.offset + r.size >= f.size THEN f.size - r.offset ELSE r.size IN
  IF r.offset >= f.size
    THEN rd' = [rd EXCEPT ![p].inode = i] /\ pc' = [pc EXCEPT ![p] = "idle"] /\ cpu' = None
    ELSE /\ rd' = [rd EXCEPT ![p] = [r EXCEPT !.inode = i, !.left = size, !.way = Way(f, r.block)]]
         /\ pc' = [pc EXCEPT ![p] = "pointer"] /\ cpu' = p

CachedInode(p) ==
  /\ cpu = p /\ pc[p] = "inode" /\ rd[p].ino \in Nums(inode_cache)
  /\ inode_cache' = Used(inode_cache, rd[p].ino)
  /\ WithInode(p, Hit(inode_cache, rd[p].ino).data)
  /\ UNCHANGED <<block_cache, readahead_buffer, dev, reads, torn>>

(* The end of the way: the block is known, or the file has a hole there.   *)
Arrive(p) ==
  /\ cpu = p /\ pc[p] = "pointer"
  /\ rd[p].way.by = << >> \/ rd[p].way.at = 0
  /\ IF rd[p].way.at = 0 THEN pc' = [pc EXCEPT ![p] = "idle"] /\ cpu' = None
                         ELSE pc' = [pc EXCEPT ![p] = "data"] /\ UNCHANGED cpu
  /\ UNCHANGED <<block_cache, inode_cache, readahead_buffer, rd, dev, reads, torn>>

(* The block that p needs, and how many it reads ahead from there.         *)
Wanted(p) == IF pc[p] = "inode" THEN InodeBlock(rd[p].ino) ELSE rd[p].way.at
Needs(p) == \/ pc[p] = "inode" /\ rd[p].ino \notin Nums(inode_cache)
            \/ pc[p] = "pointer" /\ rd[p].way.by # << >> /\ rd[p].way.at # 0
            \/ pc[p] = "data"
Ahead(p) ==
  IF pc[p] # "data" THEN 0
  ELSE LET n == Inode[rd[p].inode].size \div BlockSize - rd[p].block + 1
       IN IF n > MaxReadahead THEN MaxReadahead ELSE n

Taken(p, data) ==
  LET r == rd[p]
      room == BlockSize - r.part
      n == IF r.left <= room THEN r.left ELSE room IN
  [r EXCEPT !.got = @ \o [j \in 1..n |-> data * BlockSize + r.part + j - 1], !.left = @ - n,
            !.part = 0, !.block = @ + 1,
            !.way = IF r.left <= room THEN @ ELSE Way(Inode[r.inode], r.block + 1)]

(* What a reader does with the block it asked for.                         *)
Deliver(p, data) ==
  CASE pc[p] = "inode" ->
         LET i == InodeAt(data, Inner(rd[p].ino)) IN
         inode_cache' = Cached(inode_cache, rd[p].ino, i, CacheInodes) /\ WithInode(p, i)
    [] pc[p] = "pointer" ->
         /\ \E b \in Follow(data, rd[p].way.by[1]) :
              rd' = [rd EXCEPT ![p].way = [at |-> b, by |-> Tail(@.by)]]
         /\ cpu' = p /\ UNCHANGED <<pc, inode_cache>>
    [] pc[p] = "data" ->
         LET r == Taken(p, data) IN
         /\ rd' = [rd EXCEPT ![p] = r]
         /\ pc' = [pc EXCEPT ![p] = IF r.left = 0 THEN "idle" ELSE "pointer"]
         /\ cpu' = IF r.left = 0 THEN None ELSE p
         /\ UNCHANGED inode_cache

(* __ext2_read_block with a number beyond the disk's: nothing is read, and *)
(* the caller goes on with what its buffer holds, the block before or what *)
(* the heap had there.                                                     *)
InvalidBlock(p) ==
  LET got == rd[p].got IN
  /\ cpu = p /\ Needs(p) /\ pc[p] # "inode" /\ Wanted(p) > TotalBlocks
  /\ Deliver(p, IF pc[p] = "data" /\ got # << >> THEN Last(got) \div BlockSize ELSE TotalBlocks + 1)
  /\ UNCHANGED <<block_cache, readahead_buffer, dev, reads, torn>>

(* The block is in the cache.                                              *)
CachedBlock(p) ==
  /\ cpu = p /\ dev[p] = None /\ Needs(p) /\ Wanted(p) \in Nums(block_cache)
  /\ block_cache' = Used(block_cache, Wanted(p))
  /\ Deliver(p, Hit(block_cache, Wanted(p)).data)
  /\ UNCHANGED <<readahead_buffer, dev, reads, torn>>

(* It is not: the device reads it, and what comes after it on the disk.    *)
Ask(p) ==
  LET n == IF Ahead(p) = 0 THEN 1 ELSE Ahead(p) IN
  /\ cpu = p /\ dev[p] = None /\ Needs(p)
  /\ Wanted(p) <= TotalBlocks /\ Wanted(p) \notin Nums(block_cache)
  /\ dev' = [dev EXCEPT ![p] = [start |-> Wanted(p), ahead |-> Ahead(p) > 0, done |-> 0,
                                count |-> IF n > TotalBlocks + 1 - Wanted(p) THEN TotalBlocks + 1 - Wanted(p)
                                          ELSE n]]
  /\ cpu' = None
  /\ UNCHANGED <<block_cache, inode_cache, readahead_buffer, pc, rd, reads, torn>>

(* The number under which block i of a device read is cached.              *)
Number(d, i) == d.start + i - 1

(* p copies to the buffer between two chunks of another reader.            *)
Meets(p) == dev[p].ahead /\ \E q \in Procs \ {p} : dev[q] # None /\ dev[q].ahead /\ dev[q].done > 0

(* A chunk has been read; after the last one all blocks are cached.        *)
Arrived(p) ==
  LET d == dev[p]
      to == IF d.done + Chunk > d.count THEN d.count ELSE d.done + Chunk
      buf == [i \in 1..MaxReadahead |-> IF d.ahead /\ i \in d.done+1..to THEN d.start + i - 1
                                        ELSE readahead_buffer[i]]
      Put[i \in 0..d.count] ==
        IF i = 0 THEN block_cache
        ELSE Cached(Put[i - 1], Number(d, i), IF d.ahead THEN buf[i] ELSE d.start + i - 1, CacheBlocks) IN
  /\ cpu = None /\ d # None
  /\ readahead_buffer' = buf
  /\ torn' = (torn \/ Meets(p))
  /\ IF to < d.count
       THEN dev' = [dev EXCEPT ![p].done = to] /\ UNCHANGED <<block_cache, inode_cache, pc, rd, cpu>>
       ELSE /\ dev' = [dev EXCEPT ![p] = None]
            /\ block_cache' = Put[d.count]
            /\ Deliver(p, IF d.ahead THEN buf[1] ELSE d.start)
  /\ UNCHANGED reads

Step(p) == CachedInode(p) \/ Arrive(p) \/ InvalidBlock(p) \/ CachedBlock(p) \/ Ask(p) \/ Arrived(p)

(* Once readaheads met the caches may hold anything: the model ends there. *)
Next ==
  /\ ~torn
  /\ \/ \E p \in Procs : Step(p)
     \/ \E p \in Procs, ino \in DOMAIN Inode, o \in Offsets, s \in Sizes : read(p, ino, o, s)

Spec == Init /\ [][Next]_vars

(***************************************************************************)
(* Properties                                                              *)
(***************************************************************************)
(* The block of a file as ext2 lays it out, while it has no double         *)
(* indirect blocks.                                                        *)
BlockOf(inode, off) == IF off < Direct THEN inode.ptr[off + 1] ELSE Pointers[inode.s][off - Direct + 1]

(* A finished read returned the bytes of the file, to the end of the file  *)
(* or to block Single of it (from there on __ext2_block_from_offset looks  *)
(* for blocks in the wrong place), unless two long readaheads met.         *)
ReadIsExact ==
  \A p \in Procs : pc[p] = "idle" /\ rd[p].ino # 0 /\ ~torn =>
    LET r == rd[p]
        f == Inode[r.ino]
        Least(S) == CHOOSE x \in S : \A y \in S : x <= y
        end == Least({r.offset + r.size, f.size, Single * BlockSize})
        n == IF end > r.offset THEN end - r.offset ELSE 0 IN
    /\ Len(r.got) >= n
    /\ \A j \in 1..n : LET k == r.offset + j - 1 IN
                         r.got[j] = BlockOf(f, k \div BlockSize) * BlockSize + (k % BlockSize)

(* A cached block has the contents of the block on the disk, and a cached  *)
(* inode is the one of its number, unless two long readaheads met.         *)
CachesAreTrue ==
  ~torn => /\ \A i \in DOMAIN block_cache : block_cache[i].data = block_cache[i].num
           /\ \A i \in DOMAIN inode_cache : inode_cache[i].data = inode_cache[i].num
=============================================================================
