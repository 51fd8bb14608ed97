------------------------------ MODULE Ext2Dir -------------------------------
(***************************************************************************)
(* Directories of an ext2 file system (modules/ext2/main.c): readdir,      *)
(* finddir and the node of an inode, over every small tree.  Contents of   *)
(* directories are read with __ext2_read_inode_contents (see Ext2.tla); a  *)
(* directory is the sequence of its entries, deleted ones with inode 0.    *)
(***************************************************************************)
EXTENDS Integers, Sequences, SequencesExt, FiniteSets

CONSTANTS Names,
          Inodes,       \* inode numbers; 2 is the root directory
          Formats,      \* the top four bits of ext2_inode_t.perms that occur
          MaxEntries    \* bound: entries of a directory, deleted ones included

Ext2DirAssumption == 2 \in Inodes /\ 0 \notin Inodes /\ MaxEntries \in Nat

VARIABLES
  perms,     \* perms[i]: the format of inode i
  entries,   \* entries[i]: what the data of i holds
  node,      \* the node that finddir returned last, or NoNode
  asked,     \* the path it was asked for
  index,     \* the index of the next readdir on node
  listed     \* history: what the readdirs on node returned

vars == <<perms, entries, node, asked, index, listed>>

EXT2_DIR == 4
NoNode == [ino |-> 0, dir |-> FALSE]
Entry == [ino : Inodes \cup {0}, name : Names]
Live(es) == SelectSeq(es, LAMBDA e : e.ino # 0)

(* perms & EXT2_DIR: one bit, which block devices (6) and sockets (12)     *)
(* have too.                                                               *)
IsDir(format) == (format \div EXT2_DIR) % 2 = 1

Init ==
  /\ perms \in {f \in [Inodes -> Formats] : f[2] = EXT2_DIR}
  /\ entries \in {f \in [Inodes -> BoundedSeq(Entry, MaxEntries)] :
                    \A i \in Inodes :
                      /\ perms[i] # EXT2_DIR => f[i] = << >>
                      /\ \A j, k \in DOMAIN Live(f[i]) : j # k => Live(f[i])[j].name # Live(f[i])[k].name}
  /\ node = [ino |-> 2, dir |-> TRUE] /\ asked = << >>
  /\ index = 0 /\ listed = << >>

(* cur_index at entry k of a directory: deleted entries do not count.      *)
Skips(es, k) == Len(Live(SubSeq(es, 1, k - 1)))

Missing == [ino |-> 0, name |-> ""]

(* __ext2_readdir                                                          *)
readdir(i, n) ==
  LET es == entries[i]
      hits == {k \in DOMAIN es : es[k].ino # 0 /\ Skips(es, k) = n} IN
  IF ~IsDir(perms[i]) \/ hits = {} THEN Missing ELSE es[CHOOSE k \in hits : TRUE]

(* __ext2_from_inode                                                       *)
from_inode(i) == [ino |-> i, dir |-> IsDir(perms[i])]

(* The loop of __ext2_finddir over one directory: it ends at the first     *)
(* index for which readdir has no entry.                                   *)
Search(i, name) ==
  LET Ends(n) == readdir(i, n) = Missing \/ readdir(i, n).name = name
      last == CHOOSE n \in 0..MaxEntries : Ends(n) /\ \A m \in 0..n-1 : ~Ends(m)
  IN readdir(i, last).ino

finddir(path) ==
  LET Walk[n \in 0..Len(path)] ==
        IF n = 0 THEN 2
        ELSE LET Descend(i) == IF i = 0 THEN 0 ELSE Search(i, path[n]) IN Descend(Walk[n - 1])
      i == Walk[Len(path)] IN
  IF i = 0 THEN NoNode ELSE from_inode(i)

Find(path) ==
  /\ node' = finddir(path) /\ asked' = path
  /\ index' = 0 /\ listed' = << >>
  /\ UNCHANGED <<perms, entries>>

(* A program lists a directory with rising indices until readdir fails.    *)
Readdir ==
  /\ node.ino # 0 /\ index >= 0
  /\ LET e == readdir(node.ino, index) IN
     IF e = Missing THEN index' = -1 /\ UNCHANGED listed
     ELSE index' = index + 1 /\ listed' = Append(listed, e)
  /\ UNCHANGED <<perms, entries, node, asked>>

Next == Readdir \/ \E path \in [1..1 -> Names] \cup [1..2 -> Names] : Find(path)

Spec == Init /\ [][Next]_vars

(* A lookup finds exactly what the tree holds under the path.              *)
LookupFinds ==
  LET Reached(i, name) == {e.ino : e \in {x \in ToSet(Live(entries[i])) : x.name = name}}
      Walk[n \in 0..Len(asked)] ==
        IF n = 0 THEN {2} ELSE UNION {Reached(i, asked[n]) : i \in Walk[n - 1]}
  IN Walk[Len(asked)] = {node.ino} \ {0}

(* A listing is complete and in order, however many entries were deleted.  *)
ListingIsComplete ==
  index = -1 => listed = IF perms[node.ino] = EXT2_DIR THEN Live(entries[node.ino]) ELSE << >>
=============================================================================
