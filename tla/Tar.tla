--------------------------------- MODULE Tar --------------------------------
(***************************************************************************)
(* The archive the system boots from: the tar file system (kernel/src/fs/  *)
(* tar.c) on a ramdisk (kernel/src/fs/ramdisk.c).                          *)
(*                                                                         *)
(* Add lays the archive out as "tar -C ramdisk ." does: the entry "./"     *)
(* first, a directory before what is in it.  Then it is read.  A name is a *)
(* sequence of letters, because the listing compares beginnings of names;  *)
(* a path is a sequence of names below ".".  Of the data only the place is *)
(* modelled: a read is the range of the disk it copies.  Nothing changes   *)
(* the archive, so one open and its listing or one read show everything.   *)
(***************************************************************************)
EXTENDS Integers, Sequences, SequencesExt, FiniteSets

CONSTANTS Names, Sizes, MaxEntries,   \* names and file sizes, and a bound on entries
          Lengths,                    \* lengths and offsets of reads
          None

TarAssumption ==
  /\ Sizes \subseteq Nat /\ Lengths \subseteq Nat /\ MaxEntries \in Nat

Block == 512
Digits == 11

VARIABLES
  archive,   \* the entries: [path, dir, size, at], size in octal digits
  phase,     \* "tar", "mounted" or "open"
  node,      \* inode of the node that is open, or None
  asked,     \* the path it was opened by
  index, listed, done,   \* readdir: next index, inodes so far, finished
  got        \* the last read: [at, size, offset, from, to]

vars == <<archive, phase, node, asked, index, listed, done, got>>

Root == << >>
Octal(n) == [i \in 1..Digits |-> (n \div 8^(Digits - i)) % 8]
Paths == UNION {[1..n -> Names] : n \in 0..2}
Inside(s) == SubSeq(s, 1, Len(s) - 1)

Init ==
  /\ archive = <<[path |-> Root, dir |-> TRUE, size |-> Octal(0), at |-> 0]>>
  /\ phase = "tar" /\ node = None /\ asked = Root
  /\ index = 0 /\ listed = << >> /\ done = FALSE /\ got = None

(* __k_fs_tar_get_size *)
get_size(sz) == FoldLeft(LAMBDA n, d : 8 * n + d, 0, sz)

(* Where the archive goes on: behind the header and the padded data of the *)
(* last entry.                                                             *)
End ==
  LET e == archive[Len(archive)] IN e.at + Block * (1 + (get_size(e.size) + Block - 1) \div Block)

(* tar: the next file or directory of a directory that is already there.   *)
Add(path, dir, size) ==
  /\ phase = "tar" /\ Len(archive) <= MaxEntries
  /\ dir => size = 0
  /\ \A k \in DOMAIN archive : archive[k].path # path
  /\ \E k \in DOMAIN archive : archive[k].dir /\ archive[k].path = Inside(path)
  /\ archive' = Append(archive, 
                      [path |-> path, dir |-> dir, size |-> Octal(size), at |-> End])
  /\ UNCHANGED <<phase, node, asked, index, listed, done, got>>

(* The disk ends with the two empty blocks that end an archive.            *)
DevSize == End + 2 * Block

(* __k_fs_tar_read_header: the entry, or what has no filename.             *)
read_header(offs) ==
  IF \E k \in DOMAIN archive : archive[k].at = offs
  THEN archive[CHOOSE k \in DOMAIN archive : archive[k].at = offs] ELSE None

(* How far both loops go on.                                               *)
Step(size) == (size \div Block + 1) * Block + (IF size % Block # 0 THEN Block ELSE 0)

(* The headers a loop visits, in order, until one has no filename.         *)
Visits ==
  LET go[n \in 0..Len(archive)] ==
        IF n = 0 THEN <<0, << >> >>
        ELSE LET s == go[n - 1]
                 h == read_header(s[1])
             IN  IF s[1] >= DevSize \/ h = None THEN s
                 ELSE <<s[1] + Step(get_size(h.size)), Append(s[2], s[1]) >>
  IN  go[Len(archive)][2]

(* __k_fs_tar_finddir: the first entry whose stripped name is the joined   *)
(* path of the node's own entry and the name.                              *)
finddir(inode, name) ==
  LET full == Append(read_header(inode).path, name)
      hits == SelectSeq(Visits, LAMBDA o : read_header(o).path = full)
  IN  IF hits = << >> THEN None ELSE hits[1]

(* __k_fs_tar_mount: the root's inode is 0, the first header.              *)
mount ==
  /\ phase = "tar" /\ phase' = "mounted"
  /\ UNCHANGED <<archive, node, asked, index, listed, done, got>>

(* k_fs_vfs_open: one finddir for each segment.                            *)
open(path) ==
  /\ phase = "mounted" /\ phase' = "open"
  /\ asked' = path
  /\ node' = FoldLeft(LAMBDA i, name : IF i = None THEN None ELSE finddir(i, name), 0, path)
  /\ UNCHANGED <<archive, index, listed, done, got>>

Begins(s, t) == IsPrefix(s, t)
(* The test of __k_fs_tar_readdir: one segment more than the folder, and   *)
(* the same text for as long as the folder's name is, which in the last    *)
(* segment may be the beginning of a longer name.                          *)
Under(folder, path) ==
  /\ Len(path) = Len(folder) + 1
  /\ folder # Root => /\ Inside(folder) = SubSeq(path, 1, Len(folder) - 1)
                      /\ Begins(folder[Len(folder)], path[Len(folder)])

(* __k_fs_tar_readdir after "." and "..", which the indices 0 and 1 are.   *)
readdir ==
  /\ phase = "open" /\ node # None /\ ~done /\ got = None
  /\ LET folder == read_header(node).path
         hits == SelectSeq(Visits, LAMBDA o : Under(folder, read_header(o).path))
     IN  IF index < 2 THEN UNCHANGED <<listed, done>>
         ELSE IF index - 2 < Len(hits) THEN listed' = Append(listed, hits[index - 1]) /\ UNCHANGED done
         ELSE done' = TRUE /\ UNCHANGED listed
  /\ index' = index + 1
  /\ UNCHANGED <<archive, phase, node, asked, got>>

(* __k_fs_tar_read: the length up to the end of the file.                  *)
Clipped(fsize, offset, size) == IF fsize < offset + size THEN fsize - offset ELSE size

(* __k_fs_ramdisk_read *)
ramdisk_read(offset, size) ==
  IF offset > DevSize THEN [from |-> 0, to |-> 0]
  ELSE [from |-> offset, to |-> offset + (IF offset + size > DevSize THEN DevSize - offset ELSE size)]

read(offset, size) ==
  /\ phase = "open" /\ node # None /\ node # 0 /\ index = 0 /\ got = None
  /\ LET fsize == get_size(read_header(node).size)
         r == IF offset > fsize THEN [from |-> 0, to |-> 0]
              ELSE ramdisk_read(node + Block + offset, Clipped(fsize, offset, size))
     IN  got' = [size |-> size, offset |-> offset, from |-> r.from, to |-> r.to]
  /\ UNCHANGED <<archive, phase, node, asked, index, listed, done>>

Next ==
  \/ \E p \in Paths \ {Root}, d \in BOOLEAN, s \in Sizes : Add(p, d, s)
  \/ mount \/ readdir
  \/ \E p \in Paths : open(p)
  \/ \E o, s \in Lengths : read(o, s)

Spec == Init /\ [][Next]_vars

(***************************************************************************)
(* Properties                                                              *)
(***************************************************************************)
Is(path, k) == archive[k].path = path
Child(k) == archive[k].path # Root /\ Inside(archive[k].path) = asked

(* Opening a path finds the header of the entry of that path, past files   *)
(* of every size, and finds nothing where the archive has no such entry.   *)
OpenFinds ==
  phase = "open" => IF \E k \in DOMAIN archive : Is(asked, k)
                    THEN \E k \in DOMAIN archive : Is(asked, k) /\ node = archive[k].at
                    ELSE node = None

(* A listing read to its end names every child of the directory once, and  *)
(* nothing else but the children of directories beside it whose names      *)
(* begin with its name ("/bin" shows what is in "/binary").                *)
ListingIsChildren ==
  done =>
    /\ IsInjective(listed)
    /\ \A k \in DOMAIN archive : Child(k) => \E i \in DOMAIN listed : listed[i] = archive[k].at
    /\ \A i \in DOMAIN listed : \E k \in DOMAIN archive :
         /\ listed[i] = archive[k].at /\ Len(archive[k].path) = Len(asked) + 1
         /\ \/ Child(k)
            \/ asked # Root /\ Begins(asked[Len(asked)], archive[k].path[Len(asked)])

(* A read copies exactly the part of the file's own data that the offset   *)
(* and the length ask for, and nothing past its end.                       *)
ReadIsExact ==
  got # None =>
    \E k \in DOMAIN archive :
      LET size == get_size(archive[k].size)
          end == IF got.offset + got.size <= size THEN got.offset + got.size ELSE size
      IN  /\ Is(asked, k)
          /\ IF got.offset >= size THEN got.to = got.from
             ELSE got.from = archive[k].at + Block + got.offset /\ got.to = archive[k].at + Block + end
=============================================================================
