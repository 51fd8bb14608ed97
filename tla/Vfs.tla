--------------------------------- MODULE Vfs --------------------------------
(***************************************************************************)
(* The virtual file system (kernel/src/fs/vfs.c): a tree of entries, each  *)
(* with the root node of what is mounted on it, or with a mapper node that *)
(* only lists the entries below; lookups that walk the tree and then the   *)
(* file system they have reached; nodes, which are copied when they belong *)
(* to an entry and freed by whoever holds them.  Calls run with interrupts *)
(* off and are one step.                                                   *)
(*                                                                         *)
(* An entry is known by its path, a sequence of names.  A file system has  *)
(* files in its root only, Leaf when it is mounted, and creates and        *)
(* removes them.  A symbolic link is a node mounted on an entry, as those  *)
(* of /dev (dev/vt.c) are, and leads to LinkTo.  k_fs_vfs_link changes     *)
(* nothing: no file system has a link function.  Once the root's own       *)
(* entry is unmounted or removed, lookups free or use what is gone and the *)
(* model ends.  Turn_Keeps and FsIndex_Same are faulty variants.           *)
(***************************************************************************)
EXTENDS Integers, Sequences, FiniteSets, FiniteSetsExt, SequencesExt

CONSTANTS
  Names, Leaf,      \* names, and the file a file system holds at first
  LinkTo,           \* where symbolic links lead
  MaxPath,          \* longest path considered
  NodeIds           \* addresses of fs_node_t objects

VfsAssumption ==
  /\ Leaf \in Names /\ LinkTo \in Seq(Names) /\ MaxPath \in Nat
  /\ NodeIds \subseteq Nat \ {0}

VARIABLES
  entry,    \* vfs_tree: the node of each entry, by path
  node,     \* fs_node_t: what it is, whether mountpoint is set, its links,
            \* and the files of the file system whose root it is
  open      \* nodes held by programs

vars == <<entry, node, open>>

Paths == UNION {[1..n -> Names] : n \in 0..MaxPath}
Free  == [kind |-> "free", mp |-> FALSE, links |-> 0, files |-> {}]
New(kind, mp) == [kind |-> kind, mp |-> mp, links |-> 1,
                  files |-> IF kind = "fs" THEN {Leaf} ELSE {}]
Handle == New("handle", FALSE)   \* what a program holds: only its links matter
Unused == {i \in NodeIds : node[i].kind = "free"}
Entries == DOMAIN entry

(* The k-th node the heap gives out.                                       *)
Fresh(k) == CHOOSE i \in Unused : Cardinality({j \in Unused : j < i}) = k - 1

(* k_fs_vfs_init: the root entry with its mapper.                          *)
Init ==
  /\ entry = [p \in {<< >>} |-> Min(NodeIds)]
  /\ node = [i \in NodeIds |-> IF i = Min(NodeIds) THEN New("mapper", TRUE) ELSE Free]
  /\ open = {}

(***************************************************************************)
(* __k_fs_vfs_find_node                                                    *)
(***************************************************************************)
(* What a lookup ends with: a node of the tree, a new node for a file of   *)
(* the file system whose root is given, or nothing.                        *)
NoNode    == [at |-> "none", id |-> 0, name |-> Leaf]
InTree(i) == [at |-> "tree", id |-> i, name |-> Leaf]
InFs(i, name) == [at |-> "fs", id |-> i, name |-> name]

(* k_fs_vfs_finddir along the rest of a path: mappers, fifos and links     *)
(* have none.                                                              *)
Descend(i, rest) ==
  IF Len(rest) = 1 /\ rest[1] \in node[i].files THEN InFs(i, rest[1]) ELSE NoNode

(* One turn of the loop over the segments: it breaks off into the file     *)
(* system at the first segment that is no entry, and otherwise takes the   *)
(* entry for the result when it has the name looked for.                   *)
Turn_Keeps(path, s, k) ==
  LET child == SubSeq(path, 1, k) IN
  IF s.broke THEN s
  ELSE IF child \notin Entries
  THEN [broke |-> TRUE, result |->
          IF s.result # NoNode THEN s.result
          ELSE Descend(entry[SubSeq(path, 1, k - 1)], SubSeq(path, k, Len(path)))]
  ELSE IF path[k] = path[Len(path)] THEN [s EXCEPT !.result = InTree(entry[child])]
  ELSE s

Turn(path, s, k) ==
  LET child == SubSeq(path, 1, k) IN
  IF s.broke THEN s
  ELSE IF child \notin Entries
  THEN [broke |-> TRUE, result |->
          Descend(entry[SubSeq(path, 1, k - 1)], SubSeq(path, k, Len(path)))]
  ELSE IF path[k] = path[Len(path)] THEN [s EXCEPT !.result = InTree(entry[child])]
  ELSE s

Walked(path) ==
  IF path = << >> THEN InTree(entry[<< >>])
  ELSE FoldLeft(LAMBDA s, k : Turn(path, s, k), [broke |-> FALSE, result |-> NoNode],
                [k \in 1..Len(path) |-> k]).result

(* __k_fs_vfs_follow_symlink: what a link leads to is looked up in turn.   *)
IsLink(f) == f.at = "tree" /\ node[f.id].kind = "link"
Follow(f) == IF IsLink(f) THEN Walked(LinkTo) ELSE f

(* A walk that breaks off at a link goes on in what the link leads to, and *)
(* a link that is found is followed, unless O_NOFOLLOW is given.           *)
Entered(path) == Max({j \in 0..Len(path) : SubSeq(path, 1, j) \in Entries})
Beyond(to, rest) == IF to.at = "tree" THEN Descend(to.id, rest) ELSE NoNode

find_node(path, nofollow) ==
  LET k == Entered(path)
      at == InTree(entry[SubSeq(path, 1, k)]) IN
  IF nofollow THEN Walked(path)
  ELSE IF k < Len(path) /\ IsLink(at) THEN Beyond(Follow(at), SubSeq(path, k + 1, Len(path)))
  ELSE Follow(Walked(path))

(***************************************************************************)
(* Entries and mounts                                                      *)
(***************************************************************************)
(* __k_fs_vfs_get_entry with create: missing entries come with mappers.    *)
Missing(path) == {k \in 1..Len(path) : SubSeq(path, 1, k) \notin Entries}
Needs(path)   == Cardinality(Missing(path))
Mapper(path, k) == Fresh(Cardinality({j \in Missing(path) : j <= k}))
WithEntries(path) ==
  [p \in Entries \cup {SubSeq(path, 1, k) : k \in Missing(path)} |->
     IF p \in Entries THEN entry[p] ELSE Mapper(path, Len(p))]
WithNodes(path) ==
  [i \in NodeIds |-> IF \E k \in Missing(path) : i = Mapper(path, k)
                     THEN New("mapper", TRUE) ELSE node[i]]

(* k_fs_vfs_close on a node: the last link frees it.                       *)
Closed(n) == IF n.links = 1 THEN Free ELSE [n EXCEPT !.links = @ - 1]

(* k_fs_vfs_mount_node: a mapper that was there is closed, another node    *)
(* stays behind; the new root's mountpoint is the entry.                   *)
Mounted(path, root, kind) ==
  [WithNodes(path) EXCEPT
     ![WithEntries(path)[path]] = IF @.kind = "mapper" THEN Closed(@) ELSE @,
     ![root] = New(kind, TRUE)]

mount(path) ==
  LET root == Fresh(Needs(path) + 1) IN
  /\ Cardinality(Unused) > Needs(path)
  /\ entry' = [WithEntries(path) EXCEPT ![path] = root]
  /\ node' = Mounted(path, root, "fs")
  /\ UNCHANGED open

(* k_fs_vfs_mount_node of a symbolic link, as dev/vt.c does; what LinkTo   *)
(* leads to is no link.                                                    *)
mount_link(path) ==
  LET root == Fresh(Needs(path) + 1) IN
  /\ ~IsPrefix(path, LinkTo) /\ Cardinality(Unused) > Needs(path)
  /\ entry' = [WithEntries(path) EXCEPT ![path] = root]
  /\ node' = Mounted(path, root, "link")
  /\ UNCHANGED open

(* sys_mkfifo: the pipe's node is mounted and a copy of it opened.         *)
mkfifo(path) ==
  LET root == Fresh(Needs(path) + 1)
      copy == Fresh(Needs(path) + 2) IN
  /\ path # << >> /\ Cardinality(Unused) > Needs(path) + 1
  /\ entry' = [WithEntries(path) EXCEPT ![path] = root]
  /\ node' = [Mounted(path, root, "fifo") EXCEPT ![copy] = Handle]
  /\ open' = open \cup {copy}

(* An entry goes, with the entries below it.                               *)
Pruned(path) == [p \in {q \in Entries : ~IsPrefix(path, q)} |-> entry[p]]

(* k_fs_vfs_umount: the node stays behind; the root's entry is kept.       *)
umount(path) ==
  /\ path \in Entries
  /\ node' = [node EXCEPT ![entry[path]].mp = FALSE]
  /\ entry' = IF path = << >> THEN entry ELSE Pruned(path)
  /\ UNCHANGED open

(***************************************************************************)
(* Open nodes                                                              *)
(***************************************************************************)
(* k_fs_vfs_open: the node of an entry is copied, a node made by finddir   *)
(* is taken as it is.                                                      *)
k_open(path, nofollow) ==
  LET f == find_node(path, nofollow) IN
  /\ f # NoNode /\ Unused # {}
  /\ node' = [node EXCEPT ![Fresh(1)] = Handle]
  /\ open' = open \cup {Fresh(1)}
  /\ UNCHANGED entry

(* k_fs_vfs_open with O_CREAT where nothing is found: the root of a file   *)
(* system makes the file; the copy of it opened for that is closed again.  *)
creat(path) ==
  LET f == find_node(Front(path), FALSE) IN
  /\ path # << >> /\ find_node(path, FALSE) = NoNode
  /\ f.at = "tree" /\ node[f.id].kind = "fs" /\ Cardinality(Unused) > 1
  /\ node' = [node EXCEPT ![Fresh(1)] = Handle, ![f.id].files = @ \cup {Last(path)}]
  /\ open' = open \cup {Fresh(1)}
  /\ UNCHANGED entry

(* k_fs_vfs_close by the program that holds the node.                      *)
close(i) ==
  /\ i \in open
  /\ node' = [node EXCEPT ![i] = Closed(@)]
  /\ open' = open \ {i}
  /\ UNCHANGED entry

(* k_fs_vfs_rm and k_fs_vfs_rmdir of what a lookup has found: a file goes  *)
(* from its file system; an entry goes with its node, and the root's is    *)
(* freed where it stands.                                                  *)
Owner(f) == CHOOSE p \in Entries : entry[p] = f.id
Removed(f) ==
  IF f.at = "fs"
  THEN node' = [node EXCEPT ![f.id].files = @ \ {f.name}] /\ UNCHANGED entry
  ELSE /\ node' = [node EXCEPT ![f.id] = Free]
       /\ entry' = IF Owner(f) = << >> THEN entry ELSE Pruned(Owner(f))

IsDir(f) == f.at = "tree" /\ node[f.id].kind \in {"mapper", "fs"}

(* sys_rm and sys_rmdir: the node is opened, and closed when it has been   *)
(* removed; what is refused, a directory or anything else, is never closed.*)
rm(path, dir) ==
  LET f == find_node(path, FALSE) IN
  /\ f # NoNode /\ Unused # {}
  /\ IF IsDir(f) = dir THEN Removed(f)
     ELSE node' = [node EXCEPT ![Fresh(1)] = Handle] /\ UNCHANGED entry
  /\ UNCHANGED open

(* The root's entry is there and its node knows it.                        *)
Rooted == node[entry[<< >>]].mp

Next ==
  /\ Rooted
  /\ \/ \E path \in Paths : mount(path) \/ mount_link(path) \/ mkfifo(path) \/ umount(path)
     \/ \E path \in Paths, nofollow \in BOOLEAN : k_open(path, nofollow)
     \/ \E path \in Paths : creat(path) \/ rm(path, TRUE) \/ rm(path, FALSE)
     \/ \E i \in NodeIds : close(i)

Spec == Init /\ [][Next]_vars

(***************************************************************************)
(* k_fs_vfs_readdir and __k_fs_virtual_readdir: what index i of the        *)
(* directory at an entry gives.  A file system lists ".", ".." and files.  *)
(***************************************************************************)
Kids(path) == {p \in Entries : Len(p) = Len(path) + 1 /\ IsPrefix(path, p)}
Kid(path, k) == (CHOOSE p \in Kids(path) :
                   Cardinality({q \in Kids(path) : entry[q] < entry[p]}) = k)[Len(path) + 1]
Files(i) == SetToSeq(node[i].files)
At(list, i) == IF i < Len(list) THEN list[i + 1] ELSE ""

(* The index handed to the file system, behind the entries.                *)
FsIndex_Same(i, n) == i
FsIndex(i, n) == i - n

readdir(path, i) ==
  LET n == Cardinality(Kids(path)) IN
  IF node[entry[path]].kind = "mapper"
  THEN IF i < 2 THEN At(<<".", "..">>, i) ELSE IF i - 2 < n THEN Kid(path, i - 2) ELSE ""
  ELSE IF i < n THEN Kid(path, i) ELSE At(<<".", "..">> \o Files(entry[path]), FsIndex(i, n))

(* Names are listed until the first index that gives none.                 *)
Listed(path) ==
  LET end == Min({i \in 0..(2 * Cardinality(Names) + 2) : readdir(path, i) = ""})
  IN  {readdir(path, i) : i \in 0..(end - 1)}

(***************************************************************************)
(* Properties                                                              *)
(***************************************************************************)
(* Every entry of the tree is reached from the root and has a node of its  *)
(* own that is allocated and knows it is mounted, so that no lookup frees  *)
(* it (__k_fs_vfs_maybe_free), after any mounts, fifos, links, umounts and *)
(* removals but that of the root itself.                                   *)
EntriesAreLive ==
  Rooted =>
    \A p \in Entries :
      /\ \A k \in 0..Len(p) : SubSeq(p, 1, k) \in Entries
      /\ node[entry[p]].kind # "free" /\ node[entry[p]].mp
      /\ \A q \in Entries : entry[p] = entry[q] => p = q

(* What a path names: what is mounted on it, or a file of the file system  *)
(* mounted on its longest prefix that is an entry.                         *)
Named(path) ==
  LET i == entry[SubSeq(path, 1, Entered(path))]
      rest == SubSeq(path, Entered(path) + 1, Len(path))
  IN  IF rest = << >> THEN InTree(i)
      ELSE IF \E f \in node[i].files : rest = <<f>> THEN InFs(i, rest[1])
      ELSE NoNode

(* A lookup gives what the path names and nothing else, though the walk    *)
(* stops at every entry that has the file's name; and what is behind a     *)
(* link when it meets one, at the end of the path or before it, but for    *)
(* entries mounted below where the link leads, which are not found.        *)
LookupIsRight ==
  Rooted =>
    \A path \in Paths :
      LET head == SubSeq(path, 1, Entered(path))
          rest == SubSeq(path, Entered(path) + 1, Len(path)) IN
      /\ find_node(path, TRUE) = Named(path)
      /\ node[entry[head]].kind # "link" => find_node(path, FALSE) = Named(path)
      /\ node[entry[head]].kind = "link" /\ LinkTo \in Entries =>
           \/ find_node(path, FALSE) = Named(LinkTo \o rest)
           \/ rest # << >> /\ LinkTo \o <<rest[1]>> \in Entries

(* What a program holds is its own: live, and no node of the tree, so that *)
(* its close cannot free what another lookup will return.                  *)
HandlesAreOwn == \A i \in open : node[i].kind # "free" /\ \A p \in Entries : entry[p] # i

(* A directory lists exactly the names that a lookup finds in it; one that *)
(* is mounted over a file is listed with it, twice.                        *)
ListedIsFound ==
  Rooted =>
    \A path \in Entries :
      node[entry[path]].kind \in {"mapper", "fs"} =>
        Listed(path) = {".", ".."} \cup {n \in Names : find_node(Append(path, n), TRUE) # NoNode}
=============================================================================
