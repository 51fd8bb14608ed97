----------------------------- MODULE TmpfsTree ------------------------------
(***************************************************************************)
(* The tree of a memory file system (kernel/src/fs/tmpfs.c) under the      *)
(* programs that list and change it: ls, rm and mkdir (user/), with the    *)
(* directory functions of the C library and the system calls below.  A     *)
(* system call is one step; the programs run side by side.  Addresses of   *)
(* tmpfs nodes are not used again, so that the use of a freed one shows.   *)
(* Where the code follows a wrong or a freed pointer the model ends.       *)
(* Unlinked_Not is a faulty variant of the definition that follows it.     *)
(***************************************************************************)
EXTENDS Integers, Sequences, SequencesExt, FiniteSets, Lists

CONSTANTS Procs,
          FileNames,   \* numbers above those of "." and "..", in the order of strcmp
          MaxNodes     \* bound: nodes made

Dot == 1
DotDot == 2
Root == 1
Paths == {<<n>> : n \in FileNames} \cup {<<n, m>> : n, m \in FileNames}

TmpfsTreeAssumption == MaxNodes \in Nat /\ \A n \in FileNames : n > DotDot

VARIABLES
  node,      \* tmpfs_node_t, by address
  prog,      \* what a process runs: the program, where it is in it, and its variables
  halted     \* "no", "freed" or "wild": what the code went wrong with

vars == <<node, prog, halted>>

Idle == [at |-> "idle", path |-> << >>, mode |-> "", ask |-> FALSE, dir |-> FALSE,
         dev |-> 0, index |-> 0, seen |-> << >>, there |-> {}, cut |-> 0,
         grown |-> FALSE]   \* the last three: history

Node(type, name, parent) == [type |-> type, name |-> name, parent |-> parent, children |-> << >>]
Free == Node("free", 0, 0)

(* __k_fs_tmpfs_mount                                                      *)
Init ==
  /\ node = <<Node("dir", Dot, 0)>>
  /\ prog = [p \in Procs |-> Idle]
  /\ halted = "no"

(* __k_fs_tmpfs_finddir, and the walk of the VFS along the names.          *)
finddir(n, name) ==
  LET hits == {i \in 1..Len(node[n].children) : node[node[n].children[i]].name = name}
  IN IF hits = {} THEN 0 ELSE node[n].children[CHOOSE i \in hits : \A j \in hits : i <= j]
Find(path) ==
  FoldLeft(LAMBDA n, name : IF n = 0 THEN 0 ELSE finddir(n, name), Root, path)

(* __k_fs_tmpfs_readdir                                                    *)
First == 2
Entry(n, index) ==
  IF index = 0 THEN [name |-> Dot, id |-> 0]
  ELSE IF index = 1 THEN [name |-> DotDot, id |-> 0]
  ELSE LET i == index - First + 1
           c == node[n].children IN
       IF i <= Len(c) THEN [name |-> node[c[i]].name, id |-> c[i]] ELSE [name |-> 0, id |-> 0]

(* readdir of the C library and sys_readdir: the entry at the index of the *)
(* DIR; nothing when there is none.                                        *)
readdir(r) == Entry(r.dev, r.index)

(***************************************************************************)
(* Making nodes: __k_fs_tmpfs_create_node appends without a look at the    *)
(* names that are there, and to a file as well as to a directory.          *)
(***************************************************************************)
Make(type, path) ==
  LET parent == Find(Front(path)) IN
  /\ parent # 0 /\ Len(node) < MaxNodes
  /\ node' = Append([node EXCEPT ![parent].children = list_push_back(@, Len(node) + 1)],
                    Node(type, path[Len(path)], parent))
  /\ prog' = [q \in Procs |-> [prog[q] EXCEPT !.grown = @ \/ prog[q].dev = parent]]

mkdir(p, path) ==
  /\ prog[p].at = "idle" /\ Make("dir", path)
  /\ UNCHANGED halted

(* sys_open with O_CREAT                                                   *)
create(p, path) ==
  /\ prog[p].at = "idle" /\ Find(path) = 0 /\ Make("file", path)
  /\ UNCHANGED halted

(***************************************************************************)
(* ls                                                                      *)
(***************************************************************************)
Opened(r, dev, at) ==
  [r EXCEPT !.at = at, !.dev = dev, !.index = 0, !.there = ToSet(node[dev].children),
            !.cut = 0, !.grown = FALSE]

(* dump of ls, up to opendir                                               *)
ls(p, path) ==
  /\ prog[p].at = "idle" /\ Find(path) # 0
  /\ prog' = [prog EXCEPT ![p] = Opened([Idle EXCEPT !.path = path], Find(path), "list")]
  /\ UNCHANGED <<node, halted>>

(* A turn of dump's loop over readdir.                                     *)
list(p) ==
  LET r == prog[p]
      e == readdir(r) IN
  /\ r.at = "list"
  /\ IF node[r.dev] = Free THEN halted' = "freed" /\ UNCHANGED prog
     ELSE /\ UNCHANGED halted
          /\ prog' = [prog EXCEPT ![p] = IF e.name = 0 THEN [r EXCEPT !.at = "print"]
                        ELSE [r EXCEPT !.index = @ + 1, !.seen = Append(@, e)]]
  /\ UNCHANGED node

(* The sort of dump: passes that stop once nothing was out of order.       *)
Swapped(s, j) == [s EXCEPT ![j] = s[j + 1], ![j + 1] = s[j]]
Upto(n, i) == n - i - 1
Pass(s, i) ==
  FoldLeft(LAMBDA a, j : IF a[j].name > a[j + 1].name THEN Swapped(a, j) ELSE a,
           s, [j \in 1..Upto(Len(s), i) |-> j])
Sorted(s) ==
  FoldLeft(LAMBDA a, i : IF a.done THEN a
                         ELSE LET b == Pass(a.s, i - 1) IN [s |-> b, done |-> b = a.s],
           [s |-> s, done |-> FALSE], [i \in 1..Len(s) - 1 |-> i]).s

(* The rest of dump: sort and print.                                       *)
print(p) ==
  /\ prog[p].at = "print"
  /\ prog' = [prog EXCEPT ![p].at = "printed", ![p].seen = Sorted(@)]
  /\ UNCHANGED <<node, halted>>

exit(p) ==
  /\ prog[p].at = "printed" /\ prog' = [prog EXCEPT ![p] = Idle]
  /\ UNCHANGED <<node, halted>>

(***************************************************************************)
(* rm                                                                      *)
(***************************************************************************)
(* sys_stat                                                                *)
IsDir(n) == node[n].type = "dir"

(* main of rm up to stat: -d wants an empty directory, -r takes any.       *)
rm(p, path, mode, ask) ==
  LET n == Find(path)
      dir == IsDir(n) IN
  /\ prog[p].at = "idle" /\ n # 0
  /\ dir => mode # "plain"
  /\ prog' = [prog EXCEPT ![p] = [Idle EXCEPT !.path = path, !.mode = mode, !.ask = ask, !.dir = dir,
                                              !.at = IF dir /\ mode = "d" THEN "open" ELSE "remove"]]
  /\ UNCHANGED <<node, halted>>

(* is_empty: opendir.  With no such directory the program reads from a     *)
(* null pointer and is killed.                                             *)
opendir(p) ==
  LET n == Find(prog[p].path) IN
  /\ prog[p].at = "open"
  /\ prog' = [prog EXCEPT ![p] = IF n = 0 THEN Idle ELSE Opened(@, n, "scan")]
  /\ UNCHANGED <<node, halted>>

Real(name) == name \notin {Dot, DotDot}

(* A turn of is_empty's loop: the first real entry ends rm.                *)
scan(p) ==
  LET r == prog[p]
      e == readdir(r) IN
  /\ r.at = "scan"
  /\ IF node[r.dev] = Free THEN halted' = "freed" /\ UNCHANGED prog
     ELSE /\ UNCHANGED halted
          /\ prog' = [prog EXCEPT ![p] =
               IF e.name = 0 THEN [r EXCEPT !.at = "remove"]
               ELSE IF Real(e.name) THEN Idle
               ELSE [r EXCEPT !.index = @ + 1]]
  /\ UNCHANGED node

Unlinked_Not(n) == [node EXCEPT ![n] = Free]
Unlinked(n) ==
  [node EXCEPT ![node[n].parent].children = list_delete_element(@, n), ![n] = Free]

(* sys_rm and sys_rmdir look the path up again, ...                        *)
Target(r) == Find(r.path)
(* ... and k_fs_vfs_rm takes no directory, k_fs_vfs_rmdir nothing else.    *)
Fits(n, dir) == n # 0 /\ IsDir(n) = dir

(* do_remove: the answer to the prompt, then the removal.  __k_fs_tmpfs_rm *)
(* takes the children for nodes of the VFS, which they are not.            *)
do_remove(p) ==
  LET r == prog[p]
      n == Target(r)
      fits == Fits(n, r.dir) IN
  /\ r.at = "remove"
  /\ \/ /\ r.ask \/ ~fits
        /\ prog' = [prog EXCEPT ![p] = Idle] /\ UNCHANGED <<node, halted>>
     \/ /\ fits /\ node[n].children # << >>
        /\ halted' = "wild" /\ UNCHANGED <<node, prog>>
     \/ /\ fits /\ node[n].children = << >>
        /\ node' = Unlinked(n)
        /\ prog' = [q \in Procs |->
             IF q = p THEN Idle
             ELSE [prog[q] EXCEPT !.cut = IF prog[q].dev = node[n].parent THEN @ + 1 ELSE @,
                                  !.there = @ \ {n}]]
        /\ UNCHANGED halted

Next ==
  /\ halted = "no"
  /\ \E p \in Procs :
       \/ list(p) \/ print(p) \/ exit(p) \/ opendir(p) \/ scan(p) \/ do_remove(p)
       \/ \E path \in Paths \cup {<< >>} : ls(p, path)
       \/ \E path \in Paths :
            \/ mkdir(p, path) \/ create(p, path)
            \/ \E mode \in {"plain", "d", "r"}, ask \in BOOLEAN : rm(p, path, mode, ask)

Spec == Init /\ [][Next]_vars

(***************************************************************************)
(* Properties                                                              *)
(***************************************************************************)
Live == {n \in DOMAIN node : node[n] # Free}

(* Whatever is removed and created, the tree holds no freed node, and the  *)
(* children's lists and the parents agree; the list is deleted from first. *)
TreeIsWhole ==
  \A n \in Live :
    /\ ToSet(node[n].children) = {c \in Live : node[c].parent = n}
    /\ IsInjective(node[n].children)
    /\ n # Root => node[n].parent \in Live

(* Of the entries that are in the directory from opendir to the end, ls    *)
(* leaves out at most one for each that is removed from it meanwhile, and  *)
(* prints none twice: the index into the list, which removals shift, is    *)
(* all that readdir keeps.                                                 *)
ListingIsComplete ==
  \A p \in Procs :
    LET ids == [i \in DOMAIN prog[p].seen |-> prog[p].seen[i].id] IN
    /\ prog[p].at = "print" => Cardinality(prog[p].there \ ToSet(ids)) <= prog[p].cut
    /\ \A i, j \in DOMAIN ids : ids[i] = ids[j] /\ ids[i] # 0 => i = j

(* What ls prints is in order.                                             *)
ListingIsSorted ==
  \A p \in Procs : prog[p].at = "printed" =>
    \A i, j \in 1..Len(prog[p].seen) : i < j => prog[p].seen[i].name <= prog[p].seen[j].name

(* rm follows a wrong pointer, at a directory that is not empty, only with *)
(* -r, at a file below which a directory was made, or when another process *)
(* put something into the directory, or in its place, after the check.     *)
EmptyIsChecked ==
  \A p \in Procs :
    do_remove(p) /\ halted' = "wild" =>
      \/ prog[p].mode = "r" \/ ~prog[p].dir
      \/ prog[p].grown \/ Find(prog[p].path) # prog[p].dev
=============================================================================
