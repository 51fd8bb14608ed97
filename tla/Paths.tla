-------------------------------- MODULE Paths -------------------------------
(***************************************************************************)
(* Paths (kernel/src/util/path.c) and the working directory they move      *)
(* (sys_open, sys_chdir and sys_getcwd in kernel/src/int/syscall.c).       *)
(*                                                                         *)
(* A path is a sequence of tokens: "/" and names, no two names adjacent.   *)
(* The functions that count bytes and cut strings are modelled on tokens,  *)
(* which is exact: they only look for "/".  Between two "/" in a row is an *)
(* empty name, which the code keeps like any other and which no directory  *)
(* has.  A path is shorter than the 255 bytes it is built in.              *)
(***************************************************************************)
EXTENDS Integers, Sequences, SequencesExt, FiniteSets

CONSTANTS Names, MaxSegs, MaxDepth   \* names, and bounds on paths and directories

PathsAssumption ==
  /\ {"/", "", ".", ".."} \cap Names = {}
  /\ MaxSegs \in Nat \ {0} /\ MaxDepth \in Nat

VARIABLES
  wd,     \* process_t.wd, a path
  dir     \* the directory the process is in, as names from the root

vars == <<wd, dir>>

Root == <<"/">>
Slashes(s) == {i \in DOMAIN s : s[i] = "/"}

(* k_util_path_strip: one "/" goes at either end.                          *)
strip(s) ==
  IF s = Root THEN s
  ELSE LET t == IF s[1] = "/" THEN Tail(s) ELSE s
       IN  IF t # << >> /\ t[Len(t)] = "/" THEN Front(t) ELSE t

(* The segments between the slashes, "" where two meet.                    *)
Pieces(s) ==
  LET end(k) == CHOOSE i \in Slashes(s) \cup {Len(s) + 1} :
                  Cardinality({j \in Slashes(s) : j < i}) = k - 1
      first(k) == IF k = 1 THEN 1 ELSE end(k - 1) + 1
  IN  [k \in 1..(Cardinality(Slashes(s)) + 1) |-> IF first(k) < end(k) THEN s[first(k)] ELSE ""]

(* k_util_path_length, and k_util_path_segment for each index: the walk    *)
(* does not step onto an empty last segment.                               *)
Segments(s) ==
  LET ps == Pieces(strip(s)) IN
  IF s = Root THEN << >>
  ELSE [k \in 1..Len(ps) |-> IF k = Len(ps) /\ k > 1 /\ ps[k] = "" THEN ps[k - 1] ELSE ps[k]]

filename(s) == IF s = Root THEN "/" ELSE Last(Segments(s))

(* k_util_path_folder: what comes before the last "/".                     *)
folder(s) ==
  IF s = Root THEN s
  ELSE SubSeq(s, 1, (CHOOSE i \in Slashes(s) : \A j \in Slashes(s) : j <= i) - 1)

(* One segment of k_util_path_canonize on its stack.                       *)
push(stack, seg) ==
  IF seg = "." THEN stack
  ELSE IF seg = ".." THEN IF stack = << >> THEN stack ELSE Front(stack)
  ELSE Append(stack, seg)

(* Names with a "/" between them; an empty name has no token.              *)
Joined(names) ==
  FlattenSeq([i \in 1..Len(names) |-> (IF i = 1 THEN << >> ELSE <<"/">>)
                                        \o (IF names[i] = "" THEN << >> ELSE <<names[i]>>)])
Rendered(stack) == <<"/">> \o Joined(stack)

canonize(root, relative) ==
  IF root = Root /\ relative = << >> THEN Root
  ELSE LET base == IF relative = << >> \/ relative[1] # "/" THEN Segments(root) ELSE << >>
           rest == IF relative = << >> THEN << >> ELSE Segments(relative)
       IN  Rendered(FoldLeft(push, << >>, base \o rest))

(* __sys_to_fullpath *)
fullpath(path) == IF path[1] = "/" THEN canonize(path, << >>) ELSE canonize(wd, path)

(***************************************************************************)
(* Reference: where a path leads, over names.  An empty one is a name of   *)
(* its own, which ".." takes back.                                         *)
(***************************************************************************)
Step(d, name) == CASE name = "." -> d
                   [] name = ".." -> SubSeq(d, 1, Len(d) - 1)
                   [] OTHER -> Append(d, name)
Leads(d, abs, names) == FoldLeft(Step, IF abs THEN << >> ELSE d, names)

(* The paths programs give: names, ".", "..", a "/" before or after, and   *)
(* two in a row.                                                           *)
Texts == UNION {[1..n -> Names \cup {".", "..", ""}] : n \in 1..MaxSegs}
Written(abs, names, trail) ==
  (IF abs THEN <<"/">> ELSE << >>) \o Joined(names) \o (IF trail THEN <<"/">> ELSE << >>)

Init == wd = Root /\ dir = << >>

(* Two "/" at the end of a path, before dots that lead nowhere or before a *)
(* last "/" repeat the last name or are dropped: "a//" is /a/a, "a//." is  *)
(* /a.  In a regular path they are inside.                                 *)
Regular(abs, names) ==
  /\ Last(names) # ""
  /\ LET d == Leads(dir, abs, names) IN d = << >> \/ Last(d) # ""

(* sys_open, which finds no directory with an empty name, then sys_chdir:  *)
(* wd is the node's path, which k_fs_vfs_open canonizes once more.         *)
chdir(abs, names, trail) ==
  LET path == canonize(fullpath(Written(abs, names, trail)), << >>)
      to == IF Regular(abs, names) THEN Leads(dir, abs, names) ELSE Segments(path) IN
  /\ abs \/ names[1] # ""
  /\ "" \notin ToSet(Segments(path))
  /\ Len(to) <= MaxDepth
  /\ dir' = to
  /\ wd' = path

Next == \E abs, trail \in BOOLEAN, names \in Texts : chdir(abs, names, trail)

Spec == Init /\ [][Next]_vars

(* After any chdirs the path the kernel keeps leads, from the root, to the *)
(* directory the process is in, and getcwd gives it in its shortest form.  *)
(* Where a path with two "/" at its end leads is what the code makes of it.*)
WdIsDirectory == wd = Rendered(dir)

(* What O_CREAT and mkdir split a path into: the folder leads to the       *)
(* parent and the filename is the last name.                               *)
FolderAndName ==
  dir # << >> =>
    /\ filename(wd) = dir[Len(dir)]
    /\ LET f == folder(wd) IN
         IF f = << >> THEN Len(dir) = 1 ELSE canonize(f, << >>) = Rendered(Front(dir))
=============================================================================
