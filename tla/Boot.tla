-------------------------------- MODULE Boot --------------------------------
(***************************************************************************)
(* The first process (user/init/src/main.c): it gives every file of        *)
(* /modules to the kernel, then runs the scripts of /etc/init.d one after  *)
(* the other in the order of their names, and then spins.  The disk driver *)
(* and the partition table module (modules/dospart/main.c) are among the   *)
(* modules, in the order the directory has them.                           *)
(*                                                                         *)
(* A file of /modules loads, is refused, or is listed and cannot be        *)
(* opened; init then closes a stream it has not got and ends.  A script is *)
(* its name, a sequence of letters; it may leave processes behind, which   *)
(* become init's children and end at any time.                             *)
(* Woken_Not is a faulty variant of the definition that follows it.        *)
(***************************************************************************)
EXTENDS Integers, Sequences, FiniteSets, Functions

CONSTANTS Modules, Scripts,   \* files of /modules, names of scripts (sequences of numbers)
          Kinds,              \* what becomes of a file: subset of "ok", "bad", "gone"
          Daemons             \* processes that scripts leave behind

BootAssumption ==
  /\ Kinds \subseteq {"ok", "bad", "gone"} /\ {"ata", "dospart"} \subseteq Modules
  /\ IsFiniteSet(Modules) /\ IsFiniteSet(Scripts) /\ Scripts \subseteq Seq(Nat \ {0})

VARIABLES
  pc,
  kind, dir,      \* kind of each file; /modules as it is listed
  loaded,         \* modules, in the order they were loaded
  disk, part,     \* /dev/hda is there; its partitions are mounted
  scripts,        \* the array of init, first as it is listed
  i, j, swapped,  \* of sort
  next,           \* the script that runs
  child,          \* its process: "none", "run", "zombie"
  daemon,         \* "none", "run" (child of a script), "orphan", "zombie" (both of init)
  ended           \* history: scripts that have ended

vars == <<pc, kind, dir, loaded, disk, part, scripts, i, j, swapped, next, child, daemon, ended>>
modVars == <<kind, dir, loaded, disk, part>>
sortVars == <<scripts, i, j, swapped>>
runVars == <<next, child, daemon, ended>>

Orders(S) == {s \in [1..Cardinality(S) -> S] : IsInjective(s)}

Init ==
  /\ pc = "modules" /\ kind \in [Modules -> Kinds] /\ dir \in Orders(Modules)
  /\ loaded = << >> /\ disk = FALSE /\ part = FALSE
  /\ scripts \in Orders(Scripts) /\ i = 0 /\ j = 0 /\ swapped = FALSE
  /\ next = 1 /\ child = "none" /\ daemon = [d \in Daemons |-> "none"] /\ ended = {}

(* load of dospart: every drive that is there has its table read.          *)
try_mbr(m) == IF m = "dospart" THEN disk ELSE part

(* One turn of load_modules.                                               *)
load_module ==
  /\ pc = "modules" /\ dir # << >>
  /\ LET m == dir[1] IN
     /\ dir' = Tail(dir)
     /\ pc' = IF kind[m] = "gone" THEN "crashed" ELSE pc
     /\ IF kind[m] = "ok"
        THEN loaded' = Append(loaded, m) /\ part' = try_mbr(m) /\ disk' = (disk \/ m = "ata")
        ELSE UNCHANGED <<loaded, part, disk>>
  /\ UNCHANGED <<kind, sortVars, runVars>>

(* The scripts are listed, without "." and "..".                           *)
list_scripts ==
  /\ pc = "modules" /\ dir = << >> /\ pc' = "sort"
  /\ UNCHANGED <<modVars, sortVars, runVars>>

(* The first letter in which two names differ; a name ends with 0.         *)
Differ(a, b) ==
  LET max == IF Len(a) > Len(b) THEN Len(b) ELSE Len(a)
      same == {c \in 0..max : \A k \in 1..c : a[k] = b[k]}
  IN  CHOOSE c \in same : \A d \in same : d <= c
Letter(a, c) == IF c < Len(a) THEN a[c + 1] ELSE 0
Above(a, b) == Letter(a, Differ(a, b)) > Letter(b, Differ(a, b))

(* The end of the inner loop of sort.                                      *)
Upto == Len(scripts) - i - 1

(* One turn of the inner loop, or its end.                                 *)
sort ==
  /\ pc = "sort"
  /\ IF j < Upto
     THEN /\ IF Above(scripts[j + 1], scripts[j + 2])
             THEN /\ scripts' = [scripts EXCEPT ![j + 1] = scripts[j + 2], ![j + 2] = scripts[j + 1]]
                  /\ swapped' = TRUE
             ELSE UNCHANGED <<scripts, swapped>>
          /\ j' = j + 1 /\ UNCHANGED <<pc, i>>
     ELSE /\ i' = i + 1 /\ j' = 0 /\ swapped' = FALSE
          /\ pc' = IF swapped /\ i + 1 < Len(scripts) - 1 THEN "sort" ELSE "fork"
          /\ UNCHANGED scripts
  /\ UNCHANGED <<modVars, runVars>>

(* The loop over the scripts goes on.                                      *)
Left == next <= Len(scripts)

(* execute: the next script, or none is left.                              *)
fork ==
  /\ pc = "fork"
  /\ IF Left THEN pc' = "scan" /\ child' = "run" ELSE pc' = "spin" /\ UNCHANGED child
  /\ UNCHANGED <<modVars, sortVars, next, daemon, ended>>

(* waitpid of one pid.                                                     *)
Picked == child = "zombie"

(* waitpid looks at its children, and sleeps if the one has not finished.  *)
waitpid ==
  /\ pc = "scan"
  /\ IF Picked THEN pc' = "fork" /\ next' = next + 1 /\ child' = IF child = "zombie" THEN "none" ELSE child
     ELSE pc' = "asleep" /\ UNCHANGED <<next, child>>
  /\ UNCHANGED <<modVars, sortVars, daemon, ended>>

Woken_Not == pc
(* The wakeup of init's wait queue, in the exit of a child.                *)
Woken == IF pc = "asleep" THEN "scan" ELSE pc

(* The script leaves a process behind.                                     *)
leave(d) ==
  /\ child = "run" /\ daemon[d] = "none" /\ daemon' = [daemon EXCEPT ![d] = "run"]
  /\ UNCHANGED <<pc, modVars, sortVars, next, child, ended>>

(* The script ends; its children become init's.                            *)
exit_script ==
  /\ child = "run" /\ child' = "zombie" /\ ended' = ended \cup {scripts[next]}
  /\ daemon' = [d \in Daemons |-> IF daemon[d] = "run" THEN "orphan" ELSE daemon[d]]
  /\ pc' = Woken
  /\ UNCHANGED <<modVars, sortVars, next>>

exit_daemon(d) ==
  /\ daemon[d] = "orphan" /\ daemon' = [daemon EXCEPT ![d] = "zombie"]
  /\ pc' = Woken
  /\ UNCHANGED <<modVars, sortVars, next, child, ended>>

InitStep == load_module \/ list_scripts \/ sort \/ fork \/ waitpid
Next == InitStep \/ exit_script \/ \E d \in Daemons : leave(d) \/ exit_daemon(d)

(* init runs when it can, and every script ends.                           *)
Spec == Init /\ [][Next]_vars /\ WF_vars(InitStep) /\ WF_vars(exit_script)

(***************************************************************************)
(* Properties                                                              *)
(***************************************************************************)

(* A script is started when all whose names come before its name in the    *)
(* dictionary have ended, whatever their daemons do.                       *)
Before(a, b) ==
  \/ Len(a) < Len(b) /\ \A k \in 1..Len(a) : a[k] = b[k]
  \/ \E k \in DOMAIN a \cap DOMAIN b : a[k] < b[k] /\ \A l \in 1..(k - 1) : a[l] = b[l]
ScriptsInOrder ==
  child = "run" => \A s \in Scripts : Before(s, scripts[next]) => s \in ended

(* When init spins it has run every script and loaded every module that    *)
(* the kernel takes.                                                       *)
BootIsComplete ==
  pc = "spin" => ended = Scripts /\ Range(loaded) = {m \in Modules : kind[m] = "ok"}

(* If every listed module can be opened, init gets to its end; no wakeup   *)
(* of waitpid is lost to the orphans that end meanwhile.                   *)
AllOpen == \A m \in Modules : kind[m] # "gone"
BootEnds == AllOpen => <>(pc = "spin")

(***************************************************************************)
(* The inductive invariant.  What sort knows in pass i at position j: the  *)
(* last i names are in their places, the name at j is above all before it  *)
(* and, if nothing was exchanged in this pass, the names up to it are in   *)
(* order.                                                                  *)
(***************************************************************************)
TypeOK ==
  /\ pc \in {"modules", "crashed", "sort", "fork", "scan", "asleep", "spin"}
  /\ kind \in [Modules -> Kinds] /\ dir \in Seq(Modules) /\ loaded \in Seq(Modules)
  /\ scripts \in Orders(Scripts) /\ i \in Nat /\ j \in Nat /\ swapped \in BOOLEAN
  /\ next \in 1..(Len(scripts) + 1) /\ child \in {"none", "run", "zombie"}

ModulesAreAccounted ==
  /\ Range(loaded) \cup {m \in Range(dir) : kind[m] = "ok"} = {m \in Modules : kind[m] = "ok"}
  /\ pc \in {"modules", "crashed"} \/ dir = << >>

InOrder(a, b) == ~Above(scripts[a], scripts[b])
InPlace(b) == \A a \in 1..(b - 1) : InOrder(a, b)
Place == 1..Len(scripts)

SortIsSound ==
  /\ pc \in {"modules", "sort"} =>
       /\ j = 0 \/ j <= Upto
       /\ \A b \in Place : b > Len(scripts) - i => InPlace(b)
       /\ j > 0 => InPlace(j + 1)
       /\ ~swapped => \A b \in Place : b <= j + 1 => InPlace(b)
  /\ pc \in {"fork", "scan", "asleep", "spin"} => \A b \in Place : InPlace(b)

RunIsSound ==
  /\ ended = {scripts[k] : k \in 1..(IF child = "zombie" THEN next ELSE next - 1)}
  /\ IF pc \in {"scan", "asleep"} THEN child # "none" /\ next <= Len(scripts) ELSE child = "none"
  /\ pc \in {"modules", "crashed", "sort"} => next = 1
  /\ pc = "spin" => next = Len(scripts) + 1

BootInv == TypeOK /\ ModulesAreAccounted /\ SortIsSound /\ RunIsSound
=============================================================================
