--------------------------------- MODULE Fds --------------------------------
(***************************************************************************)
(* File descriptor tables (kernel/src/proc/process.c): entries point to    *)
(* fd_t objects, which point to fs_node_t objects; both count their links  *)
(* and are freed by the last close.  Tables are copied by fork and emptied *)
(* by exit, exec closes the nodes opened with O_CLOEXEC.  Each call runs   *)
(* with interrupts off and is one step.                                    *)
(*                                                                         *)
(* A table is a sequence, descriptor i being entry i + 1.  Closing a slot  *)
(* that is in range and empty, where the code follows a null pointer, and  *)
(* clone with CLONE_FILES, which shares one table between two processes,   *)
(* are left out.  dup2 is in SpecDup2.                                     *)
(* close_fd_KeepsNode is a faulty variant of close_fd.                     *)
(***************************************************************************)
EXTENDS Integers, Sequences, FiniteSets, FiniteSetsExt, Functions

CONSTANTS
  Procs, Root,   \* processes, and the one that exists at first
  Fdts,          \* addresses of fd_t objects
  Nodes,         \* addresses of fs_node_t objects
  CloExec,       \* the nodes opened with O_CLOEXEC
  Null, MaxSize  \* the largest table considered

FdsAssumption ==
  /\ Root \in Procs
  /\ Null \notin Fdts \cup Nodes
  /\ CloExec \subseteq Nodes
  /\ MaxSize \in Nat

VARIABLES
  alive,     \* processes with a table
  nodes,     \* fds.nodes, whose length is fds.size
  amount,    \* fds.amount
  fdt,       \* fd_t: its node and its links; node Null when free
  links      \* fs_node_t: its links, 0 when free

vars == <<alive, nodes, amount, fdt, links>>

Free == [node |-> Null, links |-> 0]

Init ==
  /\ alive = {Root}
  /\ nodes = [p \in Procs |-> << >>]
  /\ amount = [p \in Procs |-> 0]
  /\ fdt = [t \in Fdts |-> Free]
  /\ links = [n \in Nodes |-> 0]

Used(p)   == {i \in DOMAIN nodes[p] : nodes[p][i] # Null}
Holes(p)  == {i \in DOMAIN nodes[p] : nodes[p][i] = Null}
NodeOf(p, i) == fdt[nodes[p][i]].node

(* The slot k_proc_process_open_node takes.  0 stands for the end of the   *)
(* function, marked __builtin_unreachable.                                 *)
Slot(p) ==
  IF amount[p] = Len(nodes[p]) THEN Len(nodes[p]) + 1
  ELSE IF Holes(p) # {} THEN Min(Holes(p))
  ELSE 0

(* A node that k_fs_vfs_open, k_fs_pipe_create, ... has just made.         *)
open_node(p, n, t) ==
  /\ p \in alive
  /\ links[n] = 0
  /\ fdt[t] = Free
  /\ Slot(p) \in 1..MaxSize
  /\ nodes' = [nodes EXCEPT ![p] = IF Slot(p) > Len(@) THEN Append(@, t)
                                   ELSE [nodes[p] EXCEPT ![Slot(p)] = t]]
  /\ amount' = [amount EXCEPT ![p] = @ + 1]
  /\ fdt' = [fdt EXCEPT ![t] = [node |-> n, links |-> 1]]
  /\ links' = [links EXCEPT ![n] = 1]
  /\ UNCHANGED alive

(* k_proc_process_close_fd on the slots S of p: each takes a link from its *)
(* fd_t and, through k_fs_vfs_close, one from its node.                    *)
CloseAll(p, S) ==
  LET refs(t)  == Cardinality({i \in S : nodes[p][i] = t})
      nrefs(n) == Cardinality({i \in S : NodeOf(p, i) = n})
  IN /\ amount' = [amount EXCEPT ![p] = @ - Cardinality(S)]
     /\ fdt' = [t \in Fdts |-> IF refs(t) = 0 THEN fdt[t]
                               ELSE IF fdt[t].links <= refs(t) THEN Free
                               ELSE [fdt[t] EXCEPT !.links = @ - refs(t)]]
     /\ links' = [n \in Nodes |-> links[n] - nrefs(n)]

close_fd_KeepsNode(p, i) ==
  /\ p \in alive
  /\ i \in Used(p)
  /\ amount' = [amount EXCEPT ![p] = @ - 1]
  /\ fdt' = [fdt EXCEPT ![nodes[p][i]] = IF @.links <= 1 THEN Free ELSE [@ EXCEPT !.links = @ - 1]]
  /\ nodes' = [nodes EXCEPT ![p][i] = Null]
  /\ UNCHANGED <<alive, links>>

close_fd(p, i) ==
  /\ p \in alive
  /\ i \in Used(p)
  /\ CloseAll(p, {i})
  /\ nodes' = [nodes EXCEPT ![p][i] = Null]
  /\ UNCHANGED alive

(* k_proc_process_prepare_exec.                                            *)
prepare_exec(p) ==
  LET S == {i \in Used(p) : NodeOf(p, i) \in CloExec}
  IN /\ p \in alive
     /\ S # {}
     /\ CloseAll(p, S)
     /\ nodes' = [nodes EXCEPT ![p] = [i \in DOMAIN @ |-> IF i \in S THEN Null ELSE @[i]]]
     /\ UNCHANGED alive

(* k_proc_process_exit; the table itself is freed.                         *)
exit(p) ==
  /\ p \in alive
  /\ CloseAll(p, Used(p))
  /\ nodes' = [nodes EXCEPT ![p] = << >>]
  /\ alive' = alive \ {p}

(* k_proc_process_fork: every entry gets an fd_t of its own and takes one  *)
(* link of the node; size and amount are copied with the process.          *)
fork(p, q) ==
  /\ p \in alive /\ q \notin alive
  /\ \E new \in Injection(Used(p), {t \in Fdts : fdt[t] = Free}) :
       /\ nodes' = [nodes EXCEPT ![q] =
                      [i \in DOMAIN nodes[p] |-> IF i \in Used(p) THEN new[i] ELSE Null]]
       /\ fdt' = [t \in Fdts |-> IF t \in Range(new)
                                 THEN [node |-> NodeOf(p, AntiFunction(new)[t]), links |-> 1]
                                 ELSE fdt[t]]
  /\ links' = [n \in Nodes |-> links[n] + Cardinality({i \in Used(p) : NodeOf(p, i) = n})]
  /\ amount' = [amount EXCEPT ![q] = amount[p]]
  /\ alive' = alive \cup {q}

Next ==
  \/ \E p \in Procs, n \in Nodes, t \in Fdts : open_node(p, n, t)
  \/ \E p \in Procs, i \in 1..MaxSize : close_fd(p, i)
  \/ \E p \in Procs : prepare_exec(p) \/ exit(p)
  \/ \E p \in Procs, q \in Procs : fork(p, q)

Spec == Init /\ [][Next]_vars
----------------------------------------------------------------------------
(* Every entry of every table.                                             *)
Entries == {e \in Procs \X (1..MaxSize) : e[2] \in DOMAIN nodes[e[1]] /\ nodes[e[1]][e[2]] # Null}

OfFdt(t)  == {e \in Entries : nodes[e[1]][e[2]] = t}
OfNode(n) == {e \in Entries : NodeOf(e[1], e[2]) = n}

TypeOK ==
  /\ alive \subseteq Procs
  /\ nodes \in [Procs -> Seq(Fdts \cup {Null})]
  /\ amount \in [Procs -> Nat]
  /\ fdt \in [Fdts -> [node : Nodes \cup {Null}, links : Nat]]
  /\ links \in [Nodes -> Nat]

(* Nothing is freed while a descriptor still leads to it, and nothing is   *)
(* left over when the last one is gone: the links of a node and of an fd_t *)
(* are exactly the entries that lead to them, over all processes and       *)
(* whatever forks, execs, closes and exits came before.                    *)
LinksAreExact ==
  /\ \A t \in Fdts : fdt[t].links = Cardinality(OfFdt(t))
  /\ \A n \in Nodes : links[n] = Cardinality(OfNode(n))

(* k_proc_process_open_node always finds a slot and never reaches the end  *)
(* of the function (__builtin_unreachable).                                *)
SlotExists == \A p \in alive : Slot(p) # 0

(* The inductive invariant behind both.  Without dup2 no fd_t is shared:   *)
(* each is free or the fd_t of exactly one entry.                          *)
TablesFit == \A p \in Procs : Len(nodes[p]) <= MaxSize

OneEntryEach ==
  /\ \A p, q \in Procs : \A i \in Used(p), j \in Used(q) :
       nodes[p][i] = nodes[q][j] => p = q /\ i = j
  /\ \A p \in Procs : \A i \in Used(p) : fdt[nodes[p][i]].links = 1 /\ NodeOf(p, i) \in Nodes
  /\ \A t \in Fdts : fdt[t] = Free \/ \E p \in Procs : \E i \in Used(p) : nodes[p][i] = t
  /\ \A p \in Procs \ alive : nodes[p] = << >>

Counted ==
  /\ \A p \in Procs : amount[p] = Cardinality(Used(p))
  /\ \A n \in Nodes : IsFiniteSet(OfNode(n)) /\ links[n] = Cardinality(OfNode(n))

FdsInv == TypeOK /\ TablesFit /\ OneEntryEach /\ Counted

(***************************************************************************)
(* sys_dup2 (kernel/src/int/syscall.c), apart because of what it breaks.   *)
(* A target beyond the end of the table plus one is left out: there the    *)
(* code computes the growth as size - fd2 + 1 in unsigned arithmetic and   *)
(* writes outside the table.                                               *)
(***************************************************************************)
(* fd2 < 0 asks for the lowest empty slot, or the end of the table.        *)
Target(p, fd2) ==
  IF fd2 # 0 THEN fd2
  ELSE IF Holes(p) # {} THEN Min(Holes(p)) ELSE Len(nodes[p]) + 1

(* The table entry is overwritten without closing it, fds.amount stays.    *)
dup2(p, fd1, fd2) ==
  LET t   == nodes[p][fd1]
      dst == Target(p, fd2)
  IN /\ p \in alive
     /\ fd1 \in Used(p)
     /\ dst <= Len(nodes[p]) + 1 /\ dst <= MaxSize
     /\ nodes' = [nodes EXCEPT ![p] = IF dst > Len(@) THEN Append(@, t)
                                      ELSE [@ EXCEPT ![dst] = t]]
     /\ fdt' = [fdt EXCEPT ![t].links = @ + 1]
     /\ UNCHANGED <<alive, amount, links>>

NextDup2 ==
  \/ Next
  \/ \E p \in Procs, fd1 \in 1..MaxSize, fd2 \in 0..MaxSize : dup2(p, fd1, fd2)

SpecDup2 == Init /\ [][NextDup2]_vars

(* k_proc_process_open_node finds a slot also after dup2: the end of the   *)
(* function is __builtin_unreachable (process.c:504).                      *)
SlotExistsAfterDup2 == SlotExists
=============================================================================
