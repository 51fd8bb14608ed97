------------------------------- MODULE Procfs -------------------------------
(***************************************************************************)
(* The process file system (kernel/src/fs/procfs.c): "/proc" listed by one *)
(* program while another opens "/proc/<pid>/status" or "/proc/self/status" *)
(* and reads it, and processes come and go.                                *)
(*                                                                         *)
(* The text of a status is a sequence of characters <<pid, state, place>>, *)
(* whose length depends on the name and on the state.  The buffer grows by *)
(* Chunk (64 in the code); a character that is written elsewhere leaves    *)
(* what the heap had there, Garbage.                                       *)
(***************************************************************************)
EXTENDS Lists, Integers, SequencesExt, FiniteSets

CONSTANTS Pids,      \* 1 is init, which lists; 2 is the program that reads; spawned in order
          Bare,      \* lengths of the text without the state
          Chunk, Reads,   \* growth of the buffer, lengths of reads
          None

ProcfsAssumption ==
  /\ Pids \subseteq Nat /\ {1, 2} \subseteq Pids /\ Bare \subseteq Nat \ {0}
  /\ Chunk \in Nat \ {0} /\ Reads \subseteq Nat \ {0}

VARIABLES
  list,      \* process_list
  proc,      \* pid -> [state, bare], or None
  index, listed, fin,   \* the listing: next index, pids so far, at its end
  begun, gone,          \* history: processes when it began, destroyed since
  file,      \* the open node: [buf, text], or None
  offset,    \* of the descriptor
  last       \* the last read: [offset, data], or None

vars == <<list, proc, index, listed, fin, begun, gone, file, offset, last>>
procVars == <<list, proc>>
listing == <<index, listed, fin, begun, gone>>
fileVars == <<file, offset, last>>

Garbage == <<0, "garbage", 0>>
New == CHOOSE p \in Pids : proc[p] = None /\ \A q \in Pids : proc[q] = None => p <= q
Listed == ToSet(list)

Init ==
  /\ list = <<1, 2>>
  /\ proc \in {[p \in Pids |-> IF p <= 2 THEN [state |-> "running", bare |-> b] ELSE None] : b \in Bare}
  /\ index = 0 /\ listed = << >> /\ fin = FALSE /\ begun = {} /\ gone = 0
  /\ file = None /\ offset = 0 /\ last = None

(* __k_proc_process_spawn with a pid that was never used.                  *)
Spawned(p) == list_push_back(list, p)

spawn(bare) ==
  /\ \E p \in Pids : proc[p] = None
  /\ list' = Spawned(New) /\ proc' = [proc EXCEPT ![New] = [state |-> "starting", bare |-> bare]]
  /\ UNCHANGED <<listing, fileVars>>

(* A process runs, sleeps and finishes; the two programs do not finish.    *)
change(p, s) ==
  /\ p \in Listed /\ proc[p].state # "zombie" /\ proc[p].state # s
  /\ p <= 2 => s # "zombie"
  /\ proc' = [proc EXCEPT ![p].state = s]
  /\ UNCHANGED <<list, listing, fileVars>>

(* k_proc_process_destroy, of a process that was waited for.               *)
destroy(p) ==
  /\ p \in Listed /\ proc[p].state = "zombie"
  /\ list' = list_delete_element(list, p)
  /\ gone' = IF p \in begun THEN gone + 1 ELSE gone
  /\ UNCHANGED <<proc, index, listed, fin, begun, fileVars>>

(* opendir *)
opendir ==
  /\ index' = 0 /\ listed' = << >> /\ fin' = FALSE /\ begun' = Listed /\ gone' = 0
  /\ UNCHANGED <<procVars, fileVars>>

(* The process for an index, after ".", ".." and "self"; from 1 here.      *)
First(i) == i - 2

(* __k_fs_procfs_root_readdir *)
readdir ==
  /\ ~fin /\ begun # {}
  /\ index' = index + 1
  /\ IF index < 3 THEN UNCHANGED <<listed, fin>>
     ELSE IF First(index) <= Len(list)
     THEN listed' = Append(listed, list[First(index)]) /\ UNCHANGED fin
     ELSE fin' = TRUE /\ UNCHANGED listed
  /\ UNCHANGED <<procVars, begun, gone, fileVars>>

(* __k_fs_procfs_state: "Z (zombie)" is shorter by one than "R (running)"  *)
(* and by two than the others.                                             *)
StateLen(s) == CASE s = "zombie" -> 0 [] s = "running" -> 1 [] OTHER -> 2
Text(p) == [i \in 1..(proc[p].bare + StateLen(proc[p].state)) |-> <<p, proc[p].state, i>>]

(* __k_fs_procfs_write_buffer: the character goes through the pointer from *)
(* before realloc, which always moves the block.                           *)
write_buffer(n, c) ==
  IF Len(n.buf) < n.cap THEN [n EXCEPT !.buf = Append(@, c)]
  ELSE [buf |-> Append(n.buf, Garbage), cap |-> n.cap + Chunk]

(* __k_fs_procfs_root_finddir: a process has a directory while it is in    *)
(* the list; "self" is a link to the directory of the reader, 2.           *)
finddir(p) == p \in Listed

(* finddir of status, and open, which fills the node: all in one call.     *)
open(p) ==
  /\ file = None /\ finddir(p)
  /\ LET n == FoldLeft(write_buffer, [buf |-> << >>, cap |-> Chunk], Text(p))
     IN  file' = [buf |-> n.buf, text |-> Text(p)]
  /\ offset' = 0 /\ last' = None
  /\ UNCHANGED <<procVars, listing>>

(* The length __k_fs_procfs_process_read copies.                           *)
Clipped(size) ==
  IF Len(file.buf) < offset THEN 0
  ELSE IF Len(file.buf) < offset + size THEN Len(file.buf) - offset ELSE size

(* sys_read; the copy begins with the buffer, whatever the offset is.      *)
read(size) ==
  /\ file # None
  /\ last' = [offset |-> offset, data |-> [i \in 1..Clipped(size) |-> IF i \in DOMAIN file.buf THEN file.buf[i] ELSE Garbage]]
  /\ offset' = offset + Clipped(size)
  /\ UNCHANGED <<procVars, listing, file>>

(* __k_fs_procfs_process_close *)
close ==
  /\ file # None /\ file' = None /\ last' = None /\ offset' = 0
  /\ UNCHANGED <<procVars, listing>>

Next ==
  \/ opendir \/ readdir \/ close
  \/ \E b \in Bare : spawn(b)
  \/ \E p \in Pids : destroy(p) \/ open(p)
  \/ \E p \in Pids, s \in {"running", "sleeping", "zombie"} : change(p, s)
  \/ \E n \in Reads : read(n)

Spec == Init /\ [][Next]_vars

(***************************************************************************)
(* Properties                                                              *)
(***************************************************************************)

(* A listing shows no process twice, whatever starts and ends during it.   *)
ListedOnce == IsInjective(listed)

(* Of the processes that were there from the beginning of a listing to its *)
(* end, it leaves out at most as many as ended meanwhile.                  *)
ListingMissesFew ==
  fin => Cardinality((begun \cap Listed) \ ToSet(listed)) <= gone

(* What the first read returns is the text of the process as it was when   *)
(* the file was opened, but for the first character of each new chunk.     *)
StatusIsText ==
  last # None /\ last.offset = 0 =>
    \A i \in DOMAIN last.data \cap DOMAIN file.text :
      i <= Chunk \/ (i - 1) % Chunk # 0 => last.data[i] = file.text[i]

(* Reads never return more in all than the length of the text, so a        *)
(* program that reads until nothing comes ends, with the text's length.    *)
LengthIsKept == file # None => offset <= Len(file.text)
=============================================================================
