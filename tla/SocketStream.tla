---------------------------- MODULE SocketStream ----------------------------
(***************************************************************************)
(* Data on a connected pair of local sockets (kernel/src/fs/socket.c), one *)
(* direction: writers call __k_fs_socket_write on their end `sock', which  *)
(* fills the buffer of the other end; a reader calls __k_fs_socket_read    *)
(* there.  The receiving end's mutex is the guarantee of module Mutex: one *)
(* holder, and a free lock goes to one of the waiters.                     *)
(* A writer that finds no room sleeps on its own end's queue with the      *)
(* mutex held; only traffic in the other direction (Nudge) wakes it, and   *)
(* with O_NOBLOCK it leaves with the mutex held.  One reader only: with    *)
(* two, available_data can wrap (to_read is computed before mutex_lock).   *)
(* The model may switch processes between any two steps, which is more     *)
(* than the code does (only where it sleeps).  A byte is its position in   *)
(* what was written.                                                       *)
(***************************************************************************)
EXTENDS Integers, Sequences, FiniteSets, FiniteSetsExt

CONSTANTS Writers, Reader, None,
          InitSize, MaxSize,   \* SOCKET_INIT_BUFFER_SIZE, SOCKET_MAX_BUFFER_SIZE
          MaxLen,              \* bound: bytes in one call
          MaxSent              \* bound: bytes written in all

SocketStreamAssumption ==
  /\ InitSize \in Nat \ {0} /\ MaxSize \in Nat /\ MaxSize % InitSize = 0
  /\ MaxLen \in Nat /\ MaxSent \in Nat
  /\ Reader \notin Writers /\ None \notin Writers \cup {Reader}

Procs == Writers \cup {Reader}

VARIABLES
  buffer,       \* the first available_data bytes of the receiving end
  buffer_size,
  owner,        \* of the receiving end's mutex
  at,           \* "out"; "lock": in mutex_lock; "sleep": asleep; "go": to run
  call,         \* arguments and locals: size, left, to_read, O_NOBLOCK
  selecting,    \* [event -> a process is asleep in select for it]
  sent,         \* bytes written so far
  received,     \* what the reader was given
  split,        \* history: a transfer took more than one memcpy
  wrapped       \* data_left went below zero: the read does not end

vars == <<buffer, buffer_size, owner, at, call, selecting, sent, received, split, wrapped>>

available_data == Len(buffer)
Idle == [size |-> 0, left |-> 0, to_read |-> 0, nb |-> FALSE]
Message(n) == [i \in 1..n |-> sent + i]

Init ==
  /\ buffer = << >> /\ buffer_size = InitSize /\ owner = None
  /\ at = [p \in Procs |-> "out"]
  /\ call = [p \in Procs |-> Idle]
  /\ selecting = [e \in {"read", "write"} |-> FALSE]
  /\ sent = 0 /\ received = << >> /\ split = FALSE /\ wrapped = FALSE

Start(p, n, nb) ==
  /\ at[p] = "out" /\ ~wrapped
  /\ p \in Writers => sent + n + MapThenSumSet(LAMBDA w : call[w].size, Writers) <= MaxSent
  /\ at' = [at EXCEPT ![p] = IF p = Reader THEN "go" ELSE "lock"]
  /\ call' = [call EXCEPT ![p] = [size |-> n, left |-> n, to_read |-> 0, nb |-> nb]]
  /\ UNCHANGED <<buffer, buffer_size, owner, selecting, sent, received, split, wrapped>>

(* mutex_lock returns.                                                     *)
Lock(p) ==
  /\ at[p] = "lock" /\ owner = None
  /\ owner' = p
  /\ at' = [at EXCEPT ![p] = "go"]
  /\ UNCHANGED <<buffer, buffer_size, call, selecting, sent, received, split, wrapped>>

Full == available_data >= buffer_size

NoRoom == Full /\ available_data >= MaxSize

Chunk(p) == LET room == (IF Full THEN buffer_size + InitSize ELSE buffer_size) - available_data
            IN IF room < call[p].left THEN room ELSE call[p].left

(* k_proc_process_wakeup_queue(client->blocked_processes)                  *)
NotifyRead == [at EXCEPT ![Reader] = IF @ = "sleep" THEN "go" ELSE @]

(* One round of the copy loop; every round copies from the start of the    *)
(* caller's buffer.  After the last one the mutex is released.             *)
WriteChunk(p) ==
  LET n == Chunk(p)
      last == call[p].left = n IN
  /\ p \in Writers /\ at[p] = "go" /\ call[p].left > 0
  /\ ~NoRoom
  /\ buffer_size' = IF Full THEN buffer_size + InitSize ELSE buffer_size
  /\ buffer' = buffer \o SubSeq(Message(call[p].size), 1, n)
  /\ split' = (split \/ ~last \/ call[p].left < call[p].size)
  /\ selecting' = [selecting EXCEPT !["read"] = FALSE]
  /\ call' = [call EXCEPT ![p] = IF last THEN Idle ELSE [call[p] EXCEPT !.left = @ - n]]
  /\ at' = IF last THEN [NotifyRead EXCEPT ![p] = "out"] ELSE NotifyRead
  /\ owner' = IF last THEN None ELSE owner
  /\ sent' = IF last THEN sent + call[p].size ELSE sent
  /\ UNCHANGED <<received, wrapped>>

(* No room: sleep on sock->blocked_processes with the mutex held, or       *)
(* -ENOBUFS, which returns with the mutex held.                            *)
WriteFull(p) ==
  /\ p \in Writers /\ at[p] = "go" /\ call[p].left > 0
  /\ NoRoom
  /\ at' = [at EXCEPT ![p] = IF call[p].nb THEN "out" ELSE "sleep"]
  /\ call' = [call EXCEPT ![p] = IF call[p].nb THEN Idle ELSE @]
  /\ sent' = IF call[p].nb THEN sent + call[p].size ELSE sent
  /\ UNCHANGED <<buffer, buffer_size, owner, selecting, received, split, wrapped>>

(* The other end writes, which empties the queue the writers sleep on; or  *)
(* a signal wakes any sleeper.  Both loops then look again.                *)
Nudge(p) ==
  /\ at[p] = "sleep"
  /\ at' = [at EXCEPT ![p] = "go"]
  /\ UNCHANGED <<buffer, buffer_size, owner, call, selecting, sent, received, split, wrapped>>

(* to_read is the smaller of size and available_data, not of what is left. *)
ToRead == IF call[Reader].size < available_data THEN call[Reader].size ELSE available_data

ReadSleep ==
  /\ at[Reader] = "go" /\ call[Reader].left > 0 /\ call[Reader].to_read = 0
  /\ available_data = 0 /\ ~call[Reader].nb
  /\ at' = [at EXCEPT ![Reader] = "sleep"]
  /\ UNCHANGED <<buffer, buffer_size, owner, call, selecting, sent, received, split, wrapped>>

ReadChoose ==
  /\ at[Reader] = "go" /\ call[Reader].left > 0 /\ call[Reader].to_read = 0
  /\ available_data > 0
  /\ call' = [call EXCEPT ![Reader].to_read = ToRead]
  /\ at' = [at EXCEPT ![Reader] = "lock"]
  /\ UNCHANGED <<buffer, buffer_size, owner, selecting, sent, received, split, wrapped>>

(* memmove of what is left to the front.                                   *)
Remaining(n) == SubSeq(buffer, n + 1, available_data)

ReadCopy ==
  LET n == call[Reader].to_read IN
  /\ at[Reader] = "go" /\ n > 0
  /\ received' = received \o SubSeq(buffer, 1, n)
  /\ buffer' = Remaining(n)
  /\ owner' = None
  /\ wrapped' = (n > call[Reader].left)
  /\ split' = (split \/ call[Reader].left < call[Reader].size)
  /\ call' = [call EXCEPT ![Reader].to_read = 0,
                          ![Reader].left = IF n > @ THEN 0 ELSE @ - n]
  /\ at' = [at EXCEPT ![Reader] = IF n > call[Reader].left THEN "out" ELSE "go"]
  /\ UNCHANGED <<buffer_size, selecting, sent>>

(* __k_fs_socket_notify(node, VFS_EVENT_WRITE)                             *)
NotifyWrite == [selecting EXCEPT !["write"] = FALSE]

ReadEnd ==
  /\ at[Reader] = "go" /\ call[Reader].to_read = 0
  /\ call[Reader].left = 0 \/ (available_data = 0 /\ call[Reader].nb)
  /\ selecting' = NotifyWrite
  /\ call' = [call EXCEPT ![Reader] = Idle]
  /\ at' = [at EXCEPT ![Reader] = "out"]
  /\ UNCHANGED <<buffer, buffer_size, owner, sent, received, split, wrapped>>

check(event) == IF event = "read" THEN available_data > 0 ELSE available_data < MaxSize

(* A process selects on the receiving end; it may give up again.           *)
Select(e) ==
  /\ ~wrapped /\ ~selecting[e] /\ ~check(e)
  /\ selecting' = [selecting EXCEPT ![e] = TRUE]
  /\ UNCHANGED <<buffer, buffer_size, owner, at, call, sent, received, split, wrapped>>

Next ==
  \/ \E p \in Procs, n \in 1..MaxLen, nb \in BOOLEAN : Start(p, n, nb)
  \/ \E p \in Procs : Lock(p) \/ Nudge(p)
  \/ \E p \in Writers : WriteChunk(p) \/ WriteFull(p)
  \/ ReadSleep \/ ReadChoose \/ ReadCopy \/ ReadEnd
  \/ \E e \in {"read", "write"} : Select(e)

Spec == Init /\ [][Next]_vars
----------------------------------------------------------------------------
(* The interesting part of a socket's promise: while no transfer was cut   *)
(* in two, the reader is given what was written, in order and without      *)
(* gaps, although to_read is chosen before the lock is taken and writers   *)
(* append in between.  (A transfer in two rounds copies its first bytes    *)
(* twice, on both sides.)                                                  *)
StreamInOrder ==
  ~split => /\ \A i \in DOMAIN received : received[i] = i
            /\ \A i \in DOMAIN buffer : buffer[i] = Len(received) + i

(* No lost wakeup: the reader, or a process that selects for reading,      *)
(* sleeps only while there is nothing to read.                             *)
ReaderNotForgotten == at[Reader] = "sleep" \/ selecting["read"] => available_data = 0

(* A process that selects for writing (on the receiving end, whose own     *)
(* buffer is what __k_fs_socket_check looks at) sleeps only while that is  *)
(* full or a read is still under way, which notifies when it ends.         *)
WriteSelectorNotForgotten ==
  selecting["write"] => available_data >= MaxSize \/ at[Reader] # "out" \/ wrapped

(* The mutex is left locked only by a writer that found the buffer full,   *)
(* asleep or gone with -ENOBUFS; the buffer then stays full for ever, as   *)
(* the reader needs the mutex to take anything out.                        *)
LockedOutMeansFull ==
  owner \in Writers /\ at[owner] # "go" => available_data >= MaxSize
----------------------------------------------------------------------------
(* The inductive invariant of these properties.                            *)
Record == [size : Nat, left : Nat, to_read : Nat, nb : BOOLEAN]

TypeOK ==
  /\ buffer \in Seq(Nat) /\ received \in Seq(Nat)
  /\ buffer_size \in Nat /\ sent \in Nat
  /\ owner \in Procs \cup {None}
  /\ at \in [Procs -> {"out", "lock", "sleep", "go"}]
  /\ call \in [Procs -> Record]
  /\ selecting \in [{"read", "write"} -> BOOLEAN]
  /\ split \in BOOLEAN /\ wrapped \in BOOLEAN

(* available_data never exceeds the allocated size, nor what is left the   *)
(* size of the call.                                                       *)
Fits == available_data <= buffer_size /\ \A p \in Procs : call[p].left <= call[p].size

(* Who copies has the mutex.  The reader chose to_read before it asks for  *)
(* the mutex, and what it chose is still there when it gets it.            *)
CopiesUnderLock ==
  /\ \A w \in Writers : at[w] \in {"go", "sleep"} => owner = w
  /\ call[Reader].to_read > 0 => /\ call[Reader].to_read <= available_data
                                 /\ at[Reader] \in {"lock", "go"}
                                 /\ at[Reader] = "go" => owner = Reader
  /\ at[Reader] = "lock" => call[Reader].to_read > 0
  /\ owner = Reader => at[Reader] = "go" /\ call[Reader].to_read > 0

(* A writer left with -ENOBUFS and the mutex.                              *)
Abandoned == owner \in Writers /\ at[owner] \in {"out", "lock"}

(* Until then nothing of what was sent is missing.                         *)
NothingMissing == ~split => Abandoned \/ sent = Len(received) + available_data

StreamInv ==
  /\ TypeOK /\ Fits /\ CopiesUnderLock /\ NothingMissing
  /\ wrapped => at[Reader] = "out"
  /\ StreamInOrder /\ ReaderNotForgotten /\ WriteSelectorNotForgotten /\ LockedOutMeansFull
=============================================================================
