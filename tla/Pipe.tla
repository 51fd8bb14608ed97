-------------------------------- MODULE Pipe --------------------------------
(***************************************************************************)
(* Pipes (kernel/src/fs/pipe.c): a ring buffer whose readers and writers   *)
(* sleep on one wait queue, and processes that wait in select on the read  *)
(* or the write queue.  Unlike ringbuffer.c, a call transfers everything   *)
(* it was asked to and wakes the others only when it ends, not when it     *)
(* sleeps half way.  As in RingBuffer, `busy' runs with interrupts off     *)
(* until it sleeps or returns.                                             *)
(*                                                                         *)
(* A transfer here is at most what the pipe can hold.  The code sets no    *)
(* limit: a longer write fills the pipe and sleeps without waking the      *)
(* readers that sleep on the empty pipe, and everybody waits for ever.     *)
(* Removing a pipe (__k_fs_pipe_remove) is left out.                       *)
(* WriteEnd_NoNotify is a faulty variant of WriteEnd.                      *)
(***************************************************************************)
EXTENDS Ring, FiniteSets

CONSTANTS Procs, None

ASSUME PipeAssumption ==
  /\ None \notin Procs
  /\ Size > 1
  /\ 0 \in Bytes

VARIABLES
  call,         \* "none", "write", "read" or "select"
  want,         \* size
  done,         \* written, read
  noblock,      \* node->mode & O_NOBLOCK
  status,       \* "out", "asleep", "woken" or "interrupted"
  wait_queue,
  sel_queues,   \* the select queues of "read" and "write"
  busy,         \* the process that runs in a pipe function
  last          \* the last byte handed to a reader

callVars == <<call, want, done, noblock>>
waitVars == <<wait_queue, sel_queues>>
pipeVars == <<ringVars, callVars, status, waitVars, busy, last>>

Events == {"read", "write"}

Init ==
  /\ RingInit
  /\ \A i \in DOMAIN buffer : buffer[i] = 0
  /\ call = [p \in Procs |-> "none"]
  /\ want = [p \in Procs |-> 0]
  /\ done = [p \in Procs |-> 0]
  /\ noblock = [p \in Procs |-> FALSE]
  /\ status = [p \in Procs |-> "out"]
  /\ wait_queue = {}
  /\ sel_queues = [e \in Events |-> {}]
  /\ busy = None
  /\ last = 0

Woken(queue) ==
  [p \in Procs |-> IF p \in queue THEN "woken" ELSE status[p]]

check(event) ==
  IF event = "read" THEN read_available > 0 ELSE write_available > 0

(* A call begins.  A read with O_NOBLOCK that cannot be served in full     *)
(* returns -EAGAIN and changes nothing.                                    *)
Start(p, kind, n, nb) ==
  /\ busy = None
  /\ call[p] = "none"
  /\ kind = "read" /\ nb => read_available >= n
  /\ call' = [call EXCEPT ![p] = kind]
  /\ want' = [want EXCEPT ![p] = n]
  /\ done' = [done EXCEPT ![p] = 0]
  /\ noblock' = [noblock EXCEPT ![p] = nb]
  /\ busy' = p
  /\ UNCHANGED <<ringVars, status, waitVars, last>>

Leave(p) ==
  /\ call' = [call EXCEPT ![p] = "none"]
  /\ want' = [want EXCEPT ![p] = 0]
  /\ done' = [done EXCEPT ![p] = 0]
  /\ noblock' = [noblock EXCEPT ![p] = FALSE]
  /\ busy' = None

WriteByte(b) ==
  /\ busy \in Procs
  /\ call[busy] = "write"
  /\ done[busy] < want[busy]
  /\ write_available # 0
  /\ PutByte(b)
  /\ done' = [done EXCEPT ![busy] = @ + 1]
  /\ UNCHANGED <<call, want, noblock, status, waitVars, busy, last>>

WriteSleep ==
  /\ busy \in Procs
  /\ call[busy] = "write"
  /\ done[busy] < want[busy]
  /\ write_available = 0
  /\ ~noblock[busy]
  /\ wait_queue' = wait_queue \cup {busy}
  /\ status' = [status EXCEPT ![busy] = "asleep"]
  /\ busy' = None
  /\ UNCHANGED <<ringVars, callVars, sel_queues, last>>

WriteEnd_NoNotify ==
  /\ busy \in Procs
  /\ call[busy] = "write"
  /\ \/ done[busy] = want[busy]
     \/ noblock[busy] /\ write_available = 0
  /\ status' = Woken(wait_queue)
  /\ wait_queue' = {}
  /\ Leave(busy)
  /\ UNCHANGED <<ringVars, sel_queues, last>>

(* Everything is written, or the pipe is full and O_NOBLOCK is set:        *)
(* everybody on the wait queue is woken, readers and writers, then         *)
(* __k_fs_pipe_notify(VFS_EVENT_READ).                                     *)
WriteEnd ==
  /\ busy \in Procs
  /\ call[busy] = "write"
  /\ \/ done[busy] = want[busy]
     \/ noblock[busy] /\ write_available = 0
  /\ status' = Woken(wait_queue \cup sel_queues["read"])
  /\ wait_queue' = {}
  /\ sel_queues' = [sel_queues EXCEPT !["read"] = {}]
  /\ Leave(busy)
  /\ UNCHANGED <<ringVars, last>>

ReadByte ==
  /\ busy \in Procs
  /\ call[busy] = "read"
  /\ done[busy] < want[busy]
  /\ read_available # 0
  /\ last' = NextByte
  /\ TakeByte
  /\ done' = [done EXCEPT ![busy] = @ + 1]
  /\ UNCHANGED <<call, want, noblock, status, waitVars, busy>>

ReadSleep ==
  /\ busy \in Procs
  /\ call[busy] = "read"
  /\ done[busy] < want[busy]
  /\ read_available = 0
  /\ wait_queue' = wait_queue \cup {busy}
  /\ status' = [status EXCEPT ![busy] = "asleep"]
  /\ busy' = None
  /\ UNCHANGED <<ringVars, callVars, sel_queues, last>>

ReadEnd ==
  /\ busy \in Procs
  /\ call[busy] = "read"
  /\ done[busy] = want[busy]
  /\ status' = Woken(wait_queue \cup sel_queues["write"])
  /\ wait_queue' = {}
  /\ sel_queues' = [sel_queues EXCEPT !["write"] = {}]
  /\ Leave(busy)
  /\ UNCHANGED <<ringVars, last>>

(* sys_select on the pipe: __k_fs_pipe_check said no, __k_fs_pipe_wait     *)
(* puts the process on the queue of the event and it sleeps.               *)
Select(p, event) ==
  /\ busy = None
  /\ call[p] = "none"
  /\ ~check(event)
  /\ call' = [call EXCEPT ![p] = "select"]
  /\ sel_queues' = [sel_queues EXCEPT ![event] = @ \cup {p}]
  /\ status' = [status EXCEPT ![p] = "asleep"]
  /\ UNCHANGED <<ringVars, want, done, noblock, wait_queue, busy, last>>

(* A signal, or for select also a timeout, takes a sleeper off its queues. *)
Interrupt(p) ==
  /\ busy = None
  /\ status[p] = "asleep"
  /\ status' = [status EXCEPT ![p] = "interrupted"]
  /\ wait_queue' = wait_queue \ {p}
  /\ sel_queues' = [e \in Events |-> sel_queues[e] \ {p}]
  /\ UNCHANGED <<ringVars, callVars, busy, last>>

(* A woken reader or writer goes on where it slept.                        *)
Resume(p) ==
  /\ busy = None
  /\ status[p] = "woken"
  /\ call[p] # "select"
  /\ status' = [status EXCEPT ![p] = "out"]
  /\ busy' = p
  /\ UNCHANGED <<ringVars, callVars, waitVars, last>>

(* A call that was interrupted returns -ERESTARTSYS, select returns.       *)
Return(p) ==
  /\ busy = None
  /\ status[p] = "interrupted" \/ (status[p] = "woken" /\ call[p] = "select")
  /\ status' = [status EXCEPT ![p] = "out"]
  /\ Leave(p)
  /\ UNCHANGED <<ringVars, waitVars, last>>

Next ==
  \/ \E p \in Procs, kind \in {"write", "read"}, n \in 1..(Size - 1), nb \in BOOLEAN :
       Start(p, kind, n, nb)
  \/ \E b \in Bytes : WriteByte(b)
  \/ WriteSleep
  \/ WriteEnd
  \/ ReadByte
  \/ ReadSleep
  \/ ReadEnd
  \/ \E p \in Procs, event \in Events : Select(p, event)
  \/ \E p \in Procs : Interrupt(p) \/ Resume(p) \/ Return(p)

Spec == Init /\ [][Next]_pipeVars
----------------------------------------------------------------------------
TypeOK ==
  /\ RingTypeOK
  /\ call \in [Procs -> {"none", "write", "read", "select"}]
  /\ want \in [Procs -> 0..(Size - 1)]
  /\ done \in [Procs -> 0..(Size - 1)]
  /\ noblock \in [Procs -> BOOLEAN]
  /\ status \in [Procs -> {"out", "asleep", "woken", "interrupted"}]
  /\ wait_queue \subseteq Procs
  /\ sel_queues \in [Events -> SUBSET Procs]
  /\ busy \in Procs \cup {None}
  /\ last \in Bytes

Waiting(kind) == {p \in wait_queue : call[p] = kind}

(* No lost wakeup, in spite of wakeups that only come at the end of a      *)
(* call: between calls a blocked reader or a process that selects for      *)
(* reading sleeps only while the pipe is empty, a blocked writer or a      *)
(* process that selects for writing only while it is full.                 *)
NobodyForgotten ==
  busy = None =>
    /\ Waiting("read") \cup sel_queues["read"] # {} => read_available = 0
    /\ Waiting("write") \cup sel_queues["write"] # {} => write_available = 0

(* The pipe is a FIFO channel.                                             *)
Stream == INSTANCE Channel WITH Capacity <- Size - 1, chan <- Contents
ImplementsChannel == Stream!Spec

(***************************************************************************)
(* Proofs for a pipe of any size, any processes and any transfers that fit *)
(* in the pipe: no wakeup is lost, and the pipe is a FIFO channel.         *)
(***************************************************************************)

(* Who is on a queue is asleep in the call that put it there, and who runs *)
(* is on none.                                                             *)
QueueInv ==
  /\ \A p \in wait_queue : status[p] = "asleep" /\ call[p] \in {"read", "write"}
  /\ \A e \in Events : \A p \in sel_queues[e] : status[p] = "asleep" /\ call[p] = "select"
  /\ sel_queues["read"] \cap sel_queues["write"] = {}
  /\ \A p \in Procs : call[p] = "none" => status[p] = "out"
  /\ busy \in Procs => status[busy] = "out" /\ call[busy] \in {"read", "write"}

WaitForData == Waiting("read") \cup sel_queues["read"]
WaitForRoom == Waiting("write") \cup sel_queues["write"]

(* NobodyForgotten also while a call runs: a sleeper may be overdue only   *)
(* if the running call is certain to reach its end, where it wakes all.    *)
WakeupComes ==
  /\ WaitForData # {} =>
       \/ read_available = 0
       \/ /\ busy \in Procs /\ call[busy] = "write"
          /\ write_available >= want[busy] - done[busy]
  /\ WaitForRoom # {} =>
       \/ write_available = 0
       \/ /\ busy \in Procs /\ call[busy] = "read"
          /\ read_available >= want[busy] - done[busy]

PInv == TypeOK /\ QueueInv /\ WakeupComes

(* The counters depend on nothing but the ring.                            *)
LEMMA SameCounts == UNCHANGED ringVars => UNCHANGED <<read_available, write_available>>
BY DEF ringVars, read_available, write_available

LEMMA PipeTypes == TypeOK /\ [Next]_pipeVars => TypeOK'
<1> SUFFICES ASSUME TypeOK, [Next]_pipeVars PROVE TypeOK'
  OBVIOUS
<1> USE PipeAssumption, SizeAssumption
<1>1. ASSUME NEW p \in Procs, NEW kind \in {"write", "read"}, NEW n \in 1..(Size - 1),
             NEW nb \in BOOLEAN, Start(p, kind, n, nb)
      PROVE  TypeOK'
  BY <1>1 DEF Start, TypeOK, RingTypeOK, ringVars, waitVars
<1>2. ASSUME NEW b \in Bytes, WriteByte(b)
      PROVE  TypeOK'
  <2>1. RingTypeOK'
    BY <1>2, PutCounts DEF WriteByte, TypeOK
  <2>2. done[busy] + 1 \in 0..(Size - 1)
    BY <1>2 DEF WriteByte, TypeOK
  <2> QED  BY <1>2, <2>1, <2>2 DEF WriteByte, TypeOK, waitVars
<1>3. CASE WriteSleep
  BY <1>3 DEF WriteSleep, TypeOK, RingTypeOK, ringVars, callVars
<1>4. CASE WriteEnd
  BY <1>4 DEF WriteEnd, Leave, Woken, TypeOK, RingTypeOK, ringVars, Events
<1>5. CASE ReadByte
  <2>1. RingTypeOK'
    BY <1>5, TakeCounts DEF ReadByte, TypeOK
  <2>2. done[busy] + 1 \in 0..(Size - 1) /\ NextByte \in Bytes
    BY <1>5 DEF ReadByte, TypeOK, RingTypeOK, NextByte
  <2> QED  BY <1>5, <2>1, <2>2 DEF ReadByte, TypeOK, waitVars
<1>6. CASE ReadSleep
  BY <1>6 DEF ReadSleep, TypeOK, RingTypeOK, ringVars, callVars
<1>7. CASE ReadEnd
  BY <1>7 DEF ReadEnd, Leave, Woken, TypeOK, RingTypeOK, ringVars, Events
<1>8. ASSUME NEW p \in Procs, NEW event \in Events, Select(p, event)
      PROVE  TypeOK'
  BY <1>8 DEF Select, TypeOK, RingTypeOK, ringVars, Events
<1>9. ASSUME NEW p \in Procs, Interrupt(p)
      PROVE  TypeOK'
  BY <1>9 DEF Interrupt, TypeOK, RingTypeOK, ringVars, callVars
<1>10. ASSUME NEW p \in Procs, Resume(p)
       PROVE  TypeOK'
  BY <1>10 DEF Resume, TypeOK, RingTypeOK, ringVars, callVars, waitVars
<1>11. ASSUME NEW p \in Procs, Return(p)
       PROVE  TypeOK'
  BY <1>11 DEF Return, Leave, TypeOK, RingTypeOK, ringVars, waitVars
<1>12. CASE UNCHANGED pipeVars
  BY <1>12 DEF pipeVars, callVars, ringVars, waitVars, TypeOK, RingTypeOK
<1> QED
  BY <1>1, <1>2, <1>3, <1>4, <1>5, <1>6, <1>7, <1>8, <1>9, <1>10, <1>11, <1>12 DEF Next

LEMMA PipeQueues == TypeOK /\ QueueInv /\ [Next]_pipeVars => QueueInv'
<1> SUFFICES ASSUME TypeOK, QueueInv, [Next]_pipeVars PROVE QueueInv'
  OBVIOUS
<1> USE PipeAssumption DEF QueueInv, Events
<1>1. ASSUME NEW p \in Procs, NEW kind \in {"write", "read"}, NEW n \in 1..(Size - 1),
             NEW nb \in BOOLEAN, Start(p, kind, n, nb)
      PROVE  QueueInv'
  BY <1>1 DEF Start, TypeOK, waitVars
<1>2. ASSUME NEW b \in Bytes, WriteByte(b)
      PROVE  QueueInv'
  BY <1>2 DEF WriteByte, waitVars
<1>3. CASE WriteSleep
  BY <1>3 DEF WriteSleep, TypeOK, callVars
<1>4. CASE WriteEnd
  <2>1. /\ wait_queue' = {}
        /\ sel_queues' = [sel_queues EXCEPT !["read"] = {}]
        /\ call' = [call EXCEPT ![busy] = "none"]
        /\ busy' = None
    BY <1>4 DEF WriteEnd, Leave
  <2>2. busy \in Procs /\ busy \notin wait_queue /\ \A e \in Events : busy \notin sel_queues[e]
    BY <1>4 DEF WriteEnd
  <2>3. \A p \in Procs : status'[p] = IF p \in wait_queue \cup sel_queues["read"]
                                     THEN "woken" ELSE status[p]
    BY <1>4 DEF WriteEnd, Woken
  <2>4. \A e \in Events : \A p \in sel_queues'[e] :
           p \in Procs /\ p \in sel_queues[e] /\ p \notin sel_queues["read"]
    <3> SUFFICES ASSUME NEW e \in Events, NEW p \in sel_queues'[e]
                 PROVE  p \in Procs /\ p \in sel_queues[e] /\ p \notin sel_queues["read"]
      OBVIOUS
    <3>1. e # "read" /\ p \in sel_queues[e] /\ p \in Procs
      BY <2>1 DEF TypeOK
    <3> QED  BY <3>1
  <2> QED  BY <2>1, <2>2, <2>3, <2>4 DEF TypeOK
<1>5. CASE ReadByte
  BY <1>5 DEF ReadByte, waitVars
<1>6. CASE ReadSleep
  BY <1>6 DEF ReadSleep, TypeOK, callVars
<1>7. CASE ReadEnd
  <2>1. /\ wait_queue' = {}
        /\ sel_queues' = [sel_queues EXCEPT !["write"] = {}]
        /\ call' = [call EXCEPT ![busy] = "none"]
        /\ busy' = None
    BY <1>7 DEF ReadEnd, Leave
  <2>2. busy \in Procs /\ busy \notin wait_queue /\ \A e \in Events : busy \notin sel_queues[e]
    BY <1>7 DEF ReadEnd
  <2>3. \A p \in Procs : status'[p] = IF p \in wait_queue \cup sel_queues["write"]
                                     THEN "woken" ELSE status[p]
    BY <1>7 DEF ReadEnd, Woken
  <2>4. \A e \in Events : \A p \in sel_queues'[e] :
           p \in Procs /\ p \in sel_queues[e] /\ p \notin sel_queues["write"]
    <3> SUFFICES ASSUME NEW e \in Events, NEW p \in sel_queues'[e]
                 PROVE  p \in Procs /\ p \in sel_queues[e] /\ p \notin sel_queues["write"]
      OBVIOUS
    <3>1. e # "write" /\ p \in sel_queues[e] /\ p \in Procs
      BY <2>1 DEF TypeOK
    <3> QED  BY <3>1
  <2> QED  BY <2>1, <2>2, <2>3, <2>4 DEF TypeOK
<1>8. ASSUME NEW p \in Procs, NEW event \in Events, Select(p, event)
      PROVE  QueueInv'
  BY <1>8 DEF Select, TypeOK
<1>9. ASSUME NEW p \in Procs, Interrupt(p)
      PROVE  QueueInv'
  BY <1>9 DEF Interrupt, TypeOK, callVars
<1>10. ASSUME NEW p \in Procs, Resume(p)
       PROVE  QueueInv'
  BY <1>10 DEF Resume, TypeOK, callVars, waitVars
<1>11. ASSUME NEW p \in Procs, Return(p)
       PROVE  QueueInv'
  BY <1>11 DEF Return, Leave, TypeOK, waitVars
<1>12. CASE UNCHANGED pipeVars
  BY <1>12 DEF pipeVars, callVars, waitVars
<1> QED
  BY <1>1, <1>2, <1>3, <1>4, <1>5, <1>6, <1>7, <1>8, <1>9, <1>10, <1>11, <1>12 DEF Next

LEMMA PipeWakeups == PInv /\ [Next]_pipeVars => WakeupComes'
<1> SUFFICES ASSUME TypeOK, QueueInv, WakeupComes, [Next]_pipeVars PROVE WakeupComes'
  BY DEF PInv
<1> USE PipeAssumption
<1>0. /\ read_available \in 0..(Size - 1)
      /\ write_available = Size - 1 - read_available
      /\ Size \in Nat
      /\ \A p \in Procs : want[p] \in Nat /\ done[p] \in Nat /\ want[p] <= (Size - 1)
  BY CountsAreBounded, SizeAssumption DEF TypeOK
<1>1. ASSUME NEW p \in Procs, NEW kind \in {"write", "read"}, NEW n \in 1..(Size - 1),
             NEW nb \in BOOLEAN, Start(p, kind, n, nb)
      PROVE  WakeupComes'
  <2>1. p \notin wait_queue
    BY <1>1 DEF Start, QueueInv
  <2>2. WaitForData' = WaitForData /\ WaitForRoom' = WaitForRoom
    BY <1>1, <2>1 DEF Start, TypeOK, waitVars, WaitForData, WaitForRoom, Waiting
  <2>3. UNCHANGED <<read_available, write_available>> /\ busy = None
    BY <1>1, SameCounts DEF Start
  <2> QED  BY <2>2, <2>3 DEF WakeupComes
<1>2. ASSUME NEW b \in Bytes, WriteByte(b)
      PROVE  WakeupComes'
  <2>1. WaitForData' = WaitForData /\ WaitForRoom' = WaitForRoom
    BY <1>2 DEF WriteByte, waitVars, WaitForData, WaitForRoom, Waiting
  <2>2. WaitForRoom = {}
    BY <1>2 DEF WriteByte, WakeupComes
  <2>3. write_available' = write_available - 1
    BY <1>2, PutCounts DEF WriteByte, TypeOK
  <2>4. /\ busy \in Procs /\ busy' = busy /\ call'[busy] = "write"
        /\ want'[busy] = want[busy] /\ done'[busy] = done[busy] + 1
    BY <1>2 DEF WriteByte, TypeOK
  <2>5. WaitForData # {} => write_available >= want[busy] - done[busy]
    BY <1>0, <1>2, <2>4 DEF WriteByte, WakeupComes
  <2>6. WaitForData # {} => write_available' >= want'[busy'] - done'[busy']
    BY <1>0, <2>3, <2>4, <2>5
  <2> QED  BY <2>1, <2>2, <2>4, <2>6 DEF WakeupComes
<1>3. CASE WriteSleep
  <2>1. write_available = 0 /\ UNCHANGED <<read_available, write_available>>
    BY <1>3, SameCounts DEF WriteSleep
  <2>2. WaitForData' = WaitForData
    BY <1>3 DEF WriteSleep, TypeOK, callVars, WaitForData, Waiting
  <2>3. WaitForData # {} => read_available = 0
    BY <1>0, <1>3, <2>1 DEF WriteSleep, WakeupComes
  <2> QED  BY <2>1, <2>2, <2>3 DEF WakeupComes
<1>4. CASE WriteEnd
  <2>1. UNCHANGED <<read_available, write_available>>
    BY <1>4, SameCounts DEF WriteEnd
  <2>2. WaitForData' = {} /\ WaitForRoom' = sel_queues["write"]
    BY <1>4 DEF WriteEnd, TypeOK, WaitForData, WaitForRoom, Waiting, Events
  <2>3. sel_queues["write"] # {} => write_available = 0
    BY <1>4 DEF WriteEnd, WakeupComes, WaitForRoom
  <2> QED  BY <2>1, <2>2, <2>3 DEF WakeupComes
<1>5. CASE ReadByte
  <2>1. WaitForData' = WaitForData /\ WaitForRoom' = WaitForRoom
    BY <1>5 DEF ReadByte, waitVars, WaitForData, WaitForRoom, Waiting
  <2>2. WaitForData = {}
    BY <1>5 DEF ReadByte, WakeupComes
  <2>3. read_available' = read_available - 1
    BY <1>5, TakeCounts DEF ReadByte, TypeOK
  <2>4. /\ busy \in Procs /\ busy' = busy /\ call'[busy] = "read"
        /\ want'[busy] = want[busy] /\ done'[busy] = done[busy] + 1
    BY <1>5 DEF ReadByte, TypeOK
  <2>5. WaitForRoom # {} => read_available >= want[busy] - done[busy]
    BY <1>0, <1>5, <2>4 DEF ReadByte, WakeupComes
  <2>6. WaitForRoom # {} => read_available' >= want'[busy'] - done'[busy']
    BY <1>0, <2>3, <2>4, <2>5
  <2> QED  BY <2>1, <2>2, <2>4, <2>6 DEF WakeupComes
<1>6. CASE ReadSleep
  <2>1. read_available = 0 /\ UNCHANGED <<read_available, write_available>>
    BY <1>6, SameCounts DEF ReadSleep
  <2>2. WaitForRoom' = WaitForRoom
    BY <1>6 DEF ReadSleep, TypeOK, callVars, WaitForRoom, Waiting
  <2>3. WaitForRoom # {} => write_available = 0
    BY <1>0, <1>6, <2>1 DEF ReadSleep, WakeupComes
  <2> QED  BY <2>1, <2>2, <2>3 DEF WakeupComes
<1>7. CASE ReadEnd
  <2>1. UNCHANGED <<read_available, write_available>>
    BY <1>7, SameCounts DEF ReadEnd
  <2>2. WaitForRoom' = {} /\ WaitForData' = sel_queues["read"]
    BY <1>7 DEF ReadEnd, TypeOK, WaitForData, WaitForRoom, Waiting, Events
  <2>3. sel_queues["read"] # {} => read_available = 0
    BY <1>7 DEF ReadEnd, WakeupComes, WaitForData
  <2> QED  BY <2>1, <2>2, <2>3 DEF WakeupComes
<1>8. ASSUME NEW p \in Procs, NEW event \in Events, Select(p, event)
      PROVE  WakeupComes'
  <2>1. p \notin wait_queue /\ busy = None /\ busy' = None
    BY <1>8 DEF Select, QueueInv
  <2>2. UNCHANGED <<read_available, write_available>>
    BY <1>8, SameCounts DEF Select
  <2>3. /\ WaitForData' = IF event = "read" THEN WaitForData \cup {p} ELSE WaitForData
        /\ WaitForRoom' = IF event = "write" THEN WaitForRoom \cup {p} ELSE WaitForRoom
    BY <1>8, <2>1 DEF Select, TypeOK, WaitForData, WaitForRoom, Waiting, Events
  <2>4. /\ event = "read" => read_available = 0
        /\ event = "write" => write_available = 0
    BY <1>0, <1>8 DEF Select, check
  <2> QED  BY <2>1, <2>2, <2>3, <2>4 DEF WakeupComes
<1>9. ASSUME NEW p \in Procs, Interrupt(p)
      PROVE  WakeupComes'
  <2>1. WaitForData' \subseteq WaitForData /\ WaitForRoom' \subseteq WaitForRoom
    BY <1>9 DEF Interrupt, TypeOK, callVars, WaitForData, WaitForRoom, Waiting, Events
  <2>2. UNCHANGED <<read_available, write_available>> /\ busy = None /\ busy' = None
    BY <1>9, SameCounts DEF Interrupt
  <2> QED  BY <2>1, <2>2 DEF WakeupComes
<1>10. ASSUME NEW p \in Procs, Resume(p)
       PROVE  WakeupComes'
  <2>1. WaitForData' = WaitForData /\ WaitForRoom' = WaitForRoom
    BY <1>10 DEF Resume, callVars, waitVars, WaitForData, WaitForRoom, Waiting
  <2>2. UNCHANGED <<read_available, write_available>> /\ busy = None
    BY <1>10, SameCounts DEF Resume
  <2> QED  BY <2>1, <2>2 DEF WakeupComes
<1>11. ASSUME NEW p \in Procs, Return(p)
       PROVE  WakeupComes'
  <2>1. p \notin wait_queue
    BY <1>11 DEF Return, QueueInv
  <2>2. WaitForData' = WaitForData /\ WaitForRoom' = WaitForRoom
    BY <1>11, <2>1 DEF Return, Leave, TypeOK, waitVars, WaitForData, WaitForRoom, Waiting
  <2>3. UNCHANGED <<read_available, write_available>> /\ busy = None /\ busy' = None
    BY <1>11, SameCounts DEF Return, Leave
  <2> QED  BY <2>2, <2>3 DEF WakeupComes
<1>12. CASE UNCHANGED pipeVars
  BY <1>12, SameCounts DEF pipeVars, callVars, waitVars, WakeupComes, WaitForData,
                           WaitForRoom, Waiting
<1> QED
  BY <1>1, <1>2, <1>3, <1>4, <1>5, <1>6, <1>7, <1>8, <1>9, <1>10, <1>11, <1>12 DEF Next

LEMMA PipeInvariance == Spec => []PInv
<1>1. Init => PInv
  BY SizeAssumption, PipeAssumption
  DEF Init, RingInit, PInv, TypeOK, RingTypeOK, QueueInv, WakeupComes, WaitForData,
      WaitForRoom, Waiting, Events
<1>2. PInv /\ [Next]_pipeVars => PInv'
  BY PipeTypes, PipeQueues, PipeWakeups DEF PInv
<1> QED  BY <1>1, <1>2, PTL DEF Spec

(* A pipe of any size loses no wakeup as long as no transfer is larger     *)
(* than the pipe: blocked and selecting readers sleep only on an empty     *)
(* pipe, blocked and selecting writers only on a full one.                 *)
THEOREM PipeForgetsNobody == Spec => []NobodyForgotten
<1>1. PInv => NobodyForgotten
  BY PipeAssumption DEF PInv, WakeupComes, NobodyForgotten, WaitForData, WaitForRoom
<1> QED  BY <1>1, PipeInvariance, PTL

(* The pointers of the pipe stay inside it, and every call is in a         *)
(* state of the code.                                                      *)
THEOREM PipeTypeCorrect == Spec => []TypeOK
<1>1. PInv => TypeOK
  BY DEF PInv
<1> QED  BY <1>1, PipeInvariance, PTL

(* A pipe of any size is a FIFO channel: partial, interrupted and          *)
(* restarted calls move bytes one Send or Receive at a time.               *)
THEOREM PipeIsChannel == Spec => ImplementsChannel
<1>1. Init => Stream!Init
  <2> SUFFICES ASSUME Init PROVE Contents = << >> /\ last \in Bytes
    BY DEF Stream!Init
  <2>1. read_available = 0
    BY DEF Init, RingInit, read_available
  <2> QED  BY <2>1, PipeAssumption DEF Init, Contents
<1>2. TypeOK /\ TypeOK' /\ [Next]_pipeVars => [Stream!Next]_<<Contents, last>>
  <2> SUFFICES ASSUME TypeOK, TypeOK', [Next]_pipeVars
               PROVE  [Stream!Next]_<<Contents, last>>
    OBVIOUS
  <2>0. UNCHANGED ringVars => UNCHANGED Contents
    BY DEF ringVars, Contents, read_available, Slot
  <2> DEFINE r == read_ptr
             w == write_ptr
  <2>1. /\ buffer \in [Ptrs -> Bytes] /\ r \in Ptrs /\ w \in Ptrs
        /\ read_available = Held(r, w)
        /\ write_available = Size - 1 - read_available
        /\ Contents = Stored(buffer, r, w)
    BY Available DEF TypeOK, RingTypeOK, Ptrs
  <2>2. Contents' = Stored(buffer', read_ptr', write_ptr')
    <3>1. read_available' = Held(read_ptr', write_ptr')
      BY DEF read_available, Held
    <3> QED  BY <3>1 DEF Contents, Stored, Slot, At
  <2>3. ASSUME NEW b \in Bytes, WriteByte(b)
        PROVE  Stream!Send(b)
    <3>1. Held(r, w) \in Ptrs /\ Len(Contents) = Held(r, w)
      BY <2>1, StoredSeq
    <3>2. Held(r, w) < Size - 1
      BY <2>1, <2>3, <3>1, SizeAssumption DEF WriteByte, Ptrs
    <3>3. Contents' = Append(Contents, b)
      BY <2>1, <2>2, <2>3, <3>2, StoredPut DEF WriteByte, PutByte
    <3> QED  BY <2>3, <3>1, <3>2, <3>3 DEF WriteByte, Stream!Send
  <2>4. ASSUME ReadByte
        PROVE  Stream!Receive
    <3>1. Held(r, w) # 0
      BY <2>1, <2>4 DEF ReadByte
    <3>2. /\ Contents # << >>
          /\ Head(Contents) = buffer[read_ptr]
          /\ Contents' = Tail(Contents)
      BY <2>1, <2>2, <2>4, <3>1, StoredTake DEF ReadByte, TakeByte
    <3> QED  BY <2>4, <3>2 DEF ReadByte, NextByte, Stream!Receive
  <2>5. CASE UNCHANGED <<ringVars, last>>
    BY <2>0, <2>5
  <2>6. ASSUME ~(\E b \in Bytes : WriteByte(b)), ~ReadByte
        PROVE  UNCHANGED <<ringVars, last>>
    BY <2>6 DEF Next, Start, WriteEnd, WriteSleep, ReadEnd, ReadSleep, Select, Interrupt,
                Resume, Return, pipeVars
  <2> QED  BY <2>3, <2>4, <2>5, <2>6 DEF Stream!Next
<1> QED
  BY <1>1, <1>2, PipeInvariance, PTL DEF Spec, PInv, ImplementsChannel, Stream!Spec
=============================================================================
