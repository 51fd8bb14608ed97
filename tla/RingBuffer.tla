----------------------------- MODULE RingBuffer -----------------------------
(***************************************************************************)
(* ringbuffer_write and ringbuffer_read (kernel/src/util/types/            *)
(* ringbuffer.c), called by any number of processes.  A call runs with     *)
(* interrupts off: while `busy' is a process, only its copy loop moves.    *)
(* It loses the CPU only by sleeping on one of the two wait queues or by   *)
(* returning.  Calls are for at least one byte.                            *)
(* WriteDone_Silent is a faulty variant of the definition that follows it. *)
(***************************************************************************)
EXTENDS Ring, FiniteSets

CONSTANTS Procs, None, MaxBytes

ASSUME RingBufferAssumption == None \notin Procs /\ MaxBytes \in Nat \ {0}

VARIABLES
  call,         \* what a process is doing: "none", "write" or "read"
  want,         \* size
  done,         \* written, read
  status,       \* "out", "asleep", "woken" or "interrupted"
  read_wait_queue,
  write_wait_queue,
  busy,         \* the process that runs inside the two functions
  last          \* the last byte handed to a reader

callVars == <<call, want, done, status>>
waitVars == <<read_wait_queue, write_wait_queue>>
rbVars == <<ringVars, callVars, waitVars, busy, last>>

Init ==
  /\ RingInit
  /\ call = [p \in Procs |-> "none"]
  /\ want = [p \in Procs |-> 0]
  /\ done = [p \in Procs |-> 0]
  /\ status = [p \in Procs |-> "out"]
  /\ read_wait_queue = {}
  /\ write_wait_queue = {}
  /\ busy = None
  /\ last \in Bytes

(* k_proc_process_wakeup_queue makes everybody on the queue ready.         *)
Woken(queue) ==
  [p \in Procs |-> IF p \in queue THEN "woken" ELSE status[p]]

Start(p, kind, n) ==
  /\ busy = None
  /\ call[p] = "none"
  /\ call' = [call EXCEPT ![p] = kind]
  /\ want' = [want EXCEPT ![p] = n]
  /\ done' = [done EXCEPT ![p] = 0]
  /\ busy' = p
  /\ UNCHANGED <<ringVars, status, waitVars, last>>

(* The call returns.                                                       *)
Leave(p) ==
  /\ call' = [call EXCEPT ![p] = "none"]
  /\ want' = [want EXCEPT ![p] = 0]
  /\ done' = [done EXCEPT ![p] = 0]
  /\ busy' = None

WriteByte(b) ==
  /\ busy \in Procs
  /\ call[busy] = "write"
  /\ write_available # 0
  /\ done[busy] < want[busy]
  /\ PutByte(b)
  /\ done' = [done EXCEPT ![busy] = @ + 1]
  /\ UNCHANGED <<call, want, status, waitVars, busy, last>>

WriteDone_Silent ==
  /\ busy \in Procs
  /\ call[busy] = "write"
  /\ write_available = 0 \/ done[busy] = want[busy]
  /\ done[busy] # 0
  /\ Leave(busy)
  /\ UNCHANGED <<ringVars, status, waitVars, last>>

(* At least one byte was written: the readers are woken and the call       *)
(* returns.                                                                *)
WriteDone ==
  /\ busy \in Procs
  /\ call[busy] = "write"
  /\ write_available = 0 \/ done[busy] = want[busy]
  /\ done[busy] # 0
  /\ status' = Woken(read_wait_queue)
  /\ read_wait_queue' = {}
  /\ Leave(busy)
  /\ UNCHANGED <<ringVars, write_wait_queue, last>>

(* The buffer is full: the readers are woken and the writer sleeps.        *)
WriteSleep ==
  /\ busy \in Procs
  /\ call[busy] = "write"
  /\ write_available = 0
  /\ done[busy] = 0
  /\ status' = [Woken(read_wait_queue) EXCEPT ![busy] = "asleep"]
  /\ read_wait_queue' = {}
  /\ write_wait_queue' = write_wait_queue \cup {busy}
  /\ busy' = None
  /\ UNCHANGED <<ringVars, call, want, done, last>>

ReadByte ==
  /\ busy \in Procs
  /\ call[busy] = "read"
  /\ read_available # 0
  /\ done[busy] < want[busy]
  /\ last' = NextByte
  /\ TakeByte
  /\ done' = [done EXCEPT ![busy] = @ + 1]
  /\ UNCHANGED <<call, want, status, waitVars, busy>>

ReadDone ==
  /\ busy \in Procs
  /\ call[busy] = "read"
  /\ read_available = 0 \/ done[busy] = want[busy]
  /\ done[busy] # 0
  /\ status' = Woken(write_wait_queue)
  /\ write_wait_queue' = {}
  /\ Leave(busy)
  /\ UNCHANGED <<ringVars, read_wait_queue, last>>

ReadSleep ==
  /\ busy \in Procs
  /\ call[busy] = "read"
  /\ read_available = 0
  /\ done[busy] = 0
  /\ status' = [Woken(write_wait_queue) EXCEPT ![busy] = "asleep"]
  /\ write_wait_queue' = {}
  /\ read_wait_queue' = read_wait_queue \cup {busy}
  /\ busy' = None
  /\ UNCHANGED <<ringVars, call, want, done, last>>

(* A signal takes a sleeping process off its queue.                        *)
Interrupt(p) ==
  /\ busy = None
  /\ status[p] = "asleep"
  /\ status' = [status EXCEPT ![p] = "interrupted"]
  /\ read_wait_queue' = read_wait_queue \ {p}
  /\ write_wait_queue' = write_wait_queue \ {p}
  /\ UNCHANGED <<ringVars, call, want, done, busy, last>>

(* A process that was woken is switched in and tries again, or returns     *)
(* -ERESTARTSYS when a signal woke it.                                     *)
Resume(p) ==
  /\ busy = None
  /\ status[p] = "woken"
  /\ status' = [status EXCEPT ![p] = "out"]
  /\ busy' = p
  /\ UNCHANGED <<ringVars, call, want, done, waitVars, last>>

Restart(p) ==
  /\ busy = None
  /\ status[p] = "interrupted"
  /\ status' = [status EXCEPT ![p] = "out"]
  /\ Leave(p)
  /\ UNCHANGED <<ringVars, waitVars, last>>

Next ==
  \/ \E p \in Procs, kind \in {"write", "read"}, n \in 1..MaxBytes : Start(p, kind, n)
  \/ \E b \in Bytes : WriteByte(b)
  \/ WriteDone
  \/ WriteSleep
  \/ ReadByte
  \/ ReadDone
  \/ ReadSleep
  \/ \E p \in Procs : Interrupt(p) \/ Resume(p) \/ Restart(p)

Spec == Init /\ [][Next]_rbVars
----------------------------------------------------------------------------
TypeOK ==
  /\ RingTypeOK
  /\ call \in [Procs -> {"none", "write", "read"}]
  /\ want \in [Procs -> 0..MaxBytes]
  /\ done \in [Procs -> 0..MaxBytes]
  /\ status \in [Procs -> {"out", "asleep", "woken", "interrupted"}]
  /\ read_wait_queue \subseteq Procs
  /\ write_wait_queue \subseteq Procs
  /\ busy \in Procs \cup {None}
  /\ last \in Bytes

(* No lost wakeup: between calls, a reader sleeps only while the buffer is *)
(* empty and a writer only while it is full, whatever signals, partial     *)
(* transfers and other readers and writers came in between.                *)
NobodyForgotten ==
  busy = None =>
    /\ read_wait_queue # {} => read_available = 0
    /\ write_wait_queue # {} => write_available = 0

(* The buffer is a FIFO channel of Size - 1 bytes: pointers that wrap      *)
(* around, the free slot and partial transfers neither lose, repeat nor    *)
(* reorder a byte.                                                         *)
Stream == INSTANCE Channel WITH Capacity <- Size - 1, chan <- Contents
ImplementsChannel == Stream!Spec
----------------------------------------------------------------------------
(* Proofs, for a buffer of any size, any processes and any transfer sizes. *)

(* NobodyForgotten also while a call runs: a queue may hold a process that *)
(* could go on only if the running call has moved a byte, and then that    *)
(* call wakes the queue before it ends.                                    *)
WakeupOwed ==
  /\ read_wait_queue # {} =>
       \/ read_available = 0
       \/ busy \in Procs /\ call[busy] = "write" /\ done[busy] # 0
  /\ write_wait_queue # {} =>
       \/ write_available = 0
       \/ busy \in Procs /\ call[busy] = "read" /\ done[busy] # 0

RInv == TypeOK /\ WakeupOwed

(* Every step keeps the types.                                             *)
LEMMA TypeStep == TypeOK /\ [Next]_rbVars => TypeOK'
<1> SUFFICES ASSUME TypeOK, [Next]_rbVars PROVE TypeOK'
  OBVIOUS
<1> USE SizeAssumption, RingBufferAssumption
<1>1. ASSUME NEW p \in Procs, NEW kind \in {"write", "read"}, NEW n \in 1..MaxBytes,
             Start(p, kind, n)
      PROVE  TypeOK'
  BY <1>1 DEF Start, TypeOK, RingTypeOK, ringVars, waitVars
<1>2. ASSUME NEW b \in Bytes, WriteByte(b)
      PROVE  TypeOK'
  <2>1. write_ptr' \in 0..(Size - 1)
    BY <1>2 DEF WriteByte, PutByte, bump, TypeOK, RingTypeOK
  <2>2. done[busy] + 1 \in 0..MaxBytes
    BY <1>2 DEF WriteByte, TypeOK
  <2> QED  BY <1>2, <2>1, <2>2 DEF WriteByte, PutByte, TypeOK, RingTypeOK, waitVars
<1>3. CASE WriteDone
  BY <1>3 DEF WriteDone, Leave, Woken, TypeOK, RingTypeOK, ringVars
<1>4. CASE WriteSleep
  BY <1>4 DEF WriteSleep, Woken, TypeOK, RingTypeOK, ringVars
<1>5. CASE ReadByte
  <2>1. read_ptr' \in 0..(Size - 1)
    BY <1>5 DEF ReadByte, TakeByte, bump, TypeOK, RingTypeOK
  <2>2. done[busy] + 1 \in 0..MaxBytes
    BY <1>5 DEF ReadByte, TypeOK
  <2> QED  BY <1>5, <2>1, <2>2 DEF ReadByte, TakeByte, NextByte, TypeOK, RingTypeOK, waitVars
<1>6. CASE ReadDone
  BY <1>6 DEF ReadDone, Leave, Woken, TypeOK, RingTypeOK, ringVars
<1>7. CASE ReadSleep
  BY <1>7 DEF ReadSleep, Woken, TypeOK, RingTypeOK, ringVars
<1>8. ASSUME NEW p \in Procs, Interrupt(p)
      PROVE  TypeOK'
  BY <1>8 DEF Interrupt, TypeOK, RingTypeOK, ringVars
<1>9. ASSUME NEW p \in Procs, Resume(p)
      PROVE  TypeOK'
  BY <1>9 DEF Resume, TypeOK, RingTypeOK, ringVars, waitVars
<1>10. ASSUME NEW p \in Procs, Restart(p)
       PROVE  TypeOK'
  BY <1>10 DEF Restart, Leave, TypeOK, RingTypeOK, ringVars, waitVars
<1>11. CASE UNCHANGED rbVars
  BY <1>11 DEF rbVars, callVars, ringVars, waitVars, TypeOK, RingTypeOK
<1> QED
  BY <1>1, <1>2, <1>3, <1>4, <1>5, <1>6, <1>7, <1>8, <1>9, <1>10, <1>11 DEF Next

(* Every step keeps the promise of a wakeup.                               *)
LEMMA OwedStep == RInv /\ [Next]_rbVars => WakeupOwed'
<1> SUFFICES ASSUME TypeOK, WakeupOwed, [Next]_rbVars PROVE WakeupOwed'
  BY DEF RInv
<1> USE RingBufferAssumption
<1>0. UNCHANGED ringVars => UNCHANGED <<read_available, write_available>>
  BY DEF ringVars, read_available, write_available
<1>1. ASSUME NEW p \in Procs, NEW kind \in {"write", "read"}, NEW n \in 1..MaxBytes,
             Start(p, kind, n)
      PROVE  WakeupOwed'
  BY <1>0, <1>1 DEF Start, WakeupOwed, waitVars
<1>2. ASSUME NEW b \in Bytes, WriteByte(b)
      PROVE  WakeupOwed'
  <2>1. write_wait_queue = {}
    BY <1>2 DEF WriteByte, WakeupOwed
  <2>2. done'[busy] # 0
    BY <1>2 DEF WriteByte, TypeOK
  <2> QED  BY <1>2, <2>1, <2>2 DEF WriteByte, WakeupOwed, waitVars
<1>3. CASE WriteDone
  BY <1>0, <1>3 DEF WriteDone, WakeupOwed
<1>4. CASE WriteSleep
  BY <1>0, <1>4 DEF WriteSleep, WakeupOwed
<1>5. CASE ReadByte
  <2>1. read_wait_queue = {}
    BY <1>5 DEF ReadByte, WakeupOwed
  <2>2. done'[busy] # 0
    BY <1>5 DEF ReadByte, TypeOK
  <2> QED  BY <1>5, <2>1, <2>2 DEF ReadByte, WakeupOwed, waitVars
<1>6. CASE ReadDone
  BY <1>0, <1>6 DEF ReadDone, WakeupOwed
<1>7. CASE ReadSleep
  BY <1>0, <1>7 DEF ReadSleep, WakeupOwed
<1>8. ASSUME NEW p \in Procs, Interrupt(p)
      PROVE  WakeupOwed'
  BY <1>0, <1>8 DEF Interrupt, WakeupOwed
<1>9. ASSUME NEW p \in Procs, Resume(p)
      PROVE  WakeupOwed'
  BY <1>0, <1>9 DEF Resume, WakeupOwed, waitVars
<1>10. ASSUME NEW p \in Procs, Restart(p)
       PROVE  WakeupOwed'
  BY <1>0, <1>10 DEF Restart, Leave, WakeupOwed, waitVars
<1>11. CASE UNCHANGED rbVars
  BY <1>0, <1>11 DEF rbVars, callVars, waitVars, WakeupOwed
<1> QED
  BY <1>1, <1>2, <1>3, <1>4, <1>5, <1>6, <1>7, <1>8, <1>9, <1>10, <1>11 DEF Next

LEMMA RingBufferInvariance == Spec => []RInv
<1>1. Init => RInv
  BY SizeAssumption, RingBufferAssumption DEF Init, RingInit, RInv, TypeOK, RingTypeOK, WakeupOwed
<1>2. RInv /\ [Next]_rbVars => RInv'
  BY TypeStep, OwedStep DEF RInv
<1> QED  BY <1>1, <1>2, PTL DEF Spec

(* ringbuffer_write and ringbuffer_read lose no wakeup, for any buffer     *)
(* size, any number of readers and writers and any transfer sizes: between *)
(* calls a reader sleeps only while the buffer is empty and a writer only  *)
(* while it is full.                                                       *)
THEOREM NoLostWakeup == Spec => []NobodyForgotten
<1>1. RInv => NobodyForgotten
  BY RingBufferAssumption DEF RInv, WakeupOwed, NobodyForgotten
<1> QED  BY <1>1, RingBufferInvariance, PTL

(* The pointers of the ring buffer stay inside it, and every call is in a  *)
(* state of the code.                                                      *)
THEOREM RingBufferTypeCorrect == Spec => []TypeOK
BY RingBufferInvariance, PTL DEF RInv

(* The ring buffer implements a FIFO channel of Size - 1 bytes, for every  *)
(* size and every set of byte values: each copied byte is one Send or one  *)
(* Receive and nothing else changes what is in the buffer.                 *)
THEOREM RingIsChannel == Spec => ImplementsChannel
<1>1. Init => Stream!Init
  <2> SUFFICES ASSUME Init PROVE Contents = << >> /\ last \in Bytes
    BY DEF Stream!Init
  <2>1. read_available = 0
    BY DEF Init, RingInit, read_available
  <2> QED  BY <2>1 DEF Init, Contents
<1>2. TypeOK /\ TypeOK' /\ [Next]_rbVars => [Stream!Next]_<<Contents, last>>
  <2> SUFFICES ASSUME TypeOK, TypeOK', [Next]_rbVars
               PROVE  [Stream!Next]_<<Contents, last>>
    OBVIOUS
  <2>0. UNCHANGED ringVars => UNCHANGED Contents
    BY DEF ringVars, Contents, read_available, Slot
  <2> DEFINE r == read_ptr
             w == write_ptr
  <2>1. /\ buffer \in [Ptrs -> Bytes] /\ r \in Ptrs /\ w \in Ptrs
        /\ read_available = Held(r, w)
        /\ write_available = Size - 1 - read_available
        /\ Contents = Stored(buffer, r, w)
    BY Available DEF TypeOK, RingTypeOK, Ptrs
  <2>2. Contents' = Stored(buffer', read_ptr', write_ptr')
    <3>1. read_available' = Held(read_ptr', write_ptr')
      BY DEF read_available, Held
    <3> QED  BY <3>1 DEF Contents, Stored, Slot, At
  <2>3. ASSUME NEW b \in Bytes, WriteByte(b)
        PROVE  Stream!Send(b)
    <3>1. Held(r, w) \in Ptrs /\ Len(Contents) = Held(r, w)
      BY <2>1, StoredSeq
    <3>2. Held(r, w) < Size - 1
      BY <2>1, <2>3, <3>1, SizeAssumption DEF WriteByte, Ptrs
    <3>3. Contents' = Append(Contents, b)
      BY <2>1, <2>2, <2>3, <3>2, StoredPut DEF WriteByte, PutByte
    <3> QED  BY <2>3, <3>1, <3>2, <3>3 DEF WriteByte, Stream!Send
  <2>4. ASSUME ReadByte
        PROVE  Stream!Receive
    <3>1. Held(r, w) # 0
      BY <2>1, <2>4 DEF ReadByte
    <3>2. /\ Contents # << >>
          /\ Head(Contents) = buffer[read_ptr]
          /\ Contents' = Tail(Contents)
      BY <2>1, <2>2, <2>4, <3>1, StoredTake DEF ReadByte, TakeByte
    <3> QED  BY <2>4, <3>2 DEF ReadByte, NextByte, Stream!Receive
  <2>5. CASE UNCHANGED <<ringVars, last>>
    BY <2>0, <2>5
  <2>6. ASSUME ~(\E b \in Bytes : WriteByte(b)), ~ReadByte
        PROVE  UNCHANGED <<ringVars, last>>
    BY <2>6 DEF Next, Start, WriteDone, WriteSleep, ReadDone, ReadSleep, Interrupt, Resume,
                Restart, rbVars
  <2> QED  BY <2>3, <2>4, <2>5, <2>6 DEF Stream!Next
<1> QED
  BY <1>1, <1>2, RingBufferInvariance, PTL DEF Spec, RInv, ImplementsChannel, Stream!Spec
=============================================================================
