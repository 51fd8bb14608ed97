-------------------------------- MODULE Ata ---------------------------------
(***************************************************************************)
(* The ATA driver (modules/ata/main.c): reads and writes of the disks of   *)
(* one bus by several processes.  A process holds the drive's mutex while  *)
(* it programs the bus and sleeps until the interrupt; the two drives of a *)
(* bus have a mutex each and share the bus and its bus master.             *)
(*                                                                         *)
(* Kernel code runs with interrupts off on one CPU, so everything between  *)
(* two sleeps is one step.  Disks are sequences of sectors; a request is   *)
(* in bytes.  A request that runs the kernel into an endless loop or past  *)
(* a buffer halts the model.  The mutex is Mutex.tla's, taken in one step. *)
(* Woken_Other is a faulty variant of the definition that follows it.      *)
(***************************************************************************)
EXTENDS Integers, Sequences, FiniteSets, TLC

CONSTANTS Procs, None,
          Drives,        \* the drives of the bus: 0 the master, 1 the slave
          Sectors,       \* sectors of a drive
          SectorSize,    \* 512
          Prd,           \* BYTES_PER_PRD in sectors, 128
          MaxCount,      \* 256: ATA_SECCOUNT is one byte, 0 means 256
          Offsets, Sizes,\* of requests, in bytes
          Faults,        \* whether the disk fails and signals arrive
          MaxOps         \* bound: requests in all

AtaAssumption ==
  /\ None \notin Procs /\ SectorSize > 1 /\ Prd > 0 /\ MaxCount > 0 /\ MaxOps \in Nat
  /\ Faults \in BOOLEAN /\ Drives \subseteq {0, 1}

VARIABLES
  disk,        \* disk[d][s]: the value in sector s (from 1) of drive d
  lock,        \* lock[d]: who holds drive_t.lock
  blocked,     \* blocked[d]: drive_t.blocked_processes
  command,     \* the command the bus executes, or None
  selected,    \* the drive in the ATA_DRIVE register
  irq,         \* an interrupt is pending: "no", "done" or "error"
  pc,          \* "idle", "lock" (in or before mutex_lock), "sleep", "woken"
  op,          \* op[p]: the request of p
  internal,    \* internal[p]: internal_buffer, a sequence of sectors
  cpu,         \* the process that runs on without a sleep, or None
  halted,      \* "no", "hung" (an endless loop) or "overrun" (past a buffer)
  ops,
  seen,        \* history: seen[p][s]: values of the sector while p's request runs
  disturbed    \* history: an I/O error, a signal in a transfer, or both drives in use

vars == <<disk, lock, blocked, command, selected, irq, pc, op, internal, cpu, halted, ops, seen, disturbed>>
bus == <<command, selected, irq, blocked>>

Stale == 0                       \* what a buffer holds that no transfer filled
Blank(d, s) == -(d * Sectors + s)\* what the disk holds before it is written
Idle == [kind |-> "none"]

(* detect_drives, ata_initialize                                           *)
Init ==
  /\ disk = [d \in Drives |-> [s \in 1..Sectors |-> Blank(d, s)]]
  /\ lock = [d \in Drives |-> None] /\ blocked = [d \in Drives |-> {}]
  /\ command = None /\ selected \in Drives /\ irq = "no"
  /\ pc = [p \in Procs |-> "idle"] /\ op = [p \in Procs |-> Idle]
  /\ internal = [p \in Procs |-> << >>]
  /\ cpu = None /\ halted = "no" /\ ops = 0
  /\ seen = [p \in Procs |-> << >>] /\ disturbed = FALSE

(***************************************************************************)
(* Requests                                                                *)
(***************************************************************************)
(* dma_size: last_sector is unsigned, so a part_offset larger than it      *)
(* counts as a sector of its own.                                          *)
DmaSize(offset, size) ==
  LET part == offset % SectorSize
      last == (size % SectorSize) - part
  IN size \div SectorSize + (IF last # 0 THEN 1 ELSE 0) + (IF part > 0 THEN 1 ELSE 0)

(* A read ends at the end of the disk; a write is not clipped, and one     *)
(* that reaches past the end is left out here.                             *)
Clipped(offset, size) ==
  IF size + offset >= Sectors * SectorSize THEN Sectors * SectorSize - offset ELSE size

ReadRequest(d, offset, asked) ==
  LET size == Clipped(offset, asked)
      room == IF size <= Prd * SectorSize THEN size ELSE Prd * SectorSize IN
  [kind |-> "read", drive |-> d, lba |-> offset \div SectorSize,
   first |-> offset \div SectorSize, size |-> size,
   left |-> DmaSize(offset, size), per |-> room \div SectorSize, data |-> << >>,
   whole |-> offset % SectorSize = 0 /\ size % SectorSize = 0]

WriteRequest(d, offset, size) ==
  [kind |-> "write", drive |-> d, lba |-> offset \div SectorSize,
   first |-> offset \div SectorSize, size |-> size,
   left |-> DmaSize(offset, size), per |-> DmaSize(offset, size),
   data |-> [i \in 1..DmaSize(offset, size) |-> ops + 1],
   whole |-> offset % SectorSize = 0 /\ size % SectorSize = 0]

(* The sectors of the next transfer.                                       *)
Count(o) == IF o.left < o.per THEN o.left ELSE o.per

Begin(p, r) ==
  /\ pc[p] = "idle" /\ cpu = None /\ halted = "no" /\ ops < MaxOps
  /\ r.size > 0
  /\ ops' = ops + 1
  /\ op' = [op EXCEPT ![p] = r]
  /\ seen' = [seen EXCEPT ![p] = [s \in 1..Sectors |-> {disk[r.drive][s]}]]
  /\ halted' = IF r.left > 0 /\ r.per = 0 THEN "hung" ELSE halted
  /\ internal' = [internal EXCEPT ![p] = IF r.kind = "write" THEN r.data ELSE << >>]
  /\ pc' = [pc EXCEPT ![p] = "lock"]
  /\ UNCHANGED <<disk, lock, bus, cpu, disturbed>>

ata_read(p, d, offset, size) ==
  /\ offset <= Sectors * SectorSize
  /\ Begin(p, ReadRequest(d, offset, size))

ata_write(p, d, offset, size) ==
  /\ offset + size <= Sectors * SectorSize
  /\ Begin(p, WriteRequest(d, offset, size))

(***************************************************************************)
(* One transfer                                                            *)
(***************************************************************************)
(* What the registers are given.                                           *)
Command(p, o) == [proc |-> p, kind |-> o.kind, drive |-> o.drive, lba |-> o.lba,
                  count |-> ((Count(o) - 1) % MaxCount) + 1]

(* The mutex, __ata_prepare_prdt, the registers and the command, to the    *)
(* sleep.  A partial write first reads 512 sectors into a buffer that has  *)
(* room for the request.  The bus master's status is cleared, so a pending *)
(* interrupt finds nothing to do.  If the bus is still busy, ata_wait      *)
(* waits with the bus master stopped: the old command ends with or without *)
(* an interrupt.                                                           *)
Transfer(p) ==
  LET o == op[p] IN
  /\ pc[p] = "lock" /\ cpu \in {None, p} /\ halted = "no"
  /\ lock[o.drive] = None
  /\ IF o.kind = "write" /\ ~o.whole
       THEN /\ halted' = "overrun"
            /\ UNCHANGED <<lock, bus, pc, cpu, disturbed>>
       ELSE /\ lock' = [lock EXCEPT ![o.drive] = p]
            /\ selected' = o.drive
            /\ command' = Command(p, o)
            /\ irq' \in IF command = None THEN {"no"} ELSE {"no", "done"}
            /\ disturbed' = (disturbed \/ command # None \/ irq # "no")
            /\ blocked' = [blocked EXCEPT ![o.drive] = @ \cup {p}]
            /\ pc' = [pc EXCEPT ![p] = "sleep"]
            /\ cpu' = None
            /\ UNCHANGED halted
  /\ UNCHANGED <<disk, op, internal, ops, seen>>

(* Beyond the end of the disk there is nothing to read.                    *)
Sector(d, s) == IF s <= Sectors THEN disk[d][s] ELSE Stale

(* The disk executes the command.                                          *)
Complete ==
  LET c == command
      range == c.lba + 1 .. c.lba + c.count
      new == [s \in 1..Sectors |-> IF c.kind = "write" /\ s \in range THEN internal[c.proc][s - c.lba]
                                   ELSE disk[c.drive][s]] IN
  /\ cpu = None /\ halted = "no" /\ command # None
  /\ IF c.kind = "write" /\ Len(internal[c.proc]) < c.count THEN UNCHANGED <<disk, seen>>
     ELSE /\ disk' = [disk EXCEPT ![c.drive] = new]
          /\ seen' = [p \in Procs |-> IF op[p].kind # "none" /\ op[p].drive = c.drive
                                      THEN [s \in 1..Sectors |-> seen[p][s] \cup {new[s]}] ELSE seen[p]]
  /\ internal' = IF c.kind = "read" /\ pc[c.proc] = "sleep"
                 THEN [internal EXCEPT ![c.proc] = [i \in 1..c.count |-> Sector(c.drive, c.lba + i)]]
                 ELSE internal
  /\ command' = None /\ irq' = "done"
  /\ UNCHANGED <<lock, blocked, selected, pc, op, cpu, halted, ops, disturbed>>

Fail ==
  /\ Faults /\ cpu = None /\ halted = "no" /\ command # None
  /\ command' = None /\ irq' = "error" /\ disturbed' = TRUE
  /\ UNCHANGED <<disk, lock, blocked, selected, pc, op, internal, cpu, halted, ops, seen>>

Woken_Other(d) == UNION {blocked[e] : e \in Drives \ {d}}

(* ata_get_device and k_proc_process_wakeup_queue                          *)
Woken(d) == blocked[d]

(* ata_handle_irq: after an error nobody is woken.                         *)
Irq ==
  /\ cpu = None /\ halted = "no" /\ irq # "no"
  /\ irq' = "no"
  /\ IF irq = "error" THEN UNCHANGED <<pc, blocked>>
     ELSE /\ pc' = [p \in Procs |-> IF p \in Woken(selected) THEN "woken" ELSE pc[p]]
          /\ blocked' = [blocked EXCEPT ![selected] = {}]
  /\ UNCHANGED <<disk, lock, command, selected, op, internal, cpu, halted, ops, seen, disturbed>>

(* A signal ends the sleep and nothing looks at that.                      *)
Signal(p) ==
  /\ Faults /\ cpu = None /\ halted = "no" /\ pc[p] = "sleep"
  /\ pc' = [pc EXCEPT ![p] = "woken"]
  /\ blocked' = [d \in Drives |-> blocked[d] \ {p}]
  /\ disturbed' = TRUE
  /\ UNCHANGED <<disk, lock, command, selected, irq, op, internal, cpu, halted, ops, seen>>

Moved(o, n) == o.lba + n

(* The end of a transfer: the mutex is given back and a read copies whole  *)
(* sectors to the caller, whatever it asked for.                           *)
Resume(p) ==
  LET o == op[p]
      n == Count(o)
      got == [i \in 1..n |-> IF i \in DOMAIN internal[p] THEN internal[p][i] ELSE Stale]
      data == IF o.kind = "read" THEN o.data \o got ELSE o.data
      more == o.left > n IN
  /\ pc[p] = "woken" /\ cpu = None /\ halted = "no"
  /\ lock' = [lock EXCEPT ![o.drive] = None]
  /\ halted' = IF o.kind = "read" /\ Len(data) * SectorSize > o.size THEN "overrun" ELSE halted
  /\ op' = [op EXCEPT ![p] = [o EXCEPT !.data = data, !.left = @ - n,
                                       !.lba = IF more THEN Moved(o, n) ELSE @]]
  /\ pc' = [pc EXCEPT ![p] = IF more THEN "lock" ELSE "idle"]
  /\ cpu' = IF more THEN p ELSE None
  /\ internal' = [internal EXCEPT ![p] = << >>]
  /\ UNCHANGED <<disk, bus, ops, seen, disturbed>>

Step(p) == Transfer(p) \/ Resume(p)

Next ==
  \/ \E p \in Procs : Step(p) \/ Signal(p)
  \/ \E p \in Procs, d \in Drives, offset \in Offsets, size \in Sizes :
       ata_read(p, d, offset, size) \/ ata_write(p, d, offset, size)
  \/ Complete \/ Fail \/ Irq

(* The disk finishes its commands, interrupts are delivered and the        *)
(* scheduler runs who is ready.                                            *)
Fairness == WF_vars(Complete) /\ WF_vars(Irq) /\ \A p \in Procs : WF_vars(Step(p))

Spec == Init /\ [][Next]_vars /\ Fairness

(***************************************************************************)
(* Properties                                                              *)
(***************************************************************************)
Finished(p) == pc[p] = "idle" /\ op[p].kind # "none" /\ halted = "no"

(* A finished read returned, for every sector of the request, a value that *)
(* the sector had meanwhile; a finished write of at most MaxCount sectors  *)
(* reached all of them.  Both unless a signal ended the sleep of a         *)
(* transfer, the disk reported an error, or the other drive of the bus was *)
(* in use: then what the buffer held before is returned as data.           *)
TransfersAreExact ==
  \A p \in Procs : Finished(p) /\ ~disturbed =>
    LET o == op[p]
        n == o.size \div SectorSize IN
    o.kind = "read" \/ n <= MaxCount =>
      /\ Len(o.data) = n
      /\ \A i \in 1..n : o.data[i] \in seen[p][o.first + i]

(* Only a request for part of a sector hangs the driver or copies past a   *)
(* buffer.                                                                 *)
HaltNeedsPart == halted # "no" => \E p \in Procs : op[p].kind # "none" /\ ~op[p].whole

(* Every request ends, unless one of the above happened.                   *)
RequestsEnd == \A p \in Procs : pc[p] # "idle" ~> pc[p] = "idle" \/ disturbed \/ halted # "no"
=============================================================================
