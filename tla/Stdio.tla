------------------------------- MODULE Stdio --------------------------------
(***************************************************************************)
(* Streams of the C library (libc/src/stdio/stdio.c) on a file: buffered   *)
(* reads and writes, seeks and the kernel's file offset below them, for a  *)
(* program that seeks or flushes between reading and writing, as C asks.   *)
(* Bytes are numbers, all different, so that a byte read twice or skipped  *)
(* is seen; Newline is the exception.  pos and content are what a stream   *)
(* without buffers would have.                                             *)
(* Wanted_Behind is a faulty variant of the definition that follows it.    *)
(***************************************************************************)
EXTENDS Integers, Sequences, SequencesExt

CONSTANTS Data,       \* the file at first, a sequence of bytes
          BUFSIZE,
          Newline,
          MaxWritten, \* bound: bytes written
          MaxOps,     \* bound: calls
          Fails       \* whether read and write may fail

StdioAssumption == BUFSIZE > 0 /\ MaxWritten \in Nat /\ MaxOps \in Nat /\ Fails \in BOOLEAN

VARIABLES
  s,         \* the stream and its descriptor
  last,      \* the direction of the last transfer: "none", "read" or "write"
  pos, content,
  result, expected,  \* what the last call returned, and should have
  middle,    \* history: a read into the middle of the buffer
  lost,      \* history: a write failed, or a buffer was dropped
  written, calls

vars == <<s, last, pos, content, result, expected, middle, lost, written, calls>>

(* fdopen; FILE, with the bytes of write_buffer up to write_ptr            *)
Init ==
  /\ s = [file |-> Data, offset |-> 0,                          \* the descriptor's
          buf |-> [i \in 0..BUFSIZE-1 |-> 0], size |-> BUFSIZE,
          read_ptr |-> 0, read_buffer_offset |-> 0, available |-> 0, real_offset |-> 0,
          out |-> << >>, eof |-> FALSE]
  /\ last = "none" /\ pos = 0 /\ content = Data
  /\ result = << >> /\ expected = << >>
  /\ middle = FALSE /\ lost = FALSE /\ written = 0 /\ calls = 0

(***************************************************************************)
(* The system calls                                                        *)
(***************************************************************************)
Put(f, off, bytes) ==
  [i \in 1..off |-> IF i <= Len(f) THEN f[i] ELSE 0] \o bytes
    \o SubSeq(f, off + Len(bytes) + 1, Len(f))
Get(f, off, n) == SubSeq(f, off + 1, IF off + n > Len(f) THEN Len(f) ELSE off + n)

(* sys_write, or one that fails and writes nothing.                        *)
SysWrite(t, bytes, ok) ==
  IF ok THEN [t EXCEPT !.file = Put(@, t.offset, bytes), !.offset = @ + Len(bytes)] ELSE t

(* sys_seek                                                                *)
SysSeek(t, o, whence) ==
  [t EXCEPT !.offset = CASE whence = "cur" -> @ + o [] whence = "set" -> o [] whence = "end" -> Len(t.file) + o]

(***************************************************************************)
(* stdio.c                                                                 *)
(***************************************************************************)

(* fflush: write_ptr goes back to 0 whatever write returned.               *)
Flushed(t, ok) == [SysWrite(t, t.out, ok) EXCEPT !.out = << >>]

Wanted_Behind(t, o, whence) == <<o, whence>>

(* Where fseek really goes: what was read ahead does not count.            *)
Wanted(t, o, whence) ==
  IF t.read_ptr > 0 /\ whence = "cur" THEN <<o + t.real_offset + t.read_ptr, "set">> ELSE <<o, whence>>

Sought(t, o, whence, ok) ==
  LET w == Wanted(t, o, whence)
      u == [Flushed(t, ok) EXCEPT !.read_ptr = 0, !.available = 0, !.eof = FALSE]
  IN SysSeek(u, w[1], w[2])

(* The refill in fread; a read that fails leaves the stream where the seek *)
(* put it.                                                                 *)
Filled(t, ok) ==
  LET start == IF t.read_buffer_offset = t.size THEN 0 ELSE t.read_buffer_offset
      u == Sought(t, 0, "cur", TRUE)
      bytes == Get(u.file, u.offset, t.size - start)
      r == Len(bytes) IN
  IF ~ok THEN [u EXCEPT !.real_offset = u.offset, !.read_buffer_offset = start]
  ELSE [u EXCEPT !.buf = [i \in 0..BUFSIZE-1 |-> IF i \in start..start+r-1 THEN bytes[i - start + 1] ELSE @[i]],
            !.offset = @ + r, !.real_offset = u.offset,
            !.read_ptr = start, !.read_buffer_offset = start + r, !.available = r]

Middle(t) == t.available = 0 /\ t.read_buffer_offset \notin {0, t.size}

(* One turn of the loop of fread on <<stream, bytes so far, stopped, the   *)
(* buffer was filled in the middle, a read failed>>; lines: for fgets,     *)
(* where a newline stops too and an error is taken for the end.            *)
ReadByte(a, lines, ok) ==
  LET refill == a[1].available = 0
      t == IF refill THEN Filled(a[1], ok) ELSE a[1]
      mid == a[4] \/ (ok /\ Middle(a[1])) IN
  IF a[3] THEN a
  ELSE IF t.available = 0
  THEN <<[t EXCEPT !.eof = @ \/ ok \/ lines], a[2], TRUE, mid, ~ok>>
  ELSE <<[t EXCEPT !.read_ptr = @ + 1, !.available = @ - 1], Append(a[2], t.buf[t.read_ptr]),
         lines /\ t.buf[t.read_ptr] = Newline, mid, FALSE>>

(* The read of turn bad fails, if there is one.                            *)
Turns(t, n, lines, bad) ==
  FoldLeft(LAMBDA a, k : ReadByte(a, lines, k # bad), <<t, << >>, FALSE, FALSE, FALSE>>,
           [k \in 1..n |-> k])

(* Without buffers read is called as it is, and its error is the count.    *)
Unbuffered(t, n, ok) ==
  LET bytes == IF ok THEN Get(t.file, t.offset, n) ELSE << >>
  IN  <<[t EXCEPT !.offset = @ + Len(bytes)], bytes, FALSE, FALSE, ~ok>>

(* What a read should have returned: all of e, or as much as came before   *)
(* the error.                                                              *)
Due(a, e) == IF a[5] THEN SubSeq(e, 1, Len(a[2])) ELSE e

Returns(res, exp) == result' = res /\ expected' = exp /\ calls' = calls + 1 /\ calls < MaxOps

fread(n, bad) ==
  LET a == IF s.size = 0 THEN Unbuffered(s, n, bad = 0) ELSE Turns(s, n, FALSE, bad)
      e == Due(a, Get(content, pos, n)) IN
  /\ last # "write"
  /\ s' = a[1] /\ middle' = (middle \/ a[4])
  /\ Returns(a[2], e)
  /\ last' = "read" /\ pos' = pos + Len(e)
  /\ UNCHANGED <<content, lost, written>>

(* fgets: bytes until a newline or n - 1 of them; a line that the end of   *)
(* the file cuts off is returned as it is.                                 *)
fgets(n, bad) ==
  LET a == Turns(s, n - 1, TRUE, bad)
      rest == Get(content, pos, n - 1)
      nl == {j \in DOMAIN rest : rest[j] = Newline}
      line == IF nl = {} THEN rest ELSE SubSeq(rest, 1, CHOOSE j \in nl : \A i \in nl : j <= i)
      e == Due(a, line) IN
  /\ last # "write" /\ s.size > 0
  /\ s' = a[1] /\ middle' = (middle \/ a[4])
  /\ Returns(a[2], e)
  /\ last' = "read" /\ pos' = pos + Len(e)
  /\ UNCHANGED <<content, lost, written>>

(* The loop of fwrite: a full buffer and a newline flush.                  *)
WriteByte(t, b, ok) ==
  LET u == [t EXCEPT !.out = Append(@, b)]
  IN IF Len(u.out) = t.size \/ b = Newline THEN Flushed(u, ok) ELSE u

fwrite(bytes, ok) ==
  LET new == IF s.size = 0 THEN SysWrite(s, bytes, ok)
             ELSE FoldLeft(LAMBDA t, b : WriteByte(t, b, ok), s, bytes) IN
  /\ last # "read" /\ written + Len(bytes) <= MaxWritten
  /\ s' = new
  /\ content' = Put(content, pos, bytes) /\ pos' = pos + Len(bytes)
  /\ last' = "write" /\ written' = written + Len(bytes)
  /\ lost' = (lost \/ ~ok)
  /\ Returns(<<Len(bytes)>>, <<Len(bytes)>>)
  /\ UNCHANGED middle

fflush(ok) ==
  /\ s' = Flushed(s, ok) /\ lost' = (lost \/ (~ok /\ s.out # << >>))
  /\ last' = IF last = "write" THEN "none" ELSE last
  /\ Returns(<< >>, << >>)
  /\ UNCHANGED <<pos, content, middle, written>>

(* fseek; ftell is fseek(0, SEEK_CUR).                                     *)
fseek(o, whence, ok) ==
  LET new == Sought(s, o, whence, ok)
      p == CASE whence = "cur" -> pos + o [] whence = "set" -> o [] whence = "end" -> Len(content) + o IN
  /\ p \in 0..Len(content)
  /\ s' = new /\ pos' = p /\ last' = "none"
  /\ lost' = (lost \/ (~ok /\ s.out # << >>))
  /\ Returns(<<new.offset>>, <<p>>)
  /\ UNCHANGED <<content, middle, written>>

rewind(ok) ==
  /\ s' = [Sought(s, 0, "set", ok) EXCEPT !.read_buffer_offset = 0]
  /\ pos' = 0 /\ last' = "none"
  /\ lost' = (lost \/ (~ok /\ s.out # << >>))
  /\ Returns(<< >>, << >>)
  /\ UNCHANGED <<content, middle, written>>

(* setbuf(stream, NULL)                                                    *)
setbuf ==
  /\ lost' = (lost \/ s.out # << >> \/ s.available > 0)
  /\ s' = [s EXCEPT !.read_ptr = 0, !.read_buffer_offset = 0, !.available = 0, !.out = << >>, !.size = 0]
  /\ Returns(<< >>, << >>)
  /\ UNCHANGED <<last, pos, content, middle, written>>

Lines == {<<10 + written>>, <<10 + written, Newline>>, <<10 + written, 11 + written, 12 + written>>}
Oks == IF Fails THEN BOOLEAN ELSE {TRUE}
Bad(n) == IF Fails THEN 0..n ELSE {0}

(* After a miscount or a loss nothing is claimed: the model ends there.    *)
Next ==
  /\ ~middle /\ ~lost
  /\ \/ \E n \in 1..BUFSIZE + 1 : \E bad \in Bad(n) : fread(n, bad)
     \/ \E n \in 2..BUFSIZE + 2 : \E bad \in Bad(n - 1) : fgets(n, bad)
     \/ \E b \in Lines, ok \in Oks : fwrite(b, ok)
     \/ \E ok \in Oks : fflush(ok) \/ rewind(ok)
     \/ \E o \in {0, 1}, whence \in {"cur", "set"}, ok \in Oks : fseek(o, whence, ok)
     \/ \E ok \in Oks : fseek(0, "end", ok)
     \/ setbuf

Spec == Init /\ [][Next]_vars

(* Every call returns what it would on a stream without buffers, up to the *)
(* read that fails, unless a short read left the next one to begin in the  *)
(* middle of the buffer, from where fseek miscounts, or data were dropped. *)
StreamIsFile == middle \/ lost \/ result = expected

(* All that was written is in the file or waits in the buffer for the      *)
(* place where the descriptor stands.                                      *)
NothingUnwritten == middle \/ lost \/ Put(s.file, s.offset, s.out) = content
=============================================================================
