-------------------------------- MODULE Tty ---------------------------------
(***************************************************************************)
(* A pseudo terminal (kernel/src/dev/tty.c): the line discipline between   *)
(* the two ring buffers.  Bytes written to the master are typed input;     *)
(* they edit the line, are echoed into out_buffer and reach in_buffer when *)
(* the line is flushed.  Both buffers are the bounded FIFO that RingBuffer *)
(* implements (module Channel).  A put into a full buffer sleeps, so the   *)
(* handling of one typed byte is cut into puts: `todo' is the echo, and in *)
(* raw mode then the byte, still to be put; erase what a running           *)
(* __k_dev_tty_erase has still to take off; and flush[a] the next index of *)
(* a running __k_dev_tty_line_flush.  The actors are the process that      *)
(* types, one that calls ioctl, and one that prints.                       *)
(* Characters are named; c_cc has its values of __k_dev_tty_sane_ts.       *)
(* Signals to the typing process (a put is then lost) and the queues of    *)
(* select, which nothing ever wakes, are left out.                         *)
(* FlushByte_Last is a faulty variant of the definition that follows it.   *)
(***************************************************************************)
EXTENDS Integers, Sequences, SequencesExt

CONSTANTS Chars,          \* what is typed
          Settings,       \* the termios values programs set
          InSize, OutSize, LineSize,   \* PTY_BUFFER_SIZE
          MaxTyped        \* bound: bytes typed

Flags == {"ICRNL", "INLCR", "IGNCR", "OPOST", "ONLCR", "OCRNL", "ONLRET", "ECHO",
          "ECHOE", "ECHOK", "ECHONL", "ECHOCTL", "ICANON", "ISIG", "IEXTEN"}

TtyAssumption == Settings \subseteq SUBSET Flags /\ LineSize \in Nat \ {0}

Sane == {"ICRNL", "ONLCR", "OPOST", "ECHO", "ECHOE", "ECHOK", "ICANON", "ISIG", "IEXTEN"}
Control == {"nl", "cr", "erase", "werase", "kill", "eof", "lnext", "intr", "bs"}

VARIABLES
  ts,             \* pty->ts, as the set of its flags
  next_ts,        \* what a TCSETS that still flushes will set
  nextl,          \* flags & TTY_FLAG_NEXTL
  line_buffer, line_length,
  in_buffer, out_buffer,
  todo,           \* <<buffer, character>>: the puts the typing process has still to do
  erase,          \* characters to take off, or Word: up to the last space
  flush,          \* [actor -> next index into line_buffer, 0: not flushing]
  typed,          \* number of bytes typed
  committed,      \* history: what __k_dev_tty_line_flush was handed and the
                  \* slave has not read
  shown,          \* history: the cells a screen shows, since the last line
  overlap,        \* history: a flush met another one, an edit or a raw byte
  noise,          \* history: something was put out that is not in the line
  wild            \* line_length went below zero: the model ends

bufVars == <<in_buffer, out_buffer>>
history == <<committed, shown, overlap, noise>>
vars == <<ts, next_ts, nextl, line_buffer, line_length, bufVars, todo, erase, flush, typed,
          history, wild>>

line == SubSeq(line_buffer, 1, line_length)
Flushing == \E a \in DOMAIN flush : flush[a] > 0

Prompt == <<"$">>
Word == -1

Init ==
  /\ ts = Sane /\ next_ts = Sane /\ nextl = FALSE
  /\ line_buffer = << >> /\ line_length = 0
  /\ in_buffer = << >> /\ out_buffer = << >> /\ todo = << >>
  /\ flush = [a \in {"type", "ioctl"} |-> 0]
  /\ typed = 0 /\ committed = << >> /\ shown = Prompt
  /\ overlap = FALSE /\ noise = FALSE /\ erase = 0 /\ wild = FALSE

(* __k_dev_tty_pty_process_output_char: what one character becomes.        *)
Output(c) ==
  LET d == IF c = "nl" /\ "ONLCR" \notin ts /\ "OCRNL" \in ts THEN "cr" ELSE c IN
  IF "OPOST" \notin ts THEN <<c>>
  ELSE (IF c = "nl" /\ "ONLCR" \in ts THEN <<"cr">> ELSE << >>)
       \o (IF d = "cr" /\ "ONLRET" \in ts THEN << >> ELSE <<d>>)

Puts(b, s) == [i \in DOMAIN s |-> <<b, s[i]>>]
Outputs(s) == FlattenSeq([i \in DOMAIN s |-> Puts("out", Output(s[i]))])

(* '^' and ('@' + c) % 128, whichever letter that is.                      *)
Caret(c) == <<"^", "@">>
EchoOf(c) == IF "ECHOCTL" \in ts /\ c \in Control THEN Caret(c) ELSE <<c>>

(* What __k_dev_tty_erase echoes for one character of the line.            *)
Backspaces(c) == [i \in DOMAIN EchoOf(c) |-> "bs"]

(* What a screen shows after s: a control character takes no cell.         *)
Screen(s) ==
  FoldLeft(LAMBDA cells, c : CASE c = "bs" -> (IF cells = << >> THEN << >> ELSE Front(cells))
                               [] c \in {"nl", "cr"} -> Prompt
                               [] OTHER -> Append(cells, c), shown, s)

(* The translation of ISTRIP, IGNCR, INLCR and ICRNL; "" is dropped.       *)
Translate(c) ==
  IF "IGNCR" \in ts /\ c = "cr" THEN ""
  ELSE IF "INLCR" \in ts /\ c = "nl" THEN "cr"
  ELSE IF "ICRNL" \in ts /\ c = "cr" THEN "nl"
  ELSE c

Nothing == [keep |-> line_length, erase |-> 0, add |-> << >>, echo |-> << >>, put |-> << >>,
            flush |-> FALSE, nextl |-> FALSE, noise |-> FALSE]

(* A call of __k_dev_tty_erase, or a loop of them.                         *)
Erased(n) == [Nothing EXCEPT !.erase = IF n > line_length THEN line_length ELSE n]
Refused(c) == [Nothing EXCEPT !.echo = Caret(c), !.noise = TRUE]

(* __k_dev_tty_line_putc: a full line takes nothing more.                  *)
LinePutc(c) == IF line_length < LineSize THEN <<c>> ELSE << >>

(* A character that goes into the line.                                    *)
Plain(c) ==
  LET e == IF "ECHO" \in ts THEN EchoOf(c)
           ELSE IF "ECHONL" \in ts /\ c = "nl" THEN <<c>> ELSE << >> IN
  IF c = "nl"    \* line_buffer[line_length - 1] = c, also when the line is full
    THEN [Nothing EXCEPT !.keep = IF LinePutc(c) = << >> THEN line_length - 1 ELSE line_length,
                         !.add = <<c>>, !.echo = e, !.flush = TRUE]
    ELSE [Nothing EXCEPT !.add = LinePutc(c), !.echo = e, !.noise = (LinePutc(c) = << >>)]

Canonical(c) ==
  CASE c = "lnext" /\ "IEXTEN" \in ts -> [Nothing EXCEPT !.nextl = TRUE, !.echo = <<"^", "bs">>]
    [] c = "erase" /\ "ECHOE" \in ts -> Erased(1)
    [] c = "werase" /\ "ECHOE" \in ts ->
         IF "IEXTEN" \in ts THEN Erased(Word) ELSE Refused(c)
    [] c \in {"erase", "werase"} /\ "ECHOE" \notin ts /\ "ECHOCTL" \in ts -> Refused(c)
    [] c = "kill" -> IF "ECHOK" \in ts THEN Erased(line_length)
                     ELSE IF "ECHOCTL" \in ts THEN Refused(c) ELSE Nothing
    [] c = "eof" -> [Nothing EXCEPT !.flush = TRUE]
    [] OTHER -> Plain(c)

(* __k_dev_tty_pty_process_input_char, without the puts themselves.        *)
Effect(c) ==
  IF nextl THEN [Nothing EXCEPT !.add = LinePutc(c),
                   !.echo = IF "ECHO" \in ts THEN EchoOf(c) ELSE << >>,
                   !.noise = (LinePutc(c) = << >> \/ ("ECHOCTL" \notin ts /\ c \in Control))]
  ELSE IF "ISIG" \in ts /\ c = "intr"
    THEN [Nothing EXCEPT !.noise = ("ECHOCTL" \in ts),
                         !.echo = IF "ECHOCTL" \in ts THEN Caret(c) ELSE << >>]
  ELSE LET d == Translate(c) IN
    IF d = "" THEN Nothing
    ELSE IF "ICANON" \in ts THEN Canonical(d)
    ELSE [Nothing EXCEPT !.echo = IF "ECHO" \in ts THEN <<d>> ELSE << >>, !.put = <<d>>,
                         !.noise = TRUE]

Idle == todo = << >> /\ erase = 0 /\ flush["type"] = 0

(* A byte is written to the master.                                        *)
Type(c) ==
  LET e == Effect(c)
      l == SubSeq(line, 1, e.keep) \o e.add IN
  /\ Idle /\ typed < MaxTyped
  /\ typed' = typed + 1
  /\ overlap' = (overlap \/ (Flushing /\ (\/ e.add # << >> \/ e.erase # 0
                                          \/ e.keep # line_length \/ e.flush)))
  /\ noise' = (noise \/ e.noise)
  /\ nextl' = e.nextl
  /\ line_buffer' = l \o SubSeq(line_buffer, Len(l) + 1, Len(line_buffer))
  /\ line_length' = Len(l)
  /\ todo' = Outputs(e.echo) \o Puts("in", e.put) /\ erase' = e.erase
  /\ shown' = IF noise' THEN Prompt ELSE IF e.flush THEN Prompt ELSE Screen(e.echo)
  /\ flush' = [flush EXCEPT !["type"] = IF e.flush /\ l # << >> THEN 1 ELSE 0]
  /\ committed' = IF overlap' THEN << >>
                  ELSE committed \o (IF e.flush THEN l ELSE << >>)
  /\ UNCHANGED <<ts, next_ts, bufVars, wild>>

(* PUTC_OUT, when there is room.                                           *)
PutOut ==
  /\ todo # << >> /\ todo[1][1] = "out" /\ Len(out_buffer) < OutSize - 1
  /\ out_buffer' = Append(out_buffer, todo[1][2])
  /\ todo' = Tail(todo)
  /\ UNCHANGED <<ts, next_ts, nextl, line_buffer, line_length, in_buffer, erase, flush, typed,
                 history, wild>>

(* PUTC_IN in raw mode, after the echo.                                    *)
PutIn ==
  /\ todo # << >> /\ todo[1][1] = "in" /\ Len(in_buffer) < InSize - 1
  /\ in_buffer' = Append(in_buffer, todo[1][2])
  /\ todo' = Tail(todo)
  /\ overlap' = (overlap \/ Flushing)
  /\ committed' = IF overlap' THEN << >> ELSE Append(committed, todo[1][2])
  /\ UNCHANGED <<ts, next_ts, nextl, line_buffer, line_length, out_buffer, erase, flush, typed,
                 shown, noise, wild>>

(* A turn of the loops that erase, once the echo of the turn before is     *)
(* out.  A word is erased as far as there is one; a count goes on below an *)
(* empty line, if a flush has emptied it meanwhile.                        *)
EraseTurn ==
  LET end == erase = Word /\ (line = << >> \/ Last(line) = " ") IN
  /\ erase # 0 /\ todo = << >>
  /\ IF end THEN erase' = 0 /\ UNCHANGED <<line_length, todo, shown, overlap, wild>>
     ELSE IF line_length = 0
     THEN wild' = TRUE /\ UNCHANGED <<erase, line_length, todo, shown, overlap>>
     ELSE LET echo == IF "ECHO" \in ts THEN Backspaces(Last(line)) ELSE << >> IN
          /\ line_length' = line_length - 1 /\ todo' = Outputs(echo)
          /\ erase' = IF erase = Word THEN Word ELSE erase - 1
          /\ shown' = IF noise THEN Prompt ELSE Screen(echo)
          /\ overlap' = (overlap \/ Flushing) /\ UNCHANGED wild
  /\ UNCHANGED <<ts, next_ts, nextl, line_buffer, bufVars, flush, typed, committed, noise>>

(* A program prints a character that needs no translation.                 *)
WriteSlave ==
  /\ Len(out_buffer) < OutSize - 1
  /\ out_buffer' = Append(out_buffer, "a")
  /\ noise' = TRUE /\ shown' = Prompt
  /\ UNCHANGED <<ts, next_ts, nextl, line_buffer, line_length, in_buffer, todo, erase, flush,
                 typed, committed, overlap, wild>>

FlushByte_Last(a) == line_buffer[line_length]

FlushByte(a) == IF flush[a] <= Len(line_buffer) THEN line_buffer[flush[a]] ELSE "garbage"

(* One round of __k_dev_tty_line_flush: PUTC_IN, when there is room.       *)
FlushPut(a) ==
  /\ flush[a] > 0 /\ (a = "type" => todo = << >>)
  /\ line_length > 0 /\ Len(in_buffer) < InSize - 1
  /\ in_buffer' = Append(in_buffer, FlushByte(a))
  /\ line_length' = line_length - 1
  /\ flush' = [flush EXCEPT ![a] = @ + 1]
  /\ UNCHANGED <<ts, next_ts, nextl, line_buffer, out_buffer, todo, erase, typed, history, wild>>

(* The flush ends; TCSETS then stores the new settings.                    *)
FlushEnd(a) ==
  /\ flush[a] > 0 /\ (a = "type" => todo = << >>) /\ line_length = 0
  /\ flush' = [flush EXCEPT ![a] = 0]
  /\ line_buffer' = IF \A b \in DOMAIN flush \ {a} : flush[b] = 0
                      THEN << >> ELSE line_buffer
  /\ ts' = IF a = "ioctl" THEN next_ts ELSE ts
  /\ noise' = (noise \/ (a = "ioctl"))
  /\ shown' = IF noise' THEN Prompt ELSE shown
  /\ UNCHANGED <<next_ts, nextl, line_length, bufVars, todo, erase, typed, committed, overlap,
                 wild>>

(* TCSETS: leaving ICANON flushes the line first.                          *)
SetTermios(new) ==
  /\ flush["ioctl"] = 0 /\ new # ts
  /\ next_ts' = new
  /\ IF "ICANON" \in ts /\ "ICANON" \notin new /\ line_length > 0
       THEN /\ flush' = [flush EXCEPT !["ioctl"] = 1]
            /\ overlap' = (overlap \/ Flushing \/ erase # 0)
            /\ committed' = IF overlap' THEN << >> ELSE committed \o line
            /\ UNCHANGED <<ts, noise>>
       ELSE /\ ts' = new
            /\ noise' = (noise \/ line # << >> \/ nextl)
            /\ UNCHANGED <<flush, committed, overlap>>
  /\ UNCHANGED <<nextl, line_buffer, line_length, bufVars, todo, erase, typed, shown, wild>>

ReadSlave ==
  /\ in_buffer # << >>
  /\ in_buffer' = Tail(in_buffer)
  /\ committed' = IF overlap THEN << >> ELSE Tail(committed)
  /\ UNCHANGED <<ts, next_ts, nextl, line_buffer, line_length, out_buffer, todo, erase, flush,
                 typed, shown, overlap, noise, wild>>

ReadMaster ==
  /\ out_buffer # << >> /\ out_buffer' = Tail(out_buffer)
  /\ UNCHANGED <<ts, next_ts, nextl, line_buffer, line_length, in_buffer, todo, erase, flush,
                 typed, history, wild>>

Next ==
  /\ ~wild
  /\ \/ \E c \in Chars : Type(c)
     \/ PutOut \/ PutIn \/ EraseTurn
     \/ \E a \in DOMAIN flush : FlushPut(a) \/ FlushEnd(a)
     \/ \E new \in Settings : SetTermios(new)
     \/ WriteSlave \/ ReadSlave \/ ReadMaster

Spec == Init /\ [][Next]_vars
----------------------------------------------------------------------------
Unflushed == IF \E a \in DOMAIN flush : flush[a] > 0
               THEN LET a == CHOOSE b \in DOMAIN flush : flush[b] > 0 IN
                    SubSeq(line_buffer, flush[a], flush[a] + line_length - 1)
               ELSE << >>

(* What programs read is exactly what was committed, in order, although    *)
(* the flush is byte by byte and sleeps when in_buffer is full; unless the *)
(* line is edited or flushed again by another actor meanwhile (`overlap'): *)
(* then bytes come twice, or line_length goes below zero.                  *)
InputIsExact == ~overlap => in_buffer \o Unflushed = committed /\ ~wild

(* What the user sees is what will be delivered: the echo, with its caret  *)
(* forms and backspaces, always shows the line being edited, whatever was  *)
(* typed, erased and quoted, as long as the settings change between lines  *)
(* only, no program prints, and nothing was echoed that cannot be in the   *)
(* line (`noise').                                                         *)
EchoShowsTheLine ==
  ~noise /\ ~overlap /\ ~Flushing /\ "ECHO" \in ts =>
    LET cells == FlattenSeq([i \in DOMAIN line |-> EchoOf(line[i])]) IN
    shown = Prompt \o cells

(* The line never outgrows line_buffer (PTY_BUFFER_SIZE + 2 bytes).        *)
LineFits == line_length <= Len(line_buffer) /\ Len(line_buffer) <= LineSize
=============================================================================
