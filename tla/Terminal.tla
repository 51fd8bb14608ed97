------------------------------ MODULE Terminal ------------------------------
(***************************************************************************)
(* The terminal window (user/terminal/src/main.c) between the keyboard and *)
(* the shell on its pseudo terminal.  The terminal edits a line of its own *)
(* and writes it to the master when Enter is pressed; a key that is not    *)
(* printable is written at once.  The line discipline (tty.c, with the     *)
(* settings of __k_dev_tty_sane_ts) echoes into the output buffer, which   *)
(* holds Cap bytes and has the terminal as its only reader, and puts lines *)
(* into the input buffer, which holds InCap and is read by the shell.  Who *)
(* writes into a full buffer sleeps.                                       *)
(*                                                                         *)
(* Bytes are a letter "a"; "\n"; the keys the discipline knows: interrupt  *)
(* "^C", end of file "^D", kill "^U", word erase "^W" and literal next     *)
(* "^V"; "\t" for other keys that are not printable; the output bytes "\r" *)
(* and "bs"; and, from the shell, "s".  A word erase takes the whole line: *)
(* the discipline's line never has a space, as letters reach it with the   *)
(* newline that ends it.  It does not fill up here (module Tty has that).  *)
(* An extended key counts as the key of the byte its event holds (module   *)
(* Keyboard).  The text the window shows is left out.                      *)
(***************************************************************************)
EXTENDS Integers, Sequences, SequencesExt, FiniteSets

CONSTANTS Cap, InCap,  \* capacity of the output and of the input buffer
          Answer,      \* bytes the shell prints for a line
          MaxKeys      \* bound: keys pressed

TerminalAssumption == {Cap, InCap, Answer, MaxKeys} \subseteq Nat \ {0}

Controls == {"^C", "^D", "^U", "^W", "^V", "\n", "\t"}

VARIABLES
  pc,      \* the terminal: "refresh", "event", "write"
  input,   \* the line being typed
  todo,    \* in a write: the puts that are still to be done
  line,    \* pty->line_buffer
  nextl,   \* pty->flags & TTY_FLAG_NEXTL
  inq,     \* pty->in_buffer
  out,     \* pty->out_buffer
  shell,   \* bytes the shell still has to print, 0 when it reads
  echo,    \* history: bytes of echo of the last write
  got,     \* history: what the shell has read
  ref,     \* history: the line as it was typed and edited
  typed,   \* history: what was typed and committed
  keys

vars == <<pc, input, todo, line, nextl, inq, out, shell, echo, got, ref, typed, keys>>

Init ==
  /\ pc = "refresh" /\ input = << >> /\ todo = << >>
  /\ line = << >> /\ nextl = FALSE /\ inq = << >> /\ out = << >> /\ shell = 0
  /\ echo = 0 /\ got = << >> /\ ref = << >> /\ typed = << >> /\ keys = 0

(* buff_refresh reads byte by byte until select finds nothing.             *)
Drained == Len(out)

buff_refresh ==
  /\ pc = "refresh" /\ pc' = "event"
  /\ out' = SubSeq(out, Drained + 1, Len(out))
  /\ UNCHANGED <<input, todo, line, nextl, inq, shell, echo, got, ref, typed, keys>>

(* PUTC_OUT, with a newline as ONLCR has it, and __k_dev_tty_line_flush.   *)
Outs(s) == FlattenSeq([k \in DOMAIN s |->
             IF s[k] = "\n" THEN <<[to |-> "out", c |-> "\r"], [to |-> "out", c |-> "\n"]>>
             ELSE <<[to |-> "out", c |-> s[k]]>>])
Ins(s) == [k \in DOMAIN s |-> [to |-> "in", c |-> s[k]]]

(* __k_dev_tty_pty_process_input_char: the line discipline d takes c.      *)
Take(d, c) ==
  LET Add(l, q, puts) == [line |-> l, nextl |-> q, todo |-> d.todo \o puts]
  IN CASE d.nextl -> Add(Append(d.line, c), FALSE, Outs(<<c>>))
       [] ~d.nextl /\ c = "^C" -> d
       [] ~d.nextl /\ c = "^V" -> Add(d.line, TRUE, Outs(<<"^", "bs">>))
       [] ~d.nextl /\ c \in {"^U", "^W"} ->
            Add(<< >>, FALSE, Outs([k \in DOMAIN d.line |-> "bs"]))
       [] ~d.nextl /\ c = "^D" -> Add(<< >>, FALSE, Ins(d.line))
       [] ~d.nextl /\ c = "\n" -> Add(<< >>, FALSE, Outs(<<c>>) \o Ins(Append(d.line, c)))
       [] OTHER -> Add(Append(d.line, c), FALSE, Outs(<<c>>))

IsOut(p) == p.to = "out"

(* write(master, s)                                                        *)
Write(s) ==
  LET d == FoldLeft(Take, [line |-> line, nextl |-> nextl, todo |-> << >>], s) IN
  /\ line' = d.line /\ nextl' = d.nextl /\ todo' = d.todo
  /\ echo' = Len(SelectSeq(d.todo, IsOut)) /\ pc' = "write"

Key == pc = "event" /\ keys < MaxKeys /\ keys' = keys + 1

(* terminal_handle_event: a letter, a backspace.  The line has no limit.   *)
letter ==
  /\ Key
  /\ input' = Append(input, "a") /\ ref' = Append(ref, "a") /\ pc' = "refresh"
  /\ UNCHANGED <<todo, line, nextl, inq, out, shell, echo, got, typed>>

IsLetter(c) == c = "a"

backspace ==
  /\ Key
  /\ input' = IF input = << >> THEN input ELSE Front(input)
  /\ ref' = IF ref # << >> /\ IsLetter(Last(ref)) THEN Front(ref) ELSE ref
  /\ pc' = "refresh"
  /\ UNCHANGED <<todo, line, nextl, inq, out, shell, echo, got, typed>>

(* terminal_send_input: Enter.  A quoted newline ends no line.             *)
enter ==
  LET quoted == nextl /\ input = << >> IN
  /\ Key /\ Write(Append(input, "\n")) /\ input' = << >>
  /\ typed' = IF quoted THEN typed ELSE typed \o Append(ref, "\n")
  /\ ref' = IF quoted THEN Append(ref, "\n") ELSE << >>
  /\ UNCHANGED <<inq, out, shell, got>>

(* The input after a key that is not printable: only the window keeps it.  *)
Abandoned == << >>

control(c) ==
  LET kept == SelectSeq(ref, LAMBDA x : ~IsLetter(x)) IN
  /\ Key /\ Write(<<c>>) /\ input' = Abandoned
  /\ ref' = CASE ~nextl /\ c \in {"^U", "^W", "^D", "\n"} -> << >>
              [] ~nextl /\ c \in {"^C", "^V"} -> kept
              [] OTHER -> Append(kept, c)
  /\ typed' = CASE ~nextl /\ c = "^D" -> typed \o kept
                [] ~nextl /\ c = "\n" -> typed \o Append(kept, c)
                [] OTHER -> typed
  /\ UNCHANGED <<inq, out, shell, got>>

(* An event that is not a key press.                                       *)
other ==
  /\ pc = "event" /\ pc' = "refresh"
  /\ UNCHANGED <<input, todo, line, nextl, inq, out, shell, echo, got, ref, typed, keys>>

(* A put of the write that goes on, when there is room, or its end.        *)
write ==
  /\ pc = "write"
  /\ IF todo = << >> THEN pc' = "refresh" /\ UNCHANGED <<todo, inq, out>>
     ELSE /\ UNCHANGED pc /\ todo' = Tail(todo)
          /\ IF IsOut(todo[1])
             THEN Len(out) < Cap /\ out' = Append(out, todo[1].c) /\ UNCHANGED inq
             ELSE Len(inq) < InCap /\ inq' = Append(inq, todo[1].c) /\ UNCHANGED out
  /\ UNCHANGED <<input, line, nextl, shell, echo, got, ref, typed, keys>>

(* The shell: it reads a line and prints its answer.                       *)
shell_read ==
  /\ shell = 0 /\ inq # << >>
  /\ got' = Append(got, inq[1]) /\ inq' = Tail(inq)
  /\ shell' = IF inq[1] = "\n" THEN Answer ELSE 0
  /\ UNCHANGED <<pc, input, todo, line, nextl, out, echo, ref, typed, keys>>

shell_print ==
  /\ shell > 0 /\ Len(out) < Cap
  /\ out' = Append(out, "s") /\ shell' = shell - 1
  /\ UNCHANGED <<pc, input, todo, line, nextl, inq, echo, got, ref, typed, keys>>

Next ==
  \/ buff_refresh \/ letter \/ backspace \/ enter \/ other \/ write
  \/ \E c \in Controls : control(c)
  \/ shell_read \/ shell_print

Spec == Init /\ [][Next]_vars

(***************************************************************************)
(* Properties                                                              *)
(***************************************************************************)
Stuck == pc = "write" /\ todo # << >> /\ IsOut(todo[1]) /\ Len(out) = Cap

(* The terminal sleeps on its own echo, for ever, only if output of the    *)
(* shell is in the buffer as well, or the line it writes has more echo     *)
(* than the whole buffer holds: nothing of earlier events takes its room,  *)
(* because all output is read before each event.                           *)
StuckNeedsShell == Stuck => echo > Cap \/ \E k \in DOMAIN out : out[k] = "s"

(* The shell reads what was typed, in order, each line as it was edited    *)
(* last, with what was quoted, and without the letters that a key that is  *)
(* not printable has taken off the window's line; as far as the terminal   *)
(* has not yet put it, it is what is left of the write.                    *)
LinesArrive ==
  LET left == SelectSeq(todo, LAMBDA p : ~IsOut(p))
  IN got \o inq \o [k \in DOMAIN left |-> left[k].c] = typed
=============================================================================
