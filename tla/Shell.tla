------------------------------- MODULE Shell --------------------------------
(***************************************************************************)
(* The interactive shell (user/scsh/src/main.c) with its children and the  *)
(* interrupt key of its terminal, whose SIGINT goes to one process, the    *)
(* one tcsetpgrp named last.  fork gives the child no handlers, so SIGINT  *)
(* ends it; the shell's handler only sets interrupted, and runs when the   *)
(* shell is not inside waitpid, which a signal does not end.               *)
(*                                                                         *)
(* A line is what execute_line finds in it: a program or a builtin, "&",   *)
(* and the files named by ">" and "<".  Words are not modelled.  The       *)
(* builtins are one step each, also the one that forks and waits.          *)
(* Waited_Signal is a faulty variant of the definition that follows it.    *)
(***************************************************************************)
EXTENDS Integers, Sequences, FiniteSets

CONSTANTS Lines,       \* lines: [ext, bg : BOOLEAN, outs, ins : Nat]
          MaxLines,    \* lines of one input, separated by ";"
          Children,    \* processes the shell may fork
          MaxKeys      \* bound: interrupt keys pressed

ShellAssumption ==
  /\ Lines \subseteq [ext : BOOLEAN, bg : BOOLEAN, outs : Nat, ins : Nat]
  /\ MaxLines \in Nat /\ MaxKeys \in Nat
  /\ Children \cap {"none", "shell"} = {}

VARIABLES
  pc,           \* where the shell is
  script,       \* the lines left, the one being executed first
  status, interrupted,
  pending,      \* SIGINT for the shell
  fg,           \* pty->process: "shell" or a child
  proc,         \* each child: "none", "run" or "zombie"
  child,        \* the child of the line
  files,        \* redirection files open in the shell
  leaked,       \* history: files whose stream was forgotten
  begun,        \* history: commands begun since the handler ran in this script
  hit,          \* history: the handler has run since the script began
  keys

vars == <<pc, script, status, interrupted, pending, fg, proc, child, files, leaked, begun, hit, keys>>
fileVars == <<files, leaked>>
hist == <<begun, hit>>

(* main and the beginning of interactive.                                  *)
Init ==
  /\ pc = "prompt" /\ script = << >> /\ status = 0 /\ interrupted = FALSE /\ pending = FALSE
  /\ fg = "shell" /\ proc = [c \in Children |-> "none"] /\ child = "none"
  /\ files = 0 /\ leaked = 0 /\ begun = 0 /\ hit = FALSE /\ keys = 0

(* fgets returns a line, of which execute_script makes lines.              *)
Read ==
  /\ pc = "prompt" /\ ~interrupted
  /\ \E s \in UNION {[1..n -> Lines] : n \in 1..MaxLines} : script' = s
  /\ pc' = "typed"
  /\ UNCHANGED <<status, interrupted, pending, fg, proc, child, fileVars, hist, keys>>

(* An interrupt seen after fgets drops the line; one that comes later is   *)
(* forgotten when execute_script begins.                                   *)
Typed ==
  /\ pc = "typed"
  /\ pc' = IF interrupted THEN "prompt" ELSE "start"
  /\ interrupted' = FALSE
  /\ UNCHANGED <<script, status, pending, fg, proc, child, fileVars, hist, keys>>

Start ==
  /\ pc = "start" /\ pc' = "line" /\ interrupted' = FALSE
  /\ begun' = 0 /\ hit' = FALSE
  /\ UNCHANGED <<script, status, pending, fg, proc, child, fileVars, keys>>

(* A second file of a kind takes the place of the first stream.            *)
Extra(n) == IF n > 1 THEN n - 1 ELSE 0

Command(l) ==
  /\ files' = files + l.outs + l.ins
  /\ leaked' = leaked + Extra(l.outs) + Extra(l.ins)
  /\ begun' = IF hit THEN begun + 1 ELSE begun
  /\ IF l.ext
     THEN /\ \E c \in Children : proc[c] = "none" /\ proc' = [proc EXCEPT ![c] = "run"] /\ child' = c
          /\ pc' = "forked" /\ status' = 0
     ELSE /\ pc' = "close" /\ status' \in {0, 1} /\ UNCHANGED <<proc, child>>

(* execute_line up to fork, or a builtin; the end of the script.           *)
ExecuteLine ==
  /\ pc = "line"
  /\ IF script = << >>
     THEN pc' = "prompt" /\ UNCHANGED <<status, proc, child, fileVars, begun>>
     ELSE Command(script[1])
  /\ UNCHANGED <<script, interrupted, pending, fg, hit, keys>>

(* The parent after fork: a background child is left alone.                *)
Forked ==
  /\ pc = "forked"
  /\ IF script[1].bg THEN pc' = "close" /\ UNCHANGED fg ELSE pc' = "wait" /\ fg' = child
  /\ UNCHANGED <<script, status, interrupted, pending, proc, child, fileVars, hist, keys>>

Waited_Signal == proc[child] = "zombie" \/ pending
(* waitpid returns.                                                        *)
Waited == proc[child] = "zombie"

Wait ==
  /\ pc = "wait" /\ Waited
  /\ pc' = "back" /\ status' \in {0, 1}
  /\ proc' = [proc EXCEPT ![child] = IF @ = "zombie" THEN "none" ELSE @]
  /\ UNCHANGED <<script, interrupted, pending, fg, child, fileVars, hist, keys>>

(* tcsetpgrp to the shell's own id.                                        *)
Foreground == "shell"

Back ==
  /\ pc = "back" /\ pc' = "close" /\ fg' = Foreground
  /\ UNCHANGED <<script, status, interrupted, pending, proc, child, fileVars, hist, keys>>

(* The streams execute_line closes at its end.                             *)
Closed(l) == (IF l.outs > 0 THEN 1 ELSE 0) + (IF l.ins > 0 THEN 1 ELSE 0)

Close ==
  /\ pc = "close" /\ pc' = "check" /\ files' = files - Closed(script[1])
  /\ UNCHANGED <<script, status, interrupted, pending, fg, proc, child, leaked, hist, keys>>

(* execute_script after each line.                                         *)
Stops == status # 0 \/ interrupted

Check ==
  /\ pc = "check"
  /\ IF Stops THEN pc' = "prompt" /\ script' = << >> ELSE pc' = "line" /\ script' = Tail(script)
  /\ UNCHANGED <<status, interrupted, pending, fg, proc, child, fileVars, hist, keys>>

(* sigint_handler.  In fgets it also ends the read, with an empty line.    *)
Handler ==
  /\ pending /\ pc # "wait"
  /\ pending' = FALSE /\ interrupted' = TRUE
  /\ hit' = (hit \/ pc \in {"line", "forked", "back", "close", "check"})
  /\ IF pc = "prompt" THEN pc' = "typed" /\ script' = << >> ELSE UNCHANGED <<pc, script>>
  /\ UNCHANGED <<status, fg, proc, child, fileVars, begun, keys>>

(* The program ends by itself.                                             *)
Exit(c) ==
  /\ proc[c] = "run" /\ proc' = [proc EXCEPT ![c] = "zombie"]
  /\ UNCHANGED <<pc, script, status, interrupted, pending, fg, child, fileVars, hist, keys>>

(* The terminal sends SIGINT to its process.                               *)
Key ==
  /\ keys < MaxKeys /\ keys' = keys + 1
  /\ IF fg = "shell" THEN pending' = TRUE /\ UNCHANGED proc
     ELSE proc' = [proc EXCEPT ![fg] = IF @ = "run" THEN "zombie" ELSE @] /\ UNCHANGED pending
  /\ UNCHANGED <<pc, script, status, interrupted, fg, child, fileVars, hist>>

Next ==
  \/ Read \/ Typed \/ Start \/ ExecuteLine \/ Forked \/ Wait \/ Back \/ Close \/ Check \/ Handler \/ Key
  \/ \E c \in Children : Exit(c)

Spec == Init /\ [][Next]_vars

(***************************************************************************)
(* Properties                                                              *)
(***************************************************************************)
AtPrompt == pc \in {"prompt", "typed"}

(* While the shell reads a line the interrupt key is its own, whatever     *)
(* became of the commands before.                                          *)
PromptIsForeground == AtPrompt => fg = "shell"

(* A command that has the terminal is still waited for: no signal brings   *)
(* the shell back before the command has ended.                            *)
ForegroundIsWaitedFor == fg # "shell" /\ proc[fg] = "run" => pc = "wait" /\ child = fg

(* Once the handler has run in a script, at most the line the shell was    *)
(* about to execute is still begun.                                        *)
InterruptStops == begun <= 1

(* At the prompt all redirection files are closed, but those whose stream  *)
(* a second redirection of the line has replaced.                          *)
FilesAreClosed == AtPrompt => files = leaked

(***************************************************************************)
(* What the proofs rest on                                                 *)
(***************************************************************************)
TypeOK ==
  /\ pc \in {"prompt", "typed", "start", "line", "forked", "wait", "back", "close", "check"}
  /\ script \in Seq(Lines) /\ status \in {0, 1}
  /\ interrupted \in BOOLEAN /\ pending \in BOOLEAN /\ hit \in BOOLEAN
  /\ fg \in Children \cup {"shell"} /\ child \in Children \cup {"none"}
  /\ proc \in [Children -> {"none", "run", "zombie"}]
  /\ files \in Int /\ leaked \in Int /\ begun \in Nat /\ keys \in Nat

(* The steps of a line find the line they are about.                       *)
LineIsThere == pc \in {"forked", "wait", "back", "close", "check"} => script # << >>

(* The child of the line has the terminal from the fork until the shell    *)
(* takes it back, and does not run any more when it does.                  *)
TerminalIsLent ==
  /\ pc \in {"forked", "wait", "back"} => child \in Children
  /\ fg = IF pc \in {"wait", "back"} THEN child ELSE "shell"
  /\ pc = "back" => proc[child] # "run"

(* The streams that execute_line has yet to close are the open files it    *)
(* has not forgotten.                                                      *)
FilesAreCounted ==
  files = leaked + (IF pc \in {"forked", "wait", "back", "close"} THEN Closed(script[1]) ELSE 0)

(* A handler that ran in this script has left its mark, which the shell    *)
(* finds before it begins another line.                                    *)
InterruptIsKept ==
  /\ hit /\ pc \in {"line", "forked", "wait", "back", "close", "check"} => interrupted
  /\ ~hit \/ pc = "line" => begun = 0
  /\ begun <= 1

ShellInv == TypeOK /\ LineIsThere /\ TerminalIsLent /\ FilesAreCounted /\ InterruptIsKept
=============================================================================
