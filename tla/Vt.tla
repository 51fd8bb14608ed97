--------------------------------- MODULE Vt ---------------------------------
(***************************************************************************)
(* Virtual terminals (kernel/src/dev/vt.c): which terminal has the screen, *)
(* how it is handed over (at once, or after the owner of the old terminal  *)
(* has released it), and what the screen shows.  The scan codes that       *)
(* matter are Ctrl, Alt and the function keys; `kbd' is the set of         *)
(* modifiers held.  vt_t comes from k_malloc, so next is whatever the      *)
(* memory held until the first request writes it; garbage outside the      *)
(* table of terminals is left out.  Restoring a screen means replaying its *)
(* buffer (external: fb.c).  The signals relsig and acqsig tell the owner; *)
(* that it acts on them is not assumed.                                    *)
(* Restored_Appends is a faulty variant of the definition that follows it. *)
(***************************************************************************)
EXTENDS Integers, Sequences, FiniteSets

CONSTANTS Vts,            \* 0 .. TTY_AMOUNT - 1
          FKeys,          \* the function keys, counted from zero
          Procs, NoProc,  \* 0 stands for no process
          MaxOut          \* bound: bytes printed on one terminal

VtAssumption ==
  /\ IsFiniteSet(Vts) /\ Vts = 0..(Cardinality(Vts) - 1) /\ 0 \in Vts
  /\ Vts \subseteq FKeys
  /\ NoProc \notin Procs

VARIABLES
  active,       \* __atty
  next,         \* vt->next: 0, or one more than the terminal asked for
  mode,         \* vt->mode.mode: "auto" or "process"
  display,      \* vt->display_mode: "text" or "graphic"
  owner,        \* vt->tty->process
  buffer,       \* vt->buffer: the first occupied_size bytes
  screen,       \* what the frame buffer shows as text
  kbd,          \* mods
  intact,       \* history: screen was restored and modes were not touched
  written,      \* history: terminals whose next was assigned
  wild          \* history: a release used a next that nobody wrote

vars == <<active, next, mode, display, owner, buffer, screen, kbd, intact, written, wild>>
setVars == <<mode, display, owner>>

Init ==
  /\ active = 0
  /\ next \in {f \in [Vts -> 0..Cardinality(Vts)] : f[0] = 0}   \* k_dev_vt_change(0)
  /\ mode = [v \in Vts |-> "auto"] /\ display = [v \in Vts |-> "text"]
  /\ owner = [v \in Vts |-> NoProc]
  /\ buffer = [v \in Vts |-> << >>]
  /\ screen = << >> /\ kbd = {} /\ intact = TRUE /\ written = {0} /\ wild = FALSE

Restored_Appends(v) == screen \o buffer[v]

(* k_dev_fb_clear, k_dev_fb_restore_text.                                  *)
Restored(v) == buffer[v]

(* old_vt->next = 0                                                        *)
Cleared(old) == [next EXCEPT ![old] = 0]

(* __k_dev_vt_finish_switch(old).  In process mode the new owner gets      *)
(* acqsig and draws for itself; graphics come back from the saved frame    *)
(* (the screen's text is not followed then).                               *)
finish_switch(old, number) ==
  LET auto == mode[number] = "auto" /\ display[number] = "text" IN
  /\ active' = number
  /\ next' = Cleared(old)
  /\ written' = written \cup {old}
  /\ screen' = IF auto THEN Restored(number) ELSE << >>
  /\ intact' = auto

(* k_dev_vt_change: a terminal in process mode is asked to release first.  *)
change(number) ==
  /\ number \in Vts
  /\ IF mode[active] = "auto"
       THEN finish_switch(active, number)
       ELSE /\ next' = [next EXCEPT ![active] = number + 1]
            /\ written' = written \cup {active}
            /\ UNCHANGED <<active, screen, intact>>

(* k_dev_vt_handle_scancode: a modifier goes down or up, Ctrl+Alt+Fn.      *)
Modifier(m) ==
  /\ kbd' = IF m \in kbd THEN kbd \ {m} ELSE kbd \cup {m}
  /\ UNCHANGED <<active, next, setVars, buffer, screen, intact, written, wild>>

FunctionKey(number) ==
  /\ kbd = {"ctrl", "alt"}
  /\ change(number)
  /\ UNCHANGED <<setVars, buffer, kbd, wild>>

CheckOwner(p, v) == mode[v] = "process" => owner[v] \in {NoProc, p}

(* VT_ACTIVATE                                                             *)
Activate(p, v) ==
  /\ CheckOwner(p, v)
  /\ change(v)
  /\ UNCHANGED <<setVars, buffer, kbd, wild>>

(* VT_SETMODE                                                              *)
SetMode(p, v, m) ==
  /\ CheckOwner(p, v) /\ m # mode[v]
  /\ mode' = [mode EXCEPT ![v] = m]
  /\ intact' = (intact /\ v # active)
  /\ UNCHANGED <<active, next, display, owner, buffer, screen, kbd, written, wild>>

(* KDSETMODE                                                               *)
SetDisplay(p, v, d) ==
  /\ CheckOwner(p, v) /\ d # display[v]
  /\ display' = [display EXCEPT ![v] = d]
  /\ intact' = (intact /\ v # active)
  /\ UNCHANGED <<active, next, mode, owner, buffer, screen, kbd, written, wild>>

(* TCIOSPGRP on the terminal, which asks nobody.                           *)
SetOwner(p, v) ==
  /\ owner' = [owner EXCEPT ![v] = p]
  /\ UNCHANGED <<active, next, mode, display, buffer, screen, kbd, intact, written, wild>>

(* VT_RELDISP with 1.                                                      *)
RelDisp(p, v) ==
  /\ CheckOwner(p, v) /\ next[v] # 0
  /\ finish_switch(v, next[v] - 1)
  /\ wild' = (wild \/ v \notin written)
  /\ UNCHANGED <<setVars, buffer, kbd>>

(* k_dev_vt_tty_callback: a character printed on terminal v.               *)
PutChar(v) ==
  LET c == Len(buffer[v]) + 1 IN
  /\ c <= MaxOut
  /\ screen' = IF v = active /\ display[v] # "graphic" THEN Append(screen, c) ELSE screen
  /\ buffer' = IF display[v] # "graphic" THEN [buffer EXCEPT ![v] = Append(@, c)] ELSE buffer
  /\ UNCHANGED <<active, next, setVars, kbd, intact, written, wild>>

Next ==
  \/ \E m \in {"ctrl", "alt"} : Modifier(m)
  \/ \E k \in FKeys : FunctionKey(k)
  \/ \E p \in Procs, v \in Vts :
       \/ Activate(p, v) \/ SetOwner(p, v) \/ RelDisp(p, v)
       \/ \E m \in {"auto", "process"} : SetMode(p, v, m)
       \/ \E d \in {"text", "graphic"} : SetDisplay(p, v, d)
  \/ \E v \in Vts : PutChar(v)

Spec == Init /\ [][Next]_vars
----------------------------------------------------------------------------
(* Only the terminal on screen has a request to release it outstanding, so *)
(* a late VT_RELDISP never takes the screen from another terminal.  next   *)
(* that was never written is the exception the code leaves open.           *)
PendingIsActive == ~wild => \A v \in written : next[v] # 0 => v = active

(* A terminal in process mode keeps the screen until its owner releases    *)
(* it, whatever keys are pressed and whatever other terminals ask for.     *)
ReleasedByOwner ==
  ~wild' /\ active' # active /\ mode[active] = "process" =>
    \E p \in Procs : owner[active] \in {NoProc, p} /\ RelDisp(p, active)

(* The screen shows the text of the terminal that has it, in spite of      *)
(* output to terminals in the background and of switches in between.       *)
ScreenIsBuffer ==
  intact /\ mode[active] = "auto" /\ display[active] = "text" => screen = buffer[active]
----------------------------------------------------------------------------
(* The inductive invariant of these properties.                            *)
TypeOK ==
  /\ active \in Vts
  /\ next \in [Vts -> 0..Cardinality(Vts)]
  /\ mode \in [Vts -> {"auto", "process"}] /\ display \in [Vts -> {"text", "graphic"}]
  /\ owner \in [Vts -> Procs \cup {NoProc}]
  /\ buffer \in [Vts -> Seq(Nat)] /\ screen \in Seq(Nat)
  /\ intact \in BOOLEAN /\ written \subseteq Vts /\ wild \in BOOLEAN

VtInv == TypeOK /\ PendingIsActive /\ ScreenIsBuffer
=============================================================================
