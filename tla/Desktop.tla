------------------------------ MODULE Desktop -------------------------------
(***************************************************************************)
(* What a user works with: pseudo terminals, the terminal window,          *)
(* keyboard, mouse and display server.  They talk over pipes and sockets   *)
(* and share no state; `part' says which one runs, and the behaviours of   *)
(* this module are those of its parts.                                     *)
(***************************************************************************)
EXTENDS Integers, Sequences

CONSTANT Nil

Typable == {"a", " ", "cr", "erase", "werase", "kill", "eof", "lnext", "intr"}

(* The default settings, raw ones, control characters echoed with a caret, *)
(* and a mode that refuses to edit.                                        *)
Sane == {"ICRNL", "ONLCR", "OPOST", "ECHO", "ECHOE", "ECHOK", "ICANON", "ISIG", "IEXTEN"}
TtySettings ==
  { Sane, {"OPOST", "OCRNL", "INLCR"}, Sane \cup {"ECHOCTL"},
    {"OPOST", "ICANON", "ISIG", "ECHONL", "ECHOCTL", "ONLRET", "IGNCR"} }

(* Which part runs, and the variables of each: they are Off in the others. *)
VARIABLES
  part,
  ts, next_ts, nextl, line_buffer, line_length, in_buffer, out_buffer,
  tty_todo, erase, flush, tty_typed, committed, shown, overlap, noise, wild,
  term_pc, input, term_todo, line, term_nextl, inq, out, shell, echo, got,
  ref, term_typed, term_keys,
  held, pipe, focused, kbd_mods, key_buffer, size, cursor, ideal, dropped,
  unseen, both, filled, key_keys,
  clients, gone, remove_queue, windows, win, window_id, client_id,
  input_focus, grabs, told, unsure, restacked,
  wire, counter, current, mouse_pipe, mouse_x, buttons, known, pressed,
  mouse_ideal, lost, packets

ttyVars == <<ts, next_ts, nextl, line_buffer, line_length, in_buffer,
             out_buffer, tty_todo, erase, flush, tty_typed, committed,
             shown, overlap, noise, wild>>
termVars == <<term_pc, input, term_todo, line, term_nextl, inq, out, shell,
              echo, got, ref, term_typed, term_keys>>
keyVars == <<held, pipe, focused, kbd_mods, key_buffer, size, cursor, ideal,
             dropped, unseen, both, filled, key_keys>>
srvVars == <<clients, gone, remove_queue, windows, win, window_id, client_id,
             input_focus, grabs, told, unsure, restacked>>
mouseVars == <<wire, counter, current, mouse_pipe, mouse_x, buttons, known,
               pressed, mouse_ideal, lost, packets>>

T == INSTANCE Tty WITH Chars <- Typable, Settings <- TtySettings,
                       InSize <- 2, OutSize <- 2, LineSize <- 2,
                       MaxTyped <- 3, todo <- tty_todo, typed <- tty_typed

W == INSTANCE Terminal WITH Cap <- 4, InCap <- 3, Answer <- 3,
                            MaxKeys <- 5, pc <- term_pc, todo <- term_todo,
                            nextl <- term_nextl, typed <- term_typed,
                            keys <- term_keys

K == INSTANCE Keyboard WITH Cap <- 5, MaxInput <- 3, MaxKeys <- 4,
                            buffer <- key_buffer, keys <- key_keys

(* The display server: windows inside those of another client; grabs;      *)
(* focus with fixed and with changing masks; a stack of three windows; two *)
(* windows that are moved.                                                 *)
CN == INSTANCE ComposeServer WITH
  MaxClient <- 2, MaxWin <- 4, Places <- {0}, Zs <- {}, MaxZ <- 0,
  MaxGrabs <- 0, Selects <- {FALSE}, Masks <- FALSE
CG == INSTANCE ComposeServer WITH
  MaxClient <- 2, MaxWin <- 4, Places <- {0}, Zs <- {}, MaxZ <- 0,
  MaxGrabs <- 1, Selects <- {FALSE}, Masks <- FALSE
CF == INSTANCE ComposeServer WITH
  MaxClient <- 2, MaxWin <- 4, Places <- {0}, Zs <- {}, MaxZ <- 0,
  MaxGrabs <- 0, Selects <- BOOLEAN, Masks <- FALSE
CM == INSTANCE ComposeServer WITH
  MaxClient <- 1, MaxWin <- 4, Places <- {0}, Zs <- {}, MaxZ <- 0,
  MaxGrabs <- 0, Selects <- BOOLEAN, Masks <- TRUE
CS == INSTANCE ComposeServer WITH
  MaxClient <- 1, MaxWin <- 5, Places <- {0}, Zs <- {-1}, MaxZ <- 1,
  MaxGrabs <- 0, Selects <- {FALSE}, Masks <- FALSE
CP == INSTANCE ComposeServer WITH
  MaxClient <- 1, MaxWin <- 4, Places <- {-1, 0}, Zs <- {-1}, MaxZ <- 1,
  MaxGrabs <- 0, Selects <- {FALSE}, Masks <- FALSE

(* Packets for a small screen: steps right and left, one that overflows.   *)
Packet(mx, sign, ovf, btn) == [mx |-> mx, sign |-> sign, ovf |-> ovf, btn |-> btn]
MousePackets ==
  { Packet(3, FALSE, FALSE, FALSE), Packet(1, FALSE, FALSE, TRUE),
    Packet(254, TRUE, FALSE, FALSE), Packet(8, FALSE, TRUE, FALSE) }
P == INSTANCE Mouse WITH Width <- 6, Moves <- MousePackets, Cap <- 5,
                         MaxPackets <- 3, pipe <- mouse_pipe, x <- mouse_x,
                         ideal <- mouse_ideal

Parts == {"tty", "terminal", "keyboard", "nest", "grabs", "focus",
          "masks", "stack", "moved", "mouse"}

Off == "off"

Init ==
  /\ part \in Parts
  /\ IF part = "tty" THEN T!Init
     ELSE ts = Off /\ next_ts = Off /\ nextl = Off /\ line_buffer = Off
          /\ line_length = Off /\ in_buffer = Off /\ out_buffer = Off
          /\ tty_todo = Off /\ flush = Off /\ tty_typed = Off
          /\ committed = Off /\ shown = Off /\ overlap = Off /\ noise = Off
          /\ erase = Off /\ wild = Off
  /\ IF part = "terminal" THEN W!Init
     ELSE term_pc = Off /\ input = Off /\ term_todo = Off /\ line = Off
          /\ term_nextl = Off /\ inq = Off /\ out = Off /\ shell = Off
          /\ echo = Off /\ got = Off /\ ref = Off /\ term_typed = Off
          /\ term_keys = Off
  /\ IF part = "keyboard" THEN K!Init
     ELSE held = Off /\ pipe = Off /\ focused = Off /\ kbd_mods = Off
          /\ key_buffer = Off /\ size = Off /\ cursor = Off /\ ideal = Off
          /\ dropped = Off /\ unseen = Off /\ both = Off /\ filled = Off
          /\ key_keys = Off
  /\ IF part = "nest" THEN CN!Init
     ELSE IF part = "grabs" THEN CG!Init
     ELSE IF part = "focus" THEN CF!Init
     ELSE IF part = "masks" THEN CM!Init
     ELSE IF part = "stack" THEN CS!Init
     ELSE IF part = "moved" THEN CP!Init
     ELSE clients = Off /\ gone = Off /\ remove_queue = Off
          /\ windows = Off /\ win = Off /\ window_id = Off
          /\ client_id = Off /\ input_focus = Off /\ grabs = Off
          /\ told = Off /\ unsure = Off /\ restacked = Off
  /\ IF part = "mouse" THEN P!Init
     ELSE wire = Off /\ counter = Off /\ current = Off /\ mouse_pipe = Off
          /\ mouse_x = Off /\ buttons = Off /\ known = Off
          /\ pressed = Off /\ mouse_ideal = Off /\ lost = Off
          /\ packets = Off

Next ==
  /\ UNCHANGED part
  /\ IF part = "tty" THEN T!Next ELSE UNCHANGED ttyVars
  /\ IF part = "terminal" THEN W!Next ELSE UNCHANGED termVars
  /\ IF part = "keyboard" THEN K!Next ELSE UNCHANGED keyVars
  /\ IF part = "nest" THEN CN!Next
     ELSE IF part = "grabs" THEN CG!Next
     ELSE IF part = "focus" THEN CF!Next
     ELSE IF part = "masks" THEN CM!Next
     ELSE IF part = "stack" THEN CS!Next
     ELSE IF part = "moved" THEN CP!Next
     ELSE UNCHANGED srvVars
  /\ IF part = "mouse" THEN P!Next ELSE UNCHANGED mouseVars

vars == <<part, ttyVars, termVars, keyVars, srvVars, mouseVars>>

Spec == Init /\ [][Next]_vars

ASSUME DesktopAssumption ==
  /\ T!TtyAssumption /\ W!TerminalAssumption /\ K!KeyboardAssumption
  /\ CN!ComposeServerAssumption /\ CG!ComposeServerAssumption /\ CF!ComposeServerAssumption
  /\ CM!ComposeServerAssumption /\ CS!ComposeServerAssumption /\ CP!ComposeServerAssumption
  /\ P!MouseAssumption

(***************************************************************************)
(* Properties                                                              *)
(***************************************************************************)

(* What is typed arrives.  Programs read from a pseudo terminal what the   *)
(* line discipline committed, unless the line was edited or flushed while  *)
(* a flush slept (`overlap'), and its echo shows the line being edited,    *)
(* unless something else was put out (`noise') (tty.c).  The shell in a    *)
(* terminal window reads what was typed there, and the window blocks       *)
(* itself only on output of the shell, or on a line whose echo is longer   *)
(* than the whole buffer.  The display server knows which shift is held    *)
(* unless an event was lost or both were; a text field draws what was      *)
(* typed until it is full, with a stray character at most for a key that   *)
(* has an extended scan code (compose.c, input.c).  Whatever bytes of the  *)
(* mouse are lost, who adds up its events knows where the pointer is, and  *)
(* without losses it is where the mouse moved it (ps2.c, mouse.c).         *)
TypedIsExact ==
  /\ part = "tty" => T!InputIsExact /\ T!EchoShowsTheLine /\ T!LineFits
  /\ part = "terminal" => W!StuckNeedsShell /\ W!LinesArrive
  /\ part = "keyboard" => K!ShiftIsHeld /\ K!FieldIsText
  /\ part = "mouse" => P!PointerIsKnown /\ P!PointerFollows

=============================================================================
