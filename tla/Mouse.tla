-------------------------------- MODULE Mouse -------------------------------
(***************************************************************************)
(* The way of a mouse movement to the pointer: three bytes from the mouse, *)
(* one interrupt each, make a packet (kernel/src/dev/ps2.c); the packet    *)
(* goes through the pipe /dev/mouse, which drops what does not fit, byte   *)
(* by byte; input_mouse_create_packet (libs/libinput/src/mouse.c) extends  *)
(* the sign; the compositor moves the pointer and tells the window under   *)
(* it (libs/libcompose/src/compose.c).  One axis is modelled; the other    *)
(* is the same with its sign reversed.                                     *)
(***************************************************************************)
EXTENDS Integers, Sequences, FiniteSets

CONSTANTS Width,      \* srv->framebuffer.info.w
          Moves,      \* what a packet says: the low byte and the sign bit
          Cap,        \* bytes that fit into the pipe
          MaxPackets  \* bound: packets the mouse sends

MouseAssumption ==
  /\ Width \in Nat /\ Width >= 4 /\ Cap \in Nat /\ MaxPackets \in Nat
  /\ Moves \subseteq [mx : 0..255, sign : BOOLEAN, ovf : BOOLEAN, btn : BOOLEAN]

VARIABLES
  wire,      \* bytes of the packet the mouse is sending
  counter,   \* mouse_packet_counter
  current,   \* current_mouse_packet
  pipe,      \* bytes in /dev/mouse
  x,         \* mouse_pos.x
  buttons,   \* last_buttons
  known,     \* history: where the events of type MOUSE say the pointer is
  pressed,   \* history: what the last event of type BUTTON said
  ideal,     \* history: where the pointer should be for what was sent
  lost,      \* history: a byte was lost on the wire or the pipe was full
  packets    \* counter for the bound

vars == <<wire, counter, current, pipe, x, buttons, known, pressed, ideal, lost, packets>>

None == <<"none", 0>>      \* a byte that was not assigned
Value(m) == m.mx - (IF m.sign THEN 256 ELSE 0)

Init ==
  /\ wire = << >> /\ counter = 0 /\ current = <<None, None, None>> /\ pipe = << >>
  /\ x = 0 /\ buttons = FALSE /\ known = 0 /\ pressed = FALSE
  /\ ideal = 0 /\ lost = FALSE /\ packets = 0

(* The limits of __compose_update_mouse.                                   *)
Clamp(v) == IF v < 0 THEN 0 ELSE IF v >= Width THEN Width - 4 ELSE v

(* The mouse starts a packet; a byte is <<move, its place>>.               *)
Report(m) ==
  /\ wire = << >> /\ packets < MaxPackets /\ packets' = packets + 1
  /\ wire' = [i \in 1..3 |-> <<m, i>>]
  /\ ideal' = IF m.ovf THEN ideal ELSE Clamp(ideal + Value(m))
  /\ UNCHANGED <<counter, current, pipe, x, buttons, known, pressed, lost>>

(* A byte whose interrupt did not come in time.                            *)
LoseByte ==
  /\ wire # << >> /\ wire' = Tail(wire) /\ lost' = TRUE
  /\ UNCHANGED <<counter, current, pipe, x, buttons, known, pressed, ideal, packets>>

(* The switch of __k_dev_ps2_handle_mouse falls through.                   *)
Placed(b) == [i \in 1..3 |-> IF i > counter THEN b ELSE current[i]]

(* Only first bytes have bit 3, so a packet starts with one; the other     *)
(* bytes may have it too.                                                  *)
InSync(b) == b[2] = 1 \/ b[1].mx >= 8

(* __irq12_handler, __k_dev_ps2_handle_mouse.                              *)
Interrupt ==
  LET b == Head(wire)
      all == pipe \o Placed(b) IN
  /\ wire # << >> /\ wire' = Tail(wire)
  /\ IF counter = 0 /\ ~InSync(b) THEN UNCHANGED <<counter, current, pipe, lost>>
     ELSE /\ current' = Placed(b)
          /\ counter' = (counter + 1) % 3
          /\ IF counter < 2 THEN UNCHANGED <<pipe, lost>>
             ELSE /\ pipe' = IF Len(all) <= Cap THEN all ELSE SubSeq(all, 1, Cap)
                  /\ lost' = (lost \/ Len(all) > Cap)
  /\ UNCHANGED <<x, buttons, known, pressed, ideal, packets>>

(* The sign bit of the data byte extends mx.                               *)
Extended(data, mx) == mx - (IF data.sign THEN 256 ELSE 0)

(* compose_sv_tick reads a packet; one with an overflow bit is dropped.    *)
(* The event says how far the pointer really went, and BUTTON is sent when *)
(* the buttons changed.                                                    *)
HandleMouse ==
  LET data == pipe[1][1]
      new  == Clamp(x + Extended(data, pipe[2][1].mx)) IN
  /\ Len(pipe) >= 3 /\ pipe' = SubSeq(pipe, 4, Len(pipe))
  /\ IF data.ovf THEN UNCHANGED <<x, buttons, known, pressed>>
     ELSE /\ x' = new
          /\ known' = known + (new - x)
          /\ pressed' = IF data.btn # buttons THEN data.btn ELSE pressed
          /\ buttons' = data.btn
  /\ UNCHANGED <<wire, counter, current, ideal, lost, packets>>

Next == (\E m \in Moves : Report(m)) \/ LoseByte \/ Interrupt \/ HandleMouse

Spec == Init /\ [][Next]_vars

(* Whatever bytes are lost, the pointer stays on the screen and whoever    *)
(* adds up the events knows where it is and which button is down.          *)
PointerIsKnown == 0 <= x /\ x < Width /\ known = x /\ pressed = buttons

(* Without losses the pointer ends where the mouse moved it.               *)
PointerFollows == ~lost /\ wire = << >> /\ Len(pipe) < 3 => x = ideal /\ counter = 0
=============================================================================
