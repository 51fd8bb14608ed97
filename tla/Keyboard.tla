------------------------------ MODULE Keyboard ------------------------------
(***************************************************************************)
(* The way of a key press from the keyboard to a text field: the interrupt *)
(* handler puts a scan code of two bytes into the pipe /dev/kbd            *)
(* (kernel/src/dev/ps2.c), the compositor reads two bytes at a time, keeps *)
(* the modifiers and translates (libs/libcompose/src/compose.c,            *)
(* libs/libinput/src/kbd.c), and the focused text field edits its buffer   *)
(* (libs/libwidgets/src/input.c).  The pipe does not block: what does not  *)
(* fit is dropped, byte by byte.  Of the keys there are the two shifts,    *)
(* caps lock, letters, the editing keys, and Home for the other keys with  *)
(* an extended scan code (Up, Meta and so on): the compositor does not set *)
(* `translated' in their events, so that it is any byte ("?") or NUL.      *)
(***************************************************************************)
EXTENDS Integers, Sequences, SequencesExt, FiniteSets

CONSTANTS Cap,        \* bytes that fit into the pipe, one less than its size
          MaxInput,   \* MAX_INPUT_SIZE
          MaxKeys     \* bound: key events

KeyboardAssumption == Cap \in Nat /\ MaxInput \in Nat \ {0} /\ MaxKeys \in Nat

Shifts  == {"lshift", "rshift"}
Letters == {"a"}
Extended == {"home"}
Keys == Shifts \cup Letters \cup Extended \cup {"caps", "backspace", "left", "right"}
Nul == "nul"
Stray == "?"

VARIABLES
  held,       \* keys that are down
  pipe,       \* bytes in /dev/kbd: <<packet, 1>> and <<packet, 2>>
  focused,    \* input_focus is the text field; otherwise it is NULL
  kbd_mods,
  buffer,     \* the field's buffer, from index 0
  size,       \* buffer_size
  cursor,     \* cursor_pos
  ideal,      \* history: <<text before, text behind the cursor>> of an ideal field
  dropped,    \* history: the pipe was full
  unseen,     \* history: a key event came without a focus
  both,       \* history: both shifts were down
  filled,     \* history: the buffer was full
  keys        \* counter for the bound

vars == <<held, pipe, focused, kbd_mods, buffer, size, cursor, ideal, dropped, unseen, both,
          filled, keys>>
field == <<buffer, size, cursor, filled>>

Init ==
  /\ held = {} /\ pipe = << >> /\ focused = TRUE /\ kbd_mods = {}
  /\ buffer = [i \in 0..MaxInput-1 |-> Nul] /\ size = 0 /\ cursor = 0
  /\ ideal = << << >>, << >> >>
  /\ dropped = FALSE /\ unseen = FALSE /\ both = FALSE /\ filled = FALSE /\ keys = 0

(* __irq1_handler, __k_dev_ps2_handle_keyboard: a key goes down, repeats,  *)
(* or goes up.                                                             *)
Interrupt(k, up) ==
  LET p  == [key |-> k, up |-> up]
      all == pipe \o <<<<p, 1>>, <<p, 2>>>> IN
  /\ up => k \in held
  /\ keys < MaxKeys /\ keys' = keys + 1
  /\ held' = IF up THEN held \ {k} ELSE held \cup {k}
  /\ both' = (both \/ Shifts \subseteq held')
  /\ pipe' = IF Len(all) <= Cap THEN all ELSE SubSeq(all, 1, Cap)
  /\ dropped' = (dropped \/ Len(all) > Cap)
  /\ UNCHANGED <<focused, kbd_mods, field, ideal, unseen>>

(* compose_sv_remove_window of the focused window, and a later focus.      *)
Refocus ==
  /\ focused' = ~focused
  /\ UNCHANGED <<held, pipe, kbd_mods, field, ideal, dropped, unseen, both, keys>>

(* input_kbd_create_packet: two bytes that are not of one packet make a    *)
(* scan code that is no key here.                                          *)
Packet == IF pipe[1][1] = pipe[2][1] /\ pipe[1][2] = 1 /\ pipe[2][2] = 2 THEN pipe[1][1]
          ELSE [key |-> "none", up |-> FALSE]

(* The modifiers __compose_handle_key goes on with.                        *)
Mods(p) ==
  IF p.key \in Shifts
    THEN IF p.up THEN kbd_mods \ {"shift"} ELSE kbd_mods \cup {"shift"}
  ELSE IF p.key = "caps" /\ ~p.up
    THEN IF "caps" \in kbd_mods THEN kbd_mods \ {"caps"} ELSE kbd_mods \cup {"caps"}
  ELSE kbd_mods

Upper(c) == "A"
(* input_kbd_translate                                                     *)
translate(k, mods) ==
  IF k \notin Letters THEN Nul
  ELSE IF ("shift" \in mods) # ("caps" \in mods) THEN Upper(k) ELSE k

(* What `translated' of the event may hold.                                *)
Translations(p) == IF p.key \in Extended THEN {Nul, Stray} ELSE {translate(p.key, Mods(p))}

(* memmove(&buffer[to], &buffer[from], n)                                  *)
Shifted(b, to, from, n) == [i \in DOMAIN b |-> IF i \in to..to+n-1 THEN b[i - to + from] ELSE b[i]]

(* KEY_BACKSPACE at cursor position c + 1.                                 *)
Erased(c) ==
  LET b == [buffer EXCEPT ![c] = Nul] IN
  IF size # 1 /\ c # size - 1 THEN Shifted(b, c, c + 1, size - c) ELSE b

Inserted(t) ==
  LET b == IF cursor < size THEN Shifted(buffer, cursor + 1, cursor, size - cursor) ELSE buffer
  IN [b EXCEPT ![cursor] = t]

(* input_process_events for a key that was pressed: nothing happens once   *)
(* the buffer is full, whatever the key.                                   *)
Edit(k, t) ==
  IF size >= MaxInput THEN UNCHANGED field
  ELSE /\ CASE k = "backspace" /\ cursor > 0 ->
                 buffer' = Erased(cursor - 1) /\ size' = size - 1 /\ cursor' = cursor - 1
            [] k = "right" -> /\ cursor' = (IF cursor + 1 > size THEN size ELSE cursor + 1)
                              /\ UNCHANGED <<buffer, size>>
            [] k = "left" -> /\ cursor' = (IF cursor - 1 < 0 THEN 0 ELSE cursor - 1)
                             /\ UNCHANGED <<buffer, size>>
            [] k \notin {"backspace", "left", "right"} /\ t # Nul ->
                 buffer' = Inserted(t) /\ size' = size + 1 /\ cursor' = cursor + 1
            [] OTHER -> UNCHANGED <<buffer, size, cursor>>
       /\ filled' = (filled \/ size' >= MaxInput)

(* What the key does to a text field without limits; t is its character,   *)
(* if it has one.                                                          *)
Ideal(k, t) ==
  LET l == ideal[1]  r == ideal[2] IN
  CASE k = "backspace" /\ l # << >> -> <<Front(l), r>>
    [] k = "left" /\ l # << >> -> <<Front(l), <<Last(l)>> \o r>>
    [] k = "right" /\ r # << >> -> <<Append(l, Head(r)), Tail(r)>>
    [] t # Nul -> <<Append(l, t), r>>
    [] OTHER -> ideal

(* COMPOSE_DEVICE_KBD in compose_sv_tick, __compose_handle_key, and the    *)
(* field that gets the event.                                              *)
HandleKey ==
  LET p == Packet IN
  /\ Len(pipe) >= 2 /\ pipe' = SubSeq(pipe, 3, Len(pipe))
  /\ IF ~focused
       THEN UNCHANGED <<kbd_mods, field, ideal>> /\ unseen' = TRUE
       ELSE /\ kbd_mods' = Mods(p)
            /\ IF p.up THEN UNCHANGED <<field, ideal>>
               ELSE \E t \in Translations(p) : Edit(p.key, t) /\ ideal' = Ideal(p.key, t)
            /\ UNCHANGED unseen
  /\ UNCHANGED <<held, focused, dropped, both, keys>>

Next == HandleKey \/ Refocus \/ \E k \in Keys, up \in BOOLEAN : Interrupt(k, up)

Spec == Init /\ [][Next]_vars

(***************************************************************************)
(* Properties                                                              *)
(***************************************************************************)
(* Once all key events are read, the compositor's shift is on exactly when *)
(* a shift is down, unless an event was lost (the pipe was full, or there  *)
(* was no focus) or both shifts were down together.                        *)
ShiftIsHeld ==
  Len(pipe) < 2 /\ ~dropped /\ ~unseen /\ ~both =>
    ("shift" \in kbd_mods <=> held \cap Shifts # {})

(* The string a text field draws (up to the first NUL).                    *)
Drawn == LET end == CHOOSE n \in 0..MaxInput : /\ \A i \in 0..n-1 : buffer[i] # Nul
                                               /\ n = MaxInput \/ buffer[n] = Nul
         IN [i \in 1..end |-> buffer[i - 1]]

(* A text field draws what was typed, with the cursor where it belongs,    *)
(* until its buffer is full once: from then on every key is ignored.  An   *)
(* extended key other than the arrows counts as typing the byte that its   *)
(* event happens to hold: the field may show one stray character for it.   *)
FieldIsText ==
  ~filled => /\ Drawn = ideal[1] \o ideal[2] /\ size = Len(Drawn)
             /\ cursor = Len(ideal[1])

=============================================================================
