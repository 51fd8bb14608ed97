-------------------------------- MODULE Scwm --------------------------------
(***************************************************************************)
(* The window manager (user/scwm/src/main.c): windows are moved and        *)
(* resized with the mouse while the meta key is down.  A move is sent to   *)
(* the compositor at every step of the mouse; a resize is shown as a       *)
(* rectangle on the overlay and sent when it ends.                         *)
(*                                                                         *)
(* Events are handled as they come, and what is sent is carried out by the *)
(* compositor before the next event.  The overlay is the set of rectangles *)
(* that were drawn on it and not erased.  Windows do not go away, and no   *)
(* program changes a window while it is moved or resized: the window       *)
(* manager keeps win_props from the press on and would undo that.          *)
(* Fetched_Once is a faulty variant of the definition that follows it.     *)
(***************************************************************************)
EXTENDS Integers, FiniteSets

CONSTANTS Windows,     \* the windows programs may open
          NoWindow,    \* 0 of the code
          Root,        \* width and height of the screen
          Opened,      \* geometry with which a program opens a window
          Least,       \* 10 of the code: the least width and height
          MaxEvents    \* bound: events

ScwmAssumption ==
  /\ NoWindow \notin Windows /\ {Least, MaxEvents} \subseteq Nat
  /\ Root \in [w : Nat, h : Nat] /\ Opened \in [x : Int, y : Int, w : Nat, h : Nat]
  /\ Opened.w >= Least /\ Opened.h >= Least

VARIABLES
  geo,        \* of the compositor: geometry of the windows that are open
  mod,        \* meta is down
  mov, res,   \* window that is moved or resized
  right, low, \* xres_dir, yres_dir: the right edge, the lower edge is dragged
  props,      \* win_props
  overlay,
  start,      \* history: geometry when the resize began
  least,      \* history: the resize has reached the least size
  cut,        \* history: the last press of a button ended a resize of that window
  switched,   \* history: a resize was replaced by another one
  events

vars == <<geo, mod, mov, res, right, low, props, overlay, start, least, cut, switched, events>>

Init ==
  /\ geo = << >> /\ mod = FALSE /\ mov = NoWindow /\ res = NoWindow
  /\ right = FALSE /\ low = FALSE /\ props = [x |-> 0, y |-> 0, w |-> 0, h |-> 0]
  /\ overlay = {} /\ start = props /\ least = FALSE /\ cut = FALSE /\ switched = FALSE /\ events = 0

Event == events < MaxEvents /\ events' = events + 1

(* COMPOSE_EVENT_WIN: a new window fills the screen.                       *)
win(w) ==
  /\ Event /\ w \notin DOMAIN geo
  /\ geo' = [v \in DOMAIN geo \cup {w} |->
               IF v = w THEN [x |-> 0, y |-> 0, w |-> Root.w, h |-> Root.h] ELSE geo[v]]
  /\ UNCHANGED <<mod, mov, res, right, low, props, overlay, start, least, cut, switched>>

(* A program gives its window another place and size; here not the window  *)
(* that is being dragged.                                                  *)
client(w) ==
  /\ Event /\ w \in DOMAIN geo \ {mov, res}
  /\ geo' = [geo EXCEPT ![w] = Opened]
  /\ UNCHANGED <<mod, mov, res, right, low, props, overlay, start, least, cut, switched>>

(* The end of a resize: the window gets the geometry of the rectangle that *)
(* was dragged, which win_props may have ceased to be.                     *)
Ended == geo' = IF res = NoWindow THEN geo ELSE [geo EXCEPT ![res] = props]

(* The overlay without the rectangle of the resize.                        *)
Cleared == IF res = NoWindow THEN overlay ELSE overlay \ {props}

(* COMPOSE_EVENT_KEY: meta.                                                *)
meta(down) ==
  /\ Event /\ mod' = down
  /\ IF down THEN UNCHANGED <<geo, mov, res, overlay>>
     ELSE mov' = NoWindow /\ res' = NoWindow /\ Ended /\ overlay' = Cleared
  /\ UNCHANGED <<right, low, props, start, least, cut, switched>>

Fetched_Once(b, w) == IF b = "left" /\ mov # NoWindow THEN props ELSE geo[w]
(* compose_cl_get_properties, at each press of a button.                   *)
Fetched(b, w) == geo[w]

(* COMPOSE_EVENT_BUTTON over window w; near says in which halves of the    *)
(* window the pointer is.  Focus and order are the compositor's.           *)
button(w, b, near) ==
  /\ Event /\ w \in DOMAIN geo
  /\ IF mod
     THEN /\ props' = Fetched(b, w) /\ mov' = (IF b = "left" THEN w ELSE NoWindow)
          /\ cut' = (b # "right" /\ res = w)
          /\ IF b = "right"
             THEN /\ res' = w /\ right' = near.right /\ low' = near.low /\ start' = geo[w] /\ least' = FALSE
                  /\ switched' = (switched \/ res # NoWindow)
                  /\ UNCHANGED <<geo, overlay>>
             ELSE /\ res' = NoWindow /\ Ended /\ overlay' = Cleared
                  /\ UNCHANGED <<right, low, start, least, switched>>
     ELSE UNCHANGED <<geo, mov, res, right, low, props, overlay, start, least, cut, switched>>
  /\ UNCHANGED mod

AtLeast(n) == IF n < Least THEN Least ELSE n

(* The rectangle after a step of the mouse.  Upwards is dy > 0.            *)
Resized(dx, dy) ==
  [x |-> IF right THEN props.x ELSE props.x + dx,
   w |-> AtLeast(IF right THEN props.w + dx ELSE props.w - dx),
   y |-> IF low THEN props.y ELSE props.y - dy,
   h |-> AtLeast(IF low THEN props.h - dy ELSE props.h + dy)]

(* COMPOSE_EVENT_MOUSE                                                     *)
mouse(dx, dy) ==
  /\ Event
  /\ \/ /\ mov # NoWindow
        /\ props' = [props EXCEPT !.x = @ + dx, !.y = @ - dy]
        /\ geo' = [geo EXCEPT ![mov] = [@ EXCEPT !.x = props'.x, !.y = props'.y]]
        /\ UNCHANGED <<overlay, least>>
     \/ /\ mov = NoWindow /\ res # NoWindow
        /\ props' = Resized(dx, dy) /\ overlay' = (overlay \ {props}) \cup {props'}
        /\ least' = (least \/ Least \in {props'.w, props'.h})
        /\ UNCHANGED geo
  /\ UNCHANGED <<mod, mov, res, right, low, start, cut, switched>>

Next ==
  \/ \E w \in Windows : win(w) \/ client(w)
  \/ \E down \in BOOLEAN : meta(down)
  \/ \E w \in Windows, b \in {"left", "right", "none"}, near \in [right : BOOLEAN, low : BOOLEAN] :
       button(w, b, near)
  \/ \E dx, dy \in -1 .. 1 : mouse(dx, dy)

Spec == Init /\ [][Next]_vars

(***************************************************************************)
(* Properties                                                              *)
(***************************************************************************)
(* A window that is moved is where the window manager believes it is, so   *)
(* the next step of the mouse moves it on from there, whatever was moved   *)
(* or resized before.  The exception is a press that ends the resize of    *)
(* the same window: its geometry is asked for before the resize is sent,   *)
(* and the window jumps back.                                              *)
MovedIsTracked == mov # NoWindow => geo[mov] = props \/ cut

(* Resizing does not move the edge opposite to the dragged one, until the  *)
(* window has its least size: from then on the left or the upper edge goes *)
(* on with the mouse, and takes the other edge along, never inwards.       *)
OppositeEdge ==
  LET Holds(edge, from) == edge = from \/ (least /\ edge > from)
  IN  res # NoWindow =>
        /\ IF right THEN props.x = start.x ELSE Holds(props.x + props.w, start.x + start.w)
        /\ IF low THEN props.y = start.y ELSE Holds(props.y + props.h, start.y + start.h)

(* The overlay shows the rectangle of the resize that goes on and no       *)
(* other, until a resize is replaced by a second press of the right        *)
(* button, which erases nothing.                                           *)
OverlayIsCurrent ==
  ~switched => overlay \subseteq (IF res = NoWindow THEN {} ELSE {props})

(* When a resize ends, the window gets the rectangle that was on the       *)
(* overlay.                                                                *)
ResizeIsApplied ==
  \A w \in Windows : (res = w /\ res' = NoWindow /\ overlay # {} /\ ~switched)
    => geo'[w] \in overlay

(***************************************************************************)
(* The inductive invariant                                                 *)
(***************************************************************************)
Rectangles == [x : Int, y : Int, w : Int, h : Int]

TypeOK ==
  /\ DOMAIN geo \subseteq Windows /\ geo \in [DOMAIN geo -> Rectangles]
  /\ mod \in BOOLEAN /\ {right, low, least, cut, switched} \subseteq BOOLEAN
  /\ {mov, res} \subseteq DOMAIN geo \cup {NoWindow}
  /\ {props, start} \subseteq Rectangles

(* win_props is shared by moves and resizes, of which one at most goes on. *)
OneDrag == mov = NoWindow \/ res = NoWindow

ScwmInv == TypeOK /\ OneDrag /\ MovedIsTracked /\ OppositeEdge /\ OverlayIsCurrent
=============================================================================
