--------------------------- MODULE ComposeServer ----------------------------
(***************************************************************************)
(* The compositor's server (libs/libcompose/src/compose.c, events.c and    *)
(* request.c, run by user/compositor): clients, the window tree with its   *)
(* stacking order, the input focus, grabs, and what a client that goes     *)
(* away leaves behind.  The server is one process: a tick handles the      *)
(* requests that have come in, then empties remove_queue, then sends       *)
(* keepalives and drops who does not answer; `EndTick' is the last two.    *)
(* Positions are kept on the diagonal (x = y); a window is one point wide, *)
(* root and overlay are the whole screen.  Requests other than for a focus *)
(* or a grab name windows that clients created; a grab names a window that *)
(* exists (see README).                                                    *)
(* FocusLeft_Top is a faulty variant of the definition that follows it.    *)
(***************************************************************************)
EXTENDS Lists, Integers, SequencesExt, FiniteSetsExt

CONSTANTS MaxClient,      \* bound: connections accepted
          MaxWin,         \* bound: windows created, root and overlay included
          Places,         \* positions a client asks for
          Zs,             \* layers a client asks for with compose_cl_layer
          MaxZ,           \* bound: raises
          MaxGrabs,       \* bound: grabs at a time
          Selects,        \* whether a new window may select focus events
          Masks           \* whether clients change event masks

ComposeServerAssumption ==
  /\ MaxClient \in Nat /\ MaxWin \in Nat /\ MaxWin >= 2 /\ MaxZ \in Nat /\ MaxGrabs \in Nat
  /\ Places \subseteq Int /\ Zs \subseteq Int /\ Masks \in BOOLEAN
  /\ Selects \subseteq BOOLEAN

VARIABLES
  clients,        \* srv->clients
  gone,           \* clients whose end of the socket is closed
  remove_queue,   \* srv->remove_queue
  windows,        \* srv->windows
  win,            \* the compose_window_t of an id, or Free
  window_id,      \* srv->window_id
  client_id,      \* srv->client_id
  input_focus,
  grabs,          \* srv->grabs
  told,           \* history: the last focus event a window's client got said "focus"
  unsure,         \* history: windows whose event mask was changed, or that
                  \* the focus was removed below
  restacked       \* history: a z was changed since the last window was created

vars == <<clients, gone, remove_queue, windows, win, window_id, client_id, input_focus, grabs,
          told, unsure, restacked>>
clientVars == <<clients, gone, remove_queue, client_id>>
history == <<told, unsure, restacked>>

None == 0      \* NULL
root == 1
overlay == 2
Ids  == 1..MaxWin
Free == [live |-> FALSE, parent |-> None, client |-> None, layer |-> 0, xy |-> 0, z |-> 0,
         children |-> << >>, selects |-> FALSE]
Window(par, c, layer, xy, selects) ==
  [live |-> TRUE, parent |-> par, client |-> c, layer |-> layer, xy |-> xy, z |-> 0,
   children |-> << >>, selects |-> selects]

(***************************************************************************)
(* Lists of windows                                                        *)
(***************************************************************************)
(* list_sort: an insertion sort, so elements that compare equal keep their *)
(* order.                                                                  *)
list_sort(s, Greater(_, _)) ==
  LET Put(t, x) == LET k == Max({0} \cup {j \in DOMAIN t : ~Greater(t[j], x)})
                   IN SubSeq(t, 1, k) \o <<x>> \o SubSeq(t, k + 1, Len(t))
  IN FoldLeft(Put, << >>, s)

(* __compose_sort_windows_list                                             *)
ListGreater(f, a, b) ==
  IF f[a].layer = f[b].layer THEN f[a].z > f[b].z ELSE f[a].layer > f[b].layer

(* compose_sv_restack for the children of p; a list whose windows did not  *)
(* change is sorted already, so the recursion below p changes nothing.     *)
restack(f, p) ==
  IF p = None THEN f
  ELSE [f EXCEPT ![p].children = list_sort(@, LAMBDA a, b : f[a].z > f[b].z)]

(* The windows on the way from w to the top, w included.  Root and overlay *)
(* have no parent, so MaxWin - 2 steps reach the end.                       *)
Ancestors(f, w) ==
  LET Up(S) == S \cup {f[x].parent : x \in S \ {None}}
      Steps[k \in 0..MaxWin] == IF k = 0 THEN {w} ELSE Up(Steps[k - 1])
  IN Steps[MaxWin - 2] \ {None}

(* What compose_sv_remove_window recurses into.                            *)
Subtree(f, w) ==
  LET Down(S) == S \cup UNION {ToSet(f[x].children) : x \in S}
      Steps[k \in 0..MaxWin] == IF k = 0 THEN {w} ELSE Down(Steps[k - 1])
  IN Steps[MaxWin - 2]

(* compose_sv_event_propagate: the windows whose clients get an event.     *)
Reached(f, w) == {x \in Ancestors(f, w) : f[x].selects /\ f[x].client # None}

(* compose_sv_focus: UNFOCUS from the old focus up, FOCUS from the new one *)
(* up.                                                                     *)
Told(f, t, old, new) ==
  [x \in Ids |-> IF x \in Reached(f, new) THEN TRUE
                 ELSE IF old # None /\ x \in Reached(f, old) THEN FALSE ELSE t[x]]

Init ==
  /\ clients = << >> /\ gone = {} /\ remove_queue = << >>
  /\ windows = <<root, overlay>>
  /\ win = [i \in Ids |-> IF i \in {root, overlay} THEN Window(None, None, 0, 0, FALSE) ELSE Free]
  /\ window_id = overlay /\ client_id = 0
  /\ input_focus = overlay /\ grabs = << >>
  /\ told = [i \in Ids |-> FALSE] /\ unsure = {} /\ restacked = FALSE

(* accept in compose_sv_tick, __compose_add_client.                        *)
Accept ==
  /\ client_id < MaxClient
  /\ client_id' = client_id + 1
  /\ clients' = list_push_back(clients, client_id')
  /\ UNCHANGED <<gone, remove_queue, windows, win, window_id, input_focus, grabs, history>>

(* A client closes its end, or exits.                                      *)
PeerGone(c) ==
  /\ c \notin gone
  /\ gone' = gone \cup {c}
  /\ UNCHANGED <<clients, remove_queue, client_id, windows, win, window_id, input_focus, grabs, history>>

(***************************************************************************)
(* Requests (compose_sv_handle_request)                                    *)
(***************************************************************************)
(* compose_sv_create_window: a parent that does not exist counts as none.  *)
NewWin(c, par, xy, selects) ==
  LET id == window_id + 1
      p  == IF par # None /\ win[par].live THEN par ELSE None
      layer == IF p = None THEN 0 ELSE win[p].layer + 1
      w1 == [win EXCEPT ![id] = Window(p, c, layer, xy, selects)]
      w2 == IF p = None THEN w1 ELSE [w1 EXCEPT ![p].children = list_push_back(@, id)]
      f  == restack(w2, p) IN
  /\ window_id < MaxWin
  /\ window_id' = id
  /\ win' = f
  /\ windows' = list_sort(list_push_back(windows, id), LAMBDA a, b : ListGreater(f, a, b))
  /\ input_focus' = id
  /\ told' = Told(f, told, input_focus, id)
  /\ restacked' = FALSE
  /\ UNCHANGED <<clientVars, grabs, unsure>>

Focus(w) ==
  LET new == IF win[w].live THEN w ELSE root IN
  /\ input_focus' = new
  /\ told' = Told(win, told, input_focus, new)
  /\ UNCHANGED <<clientVars, windows, win, window_id, grabs, unsure, restacked>>

Grab(c, w) ==
  /\ win[w].live /\ Len(grabs) < MaxGrabs
  /\ grabs' = list_push_back(grabs, [win |-> w, client |-> c])
  /\ UNCHANGED <<clientVars, windows, win, window_id, input_focus, history>>

EvMask(w) ==
  /\ win[w].live
  /\ win' = [win EXCEPT ![w].selects = ~@]
  /\ unsure' = unsure \cup {w}
  /\ UNCHANGED <<clientVars, windows, window_id, input_focus, grabs, told, restacked>>

(* COMPOSE_MOVE_X, COMPOSE_MOVE_Y.                                         *)
Move(w, xy) ==
  /\ win[w].live /\ win' = [win EXCEPT ![w].xy = xy]
  /\ UNCHANGED <<clientVars, windows, window_id, input_focus, grabs, history>>

(* COMPOSE_MOVE_Z                                                          *)
SetZ(w, z) == restack([win EXCEPT ![w].z = z], win[w].parent)

Layer(w, z) ==
  /\ win[w].live /\ win' = SetZ(w, z)
  /\ restacked' = TRUE
  /\ UNCHANGED <<clientVars, windows, window_id, input_focus, grabs, told, unsure>>

Above(highest) == highest + 1

(* compose_sv_raise; COMPOSE_MOVE_SUNK raises too.                         *)
Raise(w) ==
  LET siblings == win[win[w].parent].children
      top == list_tail(siblings) IN
  /\ win[w].live /\ win[w].parent # None
  /\ IF top = w \/ (win[w].xy = -1 /\ win[w].z = -1)
       THEN UNCHANGED <<win, restacked>>
       ELSE /\ win[top].z < MaxZ
            /\ win' = SetZ(w, Above(win[top].z))
            /\ restacked' = TRUE
  /\ UNCHANGED <<clientVars, windows, window_id, input_focus, grabs, told, unsure>>

(* COMPOSE_REQ_DISCONNECT, the last request of a client.                   *)
Disconnect(c) ==
  /\ remove_queue' = list_push_back(remove_queue, c)
  /\ UNCHANGED <<clients, gone, client_id, windows, win, window_id, input_focus, grabs, history>>


FocusLeft(f, focus, w) == IF focus \in Subtree(f, w) THEN None ELSE focus

(* compose_sv_remove_window with notify_parent.                            *)
remove_window(s, w) ==
  LET D == Subtree(s.win, w)
      p == s.win[w].parent IN
  [s EXCEPT
     !.focus = FocusLeft(s.win, @, w),
     !.windows = SelectSeq(@, LAMBDA x : x \notin D),
     !.grabs = SelectSeq(@, LAMBDA g : g.win \notin D),
     !.win = [x \in Ids |-> IF x \in D THEN Free
                            ELSE IF x = p THEN [s.win[x] EXCEPT !.children = list_delete_element(@, w)]
                            ELSE s.win[x]]]

(* The windows compose_sv_disconnect removes, with what is below them.     *)
Tops(s, c) == {w \in Ids : s.win[w].client = c /\ s.win[w].parent \in {None, root}}

KeptGrabs(s, c) == SelectSeq(s.grabs, LAMBDA g : g.client # c)

disconnect(s, c) ==
  LET t == FoldSet(LAMBDA w, acc : remove_window(acc, w), s, Tops(s, c)) IN
  [t EXCEPT !.clients = list_delete_element(@, c), !.grabs = KeptGrabs(t, c)]

(* remove_queue is emptied from its back; compose_sv_send_keepalive then   *)
(* drops the clients whose socket says ENOTCONN.                           *)
EndTick ==
  LET now  == [clients |-> clients, windows |-> windows, win |-> win, focus |-> input_focus,
               grabs |-> grabs]
      left == FoldLeft(disconnect, now, Reverse(remove_queue))
      end  == FoldLeft(disconnect, left, SelectSeq(left.clients, LAMBDA c : c \in gone)) IN
  /\ ToSet(clients) \cap gone # {} \/ remove_queue # << >>
  /\ clients' = end.clients /\ windows' = end.windows /\ win' = end.win
  /\ input_focus' = end.focus /\ grabs' = end.grabs
  /\ remove_queue' = << >>
  /\ unsure' = IF end.focus = input_focus THEN unsure
               ELSE unsure \cup Reached(win, input_focus)
  /\ told' = [w \in Ids |-> end.win[w].live /\ told[w]]
  /\ UNCHANGED <<gone, window_id, client_id, restacked>>

Request(c) ==
  \/ \E par \in 0..MaxWin, xy \in Places, sel \in Selects : NewWin(c, par, xy, sel)
  \/ \E w \in Ids : Focus(w) \/ Grab(c, w)
  \/ \E w \in Ids \ {root, overlay} : \/ Raise(w)
                                      \/ Masks /\ EvMask(w)
                                      \/ \E xy \in Places : Move(w, xy)
                                      \/ \E z \in Zs : Layer(w, z)
  \/ Disconnect(c)

Next ==
  \/ Accept
  \/ \E c \in ToSet(clients) : PeerGone(c)
  \/ \E c \in ToSet(clients) \ ToSet(remove_queue) : Request(c)
  \/ EndTick

Spec == Init /\ [][Next]_vars

Live == {w \in Ids : win[w].live}

(* Whatever clients come and go, the focus and the grabs name windows that *)
(* exist, the grabs clients that are connected, and every window of the    *)
(* tree is in its parent's list once, and only there: the server follows   *)
(* none of these pointers into freed memory.  win->client is not among     *)
(* them: see the next property.                                            *)
NothingDangles ==
  /\ input_focus = None \/ input_focus \in Live
  /\ \A i \in DOMAIN grabs : grabs[i].win \in Live /\ grabs[i].client \in ToSet(clients)
  /\ ToSet(windows) = Live /\ Len(windows) = Cardinality(Live)
  /\ \A w \in Live : /\ win[w].parent # None => win[w].parent \in Live
                     /\ Len(win[w].children) = Cardinality(ToSet(win[w].children))
                     /\ ToSet(win[w].children) = {x \in Live : win[x].parent = w}

(* A window outlives its client, and then keeps a pointer to the client    *)
(* that was freed, only below a window of somebody else, or below the      *)
(* overlay: compose_sv_disconnect reaches all the others.                  *)
OrphansAreNested ==
  \A w \in Live : win[w].client \notin ToSet(clients) \cup {None} =>
    LET top == CHOOSE x \in Ancestors(win, w) : win[x].parent \in {None, root}
    IN win[top].client # win[w].client

(* Every list of children is ordered by z: what is drawn last is highest.  *)
ChildrenAreOrdered ==
  \A w \in Live : LET ch == win[w].children IN
    \A i, j \in DOMAIN ch : i < j => win[ch[i]].z <= win[ch[j]].z

(* Raising a window puts it above all its siblings.                        *)
RaisedIsOnTop ==
  \A w \in Ids : Raise(w) /\ ~(win[w].xy = -1 /\ win[w].z = -1)
    => list_tail(win'[win[w].parent].children) = w

(* A client whose window selects focus events knows whether the input      *)
(* focus is in the window or below it, unless the window's event mask was  *)
(* changed, or a focused window was removed below it: that is not told to  *)
(* anybody (`unsure').                                                     *)
FocusIsKnown ==
  \A w \in Live \ unsure : win[w].selects /\ win[w].client \in ToSet(clients) =>
    (told[w] <=> input_focus # None /\ w \in Ancestors(win, input_focus))

(* compose_sv_translate_abs                                                *)
Place(w) == MapThenSumSet(LAMBDA x : win[x].xy, Ancestors(win, w))
Covers(w) == w \in {root, overlay} \/ Place(w) = 0

(* compose_sv_get_window_at(0, 0): the highest window of srv->windows.     *)
get_window_at ==
  LET hit == {i \in DOMAIN windows : windows[i] # overlay /\ Covers(windows[i])}
  IN windows[Max(hit)]

(* While every window is on the root, the layers differ and none was       *)
(* changed since the last window was created, by a raise or otherwise      *)
(* (`restacked'), the pointer finds the window that is drawn on top.       *)
(* srv->windows is sorted only when a window is created: after a raise the *)
(* pointer still finds the window that was on top before.                  *)
PointerFindsTheTop ==
  LET ch == win[root].children
      shown == {i \in DOMAIN ch : Covers(ch[i])} IN
  /\ ~restacked /\ \A w \in Live \ {root, overlay} : win[w].parent = root
  /\ \A v, w \in ToSet(ch) : v # w => win[v].z # win[w].z
  => get_window_at = IF shown = {} THEN root ELSE ch[Max(shown)]
=============================================================================
