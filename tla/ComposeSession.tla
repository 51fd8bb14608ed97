--------------------------- MODULE ComposeSession ---------------------------
(***************************************************************************)
(* The conversation between the compositor and one client that uses        *)
(* libcompose and libwidgets: requests and events on a socket that keeps   *)
(* their order, the calls of the client that wait for one kind of event    *)
(* and raise the others for later, and the handshake that resizes a        *)
(* window.  The window manager is the third party: it resizes windows as   *)
(* soon as they exist.  A size is one number; the buffer of a window is    *)
(* known by the size it was made for.  Events carry the number of their    *)
(* sending, which only the properties look at.                             *)
(* HasWidget_Root and Raised_Front are faulty variants.                    *)
(***************************************************************************)
EXTENDS Integers, Sequences, FiniteSets, Functions

CONSTANTS Sizes, First,   \* sizes of windows; the size a window is created with
          MaxWin,         \* bound: windows created by anybody
          MaxResize,      \* bound: sizes asked for
          MaxOther        \* bound: key and keepalive events, and PROPS requests

ComposeSessionAssumption ==
  /\ First \in Sizes /\ 0 \notin Sizes
  /\ MaxWin \in Nat /\ MaxResize \in Nat /\ MaxOther \in Nat

VARIABLES
  selects,      \* the client gets the WIN events of other clients' windows
  requests,     \* client to server
  events,       \* server to client
  created,      \* windows the server made for the client, in order
  window_id,    \* srv->window_id
  win,          \* size: win->sizes; data: size of the buffer the server has mapped;
                \* in: COMPOSE_WIN_FLAGS_IN_RESIZE; delayed: delayed_resize_size, 0
                \* without COMPOSE_WIN_FLAGS_HAS_DELAYED_RESIZE
  gc,           \* size in the shared compose_gc_t, and of the buffer it names
  pc,           \* client: "loop", "create" or "props"
  own,          \* windows the client believes it created, in order
  raised,       \* the client's __raised_events
  sent,         \* history: number of the last event sent
  delivered,    \* history: numbers of the events the main loop got
  taken,        \* history: numbers of the events a waiting call kept
  wanted,       \* history: the last size the server was asked for
  resizes, others   \* counters for the bounds

vars == <<selects, requests, events, created, window_id, win, gc, pc, own, raised, sent,
          delivered, taken, wanted, resizes, others>>
clientVars == <<gc, pc, own, raised, delivered, taken>>

Wins == 1..MaxWin
Event(type, w, s) == [type |-> type, win |-> w, size |-> s, n |-> sent + 1]
Request(type, w, s) == [type |-> type, win |-> w, size |-> s]

Init ==
  /\ selects \in BOOLEAN
  /\ requests = << >> /\ events = << >> /\ created = << >> /\ window_id = 0
  /\ win = [w \in Wins |-> [size |-> First, data |-> First, in |-> FALSE, delayed |-> 0]]
  /\ gc = [w \in Wins |-> First] /\ wanted = [w \in Wins |-> First]
  /\ pc = "loop" /\ own = << >> /\ raised = << >>
  /\ sent = 0 /\ delivered = << >> /\ taken = {} /\ resizes = 0 /\ others = 0

(***************************************************************************)
(* The server                                                              *)
(***************************************************************************)
(* compose_sv_event_send                                                   *)
Send(e) == events' = Append(events, e) /\ sent' = e.n
NoSend == UNCHANGED <<events, sent>>

InResize(r) == r.in

(* compose_sv_start_resize: the window afterwards, and the size of the     *)
(* RESIZE event, 0 when there is none.                                     *)
start_resize(r, s) ==
  IF InResize(r) THEN [win |-> [r EXCEPT !.delayed = s], ev |-> 0]
  ELSE IF r.size = s THEN [win |-> r, ev |-> 0]
  ELSE [win |-> [r EXCEPT !.in = TRUE], ev |-> s]

(* compose_sv_apply_size: the buffer the client named is mapped, and a     *)
(* size that was asked for meanwhile starts the next resize.               *)
apply_size(r, g) ==
  LET done == [r EXCEPT !.size = g, !.data = g, !.in = FALSE, !.delayed = 0] IN
  IF ~r.in THEN [win |-> r, ev |-> 0]
  ELSE IF r.delayed = 0 THEN [win |-> done, ev |-> 0]
  ELSE start_resize(done, r.delayed)

Becomes(w, r) ==
  /\ win' = [win EXCEPT ![w] = r.win]
  /\ IF r.ev = 0 THEN NoSend ELSE Send(Event("resize", w, r.ev))

(* The window manager's COMPOSE_REQ_RESIZE.                                *)
WmResize(w, s) ==
  /\ w \in Range(created) /\ resizes < MaxResize
  /\ resizes' = resizes + 1 /\ wanted' = [wanted EXCEPT ![w] = s]
  /\ Becomes(w, start_resize(win[w], s))
  /\ UNCHANGED <<selects, requests, created, window_id, clientVars, others>>

(* The bound on windows leaves room for the ones already asked for.         *)
Room == window_id + Cardinality({i \in DOMAIN requests : requests[i].type = "newwin"}) < MaxWin

(* compose_sv_event_propagate: whether the root window's WIN events reach  *)
(* the client.                                                             *)
Selected == selects

(* compose_sv_create_window for somebody else's request.                   *)
OtherWin ==
  /\ Room /\ window_id' = window_id + 1
  /\ IF Selected THEN Send(Event("win", window_id', 0)) ELSE NoSend
  /\ UNCHANGED <<selects, requests, created, win, clientVars, wanted, resizes, others>>

(* A key, or compose_sv_send_keepalive.                                    *)
Other(type) ==
  /\ others < MaxOther /\ others' = others + 1
  /\ Send(Event(type, 0, 0))
  /\ UNCHANGED <<selects, requests, created, window_id, win, clientVars, wanted, resizes>>

(* compose_sv_handle_request of the client's next request.                 *)
Handle ==
  LET q == Head(requests) IN
  /\ requests # << >> /\ requests' = Tail(requests)
  /\ \/ /\ q.type = "newwin"
        /\ window_id' = window_id + 1
        /\ created' = Append(created, window_id')
        /\ Send(Event("win", window_id', 0)) /\ UNCHANGED win
     \/ /\ q.type = "confirm" /\ Becomes(q.win, apply_size(win[q.win], gc[q.win]))
        /\ UNCHANGED <<created, window_id>>
     \/ /\ q.type = "props" /\ Send(Event("props", q.win, win[q.win].size))
        /\ UNCHANGED <<created, window_id, win>>
     \/ /\ q.type = "keepalive" /\ NoSend
        /\ UNCHANGED <<created, window_id, win>>
  /\ UNCHANGED <<selects, clientVars, wanted, resizes, others>>

(***************************************************************************)
(* The client                                                              *)
(***************************************************************************)
serverVars == <<selects, created, window_id, win, sent, wanted, resizes>>

(* compose_cl_create_window and compose_cl_get_properties, up to the wait. *)
Create ==
  /\ pc = "loop" /\ Room
  /\ pc' = "create" /\ requests' = Append(requests, Request("newwin", 0, 0))
  /\ UNCHANGED <<serverVars, events, gc, own, raised, delivered, taken, others>>

GetProperties(w) ==
  /\ pc = "loop" /\ others < MaxOther /\ others' = others + 1
  /\ pc' = "props" /\ requests' = Append(requests, Request("props", w, 0))
  /\ UNCHANGED <<serverVars, events, gc, own, raised, delivered, taken>>

(* What compose_cl_event_poll sends when it reads a KEEPALIVE.             *)
Answered(e) == IF e.type = "keepalive" THEN Append(requests, Request("keepalive", 0, 0))
               ELSE requests

Raised_Front(e) == <<e>> \o raised

(* compose_cl_event_raise                                                  *)
Raised(e) == Append(raised, e)

Awaited == IF pc = "create" THEN "win" ELSE "props"

(* A waiting call polls with raised = 0.                                   *)
Wait ==
  LET e == Head(events) IN
  /\ pc \in {"create", "props"} /\ events # << >>
  /\ events' = Tail(events) /\ requests' = Answered(e)
  /\ IF e.type = Awaited
       THEN /\ pc' = "loop" /\ taken' = taken \cup {e.n}
            /\ own' = IF pc = "create" THEN Append(own, e.win) ELSE own
            /\ UNCHANGED raised
       ELSE raised' = Raised(e) /\ UNCHANGED <<pc, taken, own>>
  /\ UNCHANGED <<serverVars, gc, delivered, others>>

HasWidget_Root(w) == own # << >> /\ w = own[1]

(* __widget_try_event: the widget of a window.                             *)
HasWidget(w) == w \in Range(own)

(* widgets_tick, widget_handle_resize: resize_gc, then the           *)
(* confirmation.  Events for a window without a widget are dropped.        *)
Process(e) ==
  /\ delivered' = Append(delivered, e.n)
  /\ IF e.type = "resize" /\ HasWidget(e.win)
       THEN /\ gc' = [gc EXCEPT ![e.win] = e.size]
            /\ requests' = Append(requests, Request("confirm", e.win, 0))
       ELSE UNCHANGED <<gc, requests>>

(* widgets_tick, with an event that was raised before.                     *)
PollRaised ==
  /\ pc = "loop" /\ raised # << >>
  /\ Process(Head(raised)) /\ raised' = Tail(raised)
  /\ UNCHANGED <<serverVars, events, pc, own, taken, others>>

(* widgets_tick, with the next event of the socket.                        *)
Poll ==
  LET e == Head(events) IN
  /\ pc = "loop" /\ raised = << >> /\ events # << >>
  /\ events' = Tail(events)
  /\ IF e.type = "keepalive"
       THEN /\ requests' = Answered(e) /\ delivered' = Append(delivered, e.n)
            /\ UNCHANGED gc
       ELSE Process(e)
  /\ UNCHANGED <<serverVars, pc, own, raised, taken, others>>

Server == Handle
Client == Wait \/ PollRaised \/ Poll

Next ==
  \/ Server \/ Client \/ Create \/ OtherWin
  \/ \E w \in Wins, s \in Sizes : WmResize(w, s)
  \/ \E w \in Range(own) : GetProperties(w)
  \/ \E type \in {"key", "keepalive"} : Other(type)

(* The server ticks for ever, and a client reads its socket in its loop;   *)
(* nothing makes anybody send requests.                                    *)
Spec == Init /\ [][Next]_vars /\ WF_vars(Server) /\ WF_vars(Client)

(***************************************************************************)
(* Properties                                                              *)
(***************************************************************************)
RequestRecs == [type : {"newwin", "keepalive"}, win : {0}, size : {0}]
                 \cup [type : {"confirm", "props"}, win : Wins, size : {0}]
EventRecs == [type : {"key", "keepalive"}, win : {0}, size : {0}, n : Nat]
               \cup [type : {"win"}, win : Wins, size : {0}, n : Nat]
               \cup [type : {"props", "resize"}, win : Wins, size : Sizes, n : Nat]

Numbers(s) == [i \in DOMAIN s |-> s[i].n]

(* The main loop gets every event that no waiting call kept, once and in   *)
(* the order of sending, although compose_cl_create_window and             *)
(* compose_cl_get_properties read ahead of it.                             *)
EventsInOrder ==
  LET all == delivered \o Numbers(raised) \o Numbers(events) IN
  /\ \A i, j \in DOMAIN all : i < j => all[i] < all[j]
  /\ Range(all) = (1..sent) \ taken

(* compose_cl_create_window returns the window that was created for it,    *)
(* unless the client asked for the WIN events of others.                   *)
OwnWindowIsOwn ==
  ~selects => Len(own) <= Len(created) /\ \A i \in DOMAIN own : own[i] = created[i]

(* Elements of a sequence that are in X, and what of a resize is under way.*)
Count(s, X) == Cardinality({i \in DOMAIN s : s[i] \in X})
Resizes(w)  == {e \in EventRecs : e.type = "resize" /\ e.win = w}
Confirms(w) == {q \in RequestRecs : q.type = "confirm" /\ q.win = w}
Pending(w)  == Count(events, Resizes(w)) + Count(raised, Resizes(w)) + Count(requests, Confirms(w))

(* At most one resize of a window is under way; only then do the buffer    *)
(* that the client draws into and the one the server shows differ.         *)
OneResizeAtATime ==
  \A w \in Wins : /\ Pending(w) <= 1
                  /\ win[w].data = win[w].size
                  /\ gc[w] # win[w].data => win[w].in

(* When nothing is under way a window has the size it was last asked for.  *)
LastSizeWins ==
  \A w \in Range(created) : ~win[w].in => win[w].size = wanted[w] /\ win[w].delayed = 0

(* A resize ends, as long as the client knows its windows.                 *)
ResizeEnds ==
  \A w \in Wins : (win[w].in /\ ~selects) ~> ~win[w].in

(***************************************************************************)
(* The inductive invariant behind them                                     *)
(***************************************************************************)
TypeOK ==
  /\ requests \in Seq(RequestRecs) /\ events \in Seq(EventRecs) /\ raised \in Seq(EventRecs)
  /\ created \in Seq(Wins) /\ own \in Seq(Wins) /\ window_id \in Nat
  /\ win \in [Wins -> [size : Sizes, data : Sizes, in : BOOLEAN, delayed : Sizes \cup {0}]]
  /\ gc \in [Wins -> Sizes] /\ wanted \in [Wins -> Sizes]
  /\ pc \in {"loop", "create", "props"} /\ sent \in Nat /\ delivered \in Seq(Nat)

NewWins == {q \in RequestRecs : q.type = "newwin"}

(* Three sequences that follow each other and hold the numbers up to n     *)
(* that are not in T.                                                      *)
Increasing(s) == \A i, j \in DOMAIN s : i < j => s[i] < s[j]
InOrder(a, b, c, n, T) ==
  /\ Increasing(a) /\ Increasing(b) /\ Increasing(c)
  /\ \A x \in Range(a), y \in Range(b) \cup Range(c) : x < y
  /\ \A x \in Range(b), y \in Range(c) : x < y
  /\ Range(a) \cup Range(b) \cup Range(c) = (1..n) \ T /\ T \subseteq 1..n

NoneOf(s, type) == \A i \in DOMAIN s : s[i].type # type
OneOf(s, type)  == \A i, j \in DOMAIN s : s[i].type = type /\ s[j].type = type => i = j

(* Of the events s only one is a WIN event: that of the window that c has  *)
(* and o has not.                                                          *)
Answers(s, o, c) ==
  \E i \in DOMAIN s : /\ s[i].type = "win" /\ c = Append(o, s[i].win)
                      /\ \A j \in DOMAIN s : s[j].type = "win" => j = i

(* A client that gets no WIN events of others has at most one window under *)
(* way: as a request or as the event that answers it.                      *)
CreationIsOwn ==
  ~selects =>
    \/ pc # "create" /\ own = created /\ NoneOf(requests, "newwin") /\ NoneOf(events, "win")
    \/ pc = "create" /\ own = created /\ OneOf(requests, "newwin") /\ NoneOf(events, "win")
    \/ pc = "create" /\ NoneOf(requests, "newwin") /\ Answers(events, own, created)

(* The RESIZE events of w in s carry the size z.                           *)
AskedFor(w, s, z) == \A i \in DOMAIN s : s[i] \in Resizes(w) => s[i].size = z

(* What is known of window w, which is r at the server and g at the client:*)
(* the size under way is the last one asked for, z, or that one is delayed.*)
Known(w, r, g, z, ev, ra, rq) ==
  LET p == Count(ev, Resizes(w)) + Count(ra, Resizes(w)) + Count(rq, Confirms(w))
  IN  /\ r.data = r.size /\ p <= 1
      /\ ~r.in => p = 0 /\ g = r.size /\ r.size = z /\ r.delayed = 0
      /\ r.delayed # 0 => r.delayed = z
      /\ r.delayed = 0 => /\ AskedFor(w, ev, z) /\ AskedFor(w, ra, z)
                          /\ Count(rq, Confirms(w)) > 0 => g = z

SizesAreKnown ==
  \A w \in Wins : Known(w, win[w], gc[w], wanted[w], events, raised, requests)

SessionInv ==
  /\ TypeOK /\ window_id + Count(requests, NewWins) <= MaxWin
  /\ InOrder(delivered, Numbers(raised), Numbers(events), sent, taken)
  /\ CreationIsOwn /\ SizesAreKnown
=============================================================================
