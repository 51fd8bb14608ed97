--------------------------- MODULE SocketConnect ----------------------------
(***************************************************************************)
(* Connecting local sockets (kernel/src/fs/socket.c): one bound server     *)
(* socket, client sockets, and the sockets that accept creates.  A client  *)
(* socket is used by one process, which has its name here.  Both sides     *)
(* sleep in retry loops that pay no attention to signals.  Queues are      *)
(* emptied as a whole by k_proc_process_wakeup_queue, so they are sets.    *)
(* Closing frees the node; the socket_t itself stays (only                 *)
(* __k_fs_socket_remove frees it), so a closed socket can be named still.  *)
(* Notified_Blocked is a faulty variant of the definition that follows it. *)
(***************************************************************************)
EXTENDS Integers, Sequences, FiniteSets

CONSTANTS Clients, Acceptors, None,
          MaxAccepted,    \* bound: sockets created by accept
          MaxBacklog      \* bound: length of the backlog

New == 1..MaxAccepted
Socks == Clients \cup New

SocketConnectAssumption ==
  MaxAccepted \in Nat /\ Clients \cap New = {} /\ None \notin Socks

VARIABLES
  listening,              \* server->listening
  backlog,                \* server->backlog
  blocked_processes,      \* of the server: acceptors
  sel_queue,              \* of the server: sel_queues[SOCK_SEL_QUEUE_R]
  cnn_blocked_processes,  \* of the server: connecting clients
  connect,                \* socket->connect
  nonblock,               \* socket->type & SOCK_NONBLOCK
  open,                   \* sockets whose node exists
  at,                     \* a process: "out", "connect", "accept", "select"
  woken,                  \* processes that are inside a call and not asleep
  irregular,              \* history: clients that called connect again or
                          \* closed while they were in the backlog
  dropped                 \* history: clients whose connection was closed
                          \* before connect returned

vars == <<listening, backlog, blocked_processes, sel_queue, cnn_blocked_processes,
          connect, nonblock, open, at, woken, irregular, dropped>>
waitVars == <<blocked_processes, sel_queue, cnn_blocked_processes, at, woken>>

InBacklog(c) == \E i \in DOMAIN backlog : backlog[i] = c

Init ==
  /\ listening = FALSE
  /\ backlog = << >>
  /\ blocked_processes = {} /\ sel_queue = {} /\ cnn_blocked_processes = {}
  /\ connect = [s \in Socks |-> None]
  /\ nonblock \in [Clients -> BOOLEAN]
  /\ open = Clients
  /\ at = [p \in Clients \cup Acceptors |-> "out"]
  /\ woken = {} /\ irregular = {} /\ dropped = {}

Listen ==
  /\ ~listening /\ listening' = TRUE
  /\ UNCHANGED <<backlog, waitVars, connect, nonblock, open, irregular, dropped>>

Notified_Blocked == blocked_processes

(* Whom a connection request wakes: acceptors and, through                 *)
(* __k_fs_socket_notify, who selects on the server.                        *)
Notified == blocked_processes \cup sel_queue

(* Up to the first sleep, or to -EAGAIN; -EISCONN and -ECONNREFUSED change *)
(* nothing.                                                                *)
Connect(c) ==
  /\ at[c] = "out" /\ c \in open /\ connect[c] = None /\ listening
  /\ Len(backlog) < MaxBacklog
  /\ backlog' = Append(backlog, c)
  /\ irregular' = IF InBacklog(c) THEN irregular \cup {c} ELSE irregular
  /\ IF nonblock[c]
       THEN UNCHANGED <<at, cnn_blocked_processes>>
       ELSE /\ at' = [at EXCEPT ![c] = "connect"]
            /\ cnn_blocked_processes' = cnn_blocked_processes \cup {c}
  /\ woken' = woken \cup Notified
  /\ blocked_processes' = blocked_processes \ Notified
  /\ sel_queue' = sel_queue \ Notified
  /\ UNCHANGED <<listening, connect, nonblock, open, dropped>>

(* while(!socket->connect): return, or sleep once more.                    *)
ConnectResume(c) ==
  /\ at[c] = "connect" /\ c \in woken
  /\ woken' = woken \ {c}
  /\ IF connect[c] # None
       THEN /\ at' = [at EXCEPT ![c] = "out"]
            /\ UNCHANGED cnn_blocked_processes
       ELSE /\ cnn_blocked_processes' = cnn_blocked_processes \cup {c}
            /\ UNCHANGED at
  /\ UNCHANGED <<listening, backlog, blocked_processes, sel_queue, connect, nonblock,
                 open, irregular, dropped>>

(* Whom accept wakes: every connecting client, each looks for itself.      *)
Connected == cnn_blocked_processes

(* The tail of k_fs_socket_accept: a new socket becomes the peer of the    *)
(* client at the head of the backlog.  (A number of New is used again once  *)
(* it is closed, which keeps the model finite.)                            *)
Accepted(a, n) ==
  LET c == Head(backlog) IN
  /\ backlog # << >> /\ n \notin open /\ (\A m \in New : m < n => m \in open)
  /\ backlog' = Tail(backlog)
  /\ connect' = [connect EXCEPT ![c] = n, ![n] = c]
  /\ open' = open \cup {n}
  /\ at' = [at EXCEPT ![a] = "out"]
  /\ woken' = (woken \ {a}) \cup Connected
  /\ cnn_blocked_processes' = cnn_blocked_processes \ Connected
  /\ UNCHANGED <<listening, blocked_processes, sel_queue, nonblock, irregular, dropped>>

AcceptSleeps(a) ==
  /\ backlog = << >>
  /\ at' = [at EXCEPT ![a] = "accept"]
  /\ woken' = woken \ {a}
  /\ blocked_processes' = blocked_processes \cup {a}
  /\ UNCHANGED <<listening, backlog, sel_queue, cnn_blocked_processes, connect, nonblock,
                 open, irregular, dropped>>

(* On a non-blocking server the sleep is -EAGAIN, which changes nothing.   *)
Accept(a) ==
  /\ at[a] = "out" \/ (at[a] = "accept" /\ a \in woken)
  /\ AcceptSleeps(a) \/ \E n \in New : Accepted(a, n)

(* sys_select for reading: check says no, __k_fs_socket_wait.              *)
Select(a) ==
  /\ at[a] = "out" /\ backlog = << >>
  /\ at' = [at EXCEPT ![a] = "select"]
  /\ sel_queue' = sel_queue \cup {a}
  /\ UNCHANGED <<listening, backlog, blocked_processes, cnn_blocked_processes, woken,
                 connect, nonblock, open, irregular, dropped>>

SelectReturns(a) ==
  /\ at[a] = "select" /\ a \in woken
  /\ at' = [at EXCEPT ![a] = "out"] /\ woken' = woken \ {a}
  /\ UNCHANGED <<listening, backlog, blocked_processes, sel_queue, cnn_blocked_processes,
                 connect, nonblock, open, irregular, dropped>>

(* A signal takes a sleeper off its queue.                                 *)
Signal(p) ==
  /\ p \in blocked_processes \cup sel_queue \cup cnn_blocked_processes
  /\ blocked_processes' = blocked_processes \ {p}
  /\ sel_queue' = sel_queue \ {p}
  /\ cnn_blocked_processes' = cnn_blocked_processes \ {p}
  /\ woken' = woken \cup {p}
  /\ UNCHANGED <<listening, backlog, at, connect, nonblock, open, irregular, dropped>>

(* __k_fs_socket_close resets both ends.                                   *)
Disconnected(s) == [t \in Socks |-> IF t = s \/ t = connect[s] THEN None ELSE connect[t]]

(* k_fs_vfs_close of the last descriptor; the node is freed.               *)
Close(s) ==
  /\ s \in open /\ (s \in Clients => at[s] = "out")
  /\ open' = open \ {s}
  /\ connect' = Disconnected(s)
  /\ irregular' = IF s \in Clients /\ InBacklog(s) THEN irregular \cup {s} ELSE irregular
  /\ dropped' = IF connect[s] \in Clients /\ at[connect[s]] = "connect"
                  THEN dropped \cup {connect[s]} ELSE dropped
  /\ UNCHANGED <<listening, backlog, waitVars, nonblock>>

Next ==
  \/ Listen
  \/ \E c \in Clients : Connect(c) \/ ConnectResume(c)
  \/ \E a \in Acceptors : Accept(a) \/ Select(a) \/ SelectReturns(a)
  \/ \E p \in Clients \cup Acceptors : Signal(p)
  \/ \E s \in Socks : Close(s)

Spec == Init /\ [][Next]_vars
----------------------------------------------------------------------------
(* No lost wakeup on the accepting side: whoever sleeps in accept or       *)
(* select for the server leaves no connection request behind it, although  *)
(* requests, other acceptors and signals interleave.                       *)
AcceptorNotForgotten == blocked_processes \cup sel_queue # {} => backlog = << >>

(* No lost wakeup on the connecting side: a client asleep in connect is    *)
(* not connected, and it is in the backlog unless its connection was       *)
(* closed again before it could run (then the code leaves it asleep).      *)
ConnectorNotForgotten ==
  \A c \in cnn_blocked_processes : connect[c] = None /\ (InBacklog(c) \/ c \in dropped)

(* A connection has two ends that name each other and that are open, as    *)
(* __k_fs_socket_write relies on when it follows sock->connect.  The code  *)
(* keeps this only for clients that neither connect again nor close while  *)
(* they are in the backlog.                                                *)
PeersAgree ==
  \A s \in open : connect[s] # None /\ {s, connect[s]} \cap irregular = {} =>
    connect[connect[s]] = s /\ connect[s] \in open
----------------------------------------------------------------------------
(* The inductive invariant of these properties.                            *)
TypeOK ==
  /\ backlog \in Seq(Clients)
  /\ blocked_processes \subseteq Acceptors /\ sel_queue \subseteq Acceptors
  /\ cnn_blocked_processes \subseteq Clients
  /\ connect \in [Socks -> Socks \cup {None}]
  /\ open \subseteq Socks
  /\ at \in [Clients \cup Acceptors -> {"out", "connect", "accept", "select"}]

(* A client is named by the socket it is connected to, and that is open:   *)
(* without exception, as accept and close write both ends.                 *)
ClientsAreNamed ==
  \A c \in Clients : connect[c] # None =>
    connect[c] \in New /\ connect[c] \in open /\ connect[connect[c]] = c

(* The other direction needs a regular client: a second accept of the same *)
(* client leaves the first socket behind.                                  *)
AcceptedAreNamed ==
  \A n \in New : n \in open /\ connect[n] # None =>
    /\ connect[n] \in Clients
    /\ connect[n] \notin irregular => connect[connect[n]] = n /\ connect[n] \in open

(* A regular client is in the backlog once, while it is not connected.     *)
BacklogIsRegular ==
  \A i \in DOMAIN backlog : backlog[i] \notin irregular =>
    /\ connect[backlog[i]] = None /\ backlog[i] \in open
    /\ \A j \in DOMAIN backlog : backlog[j] = backlog[i] => j = i

(* A client inside connect that has no peer is in the backlog, or was      *)
(* dropped; it is asleep only as long as it has none.                      *)
ConnectingIsKnown ==
  /\ \A c \in Clients : at[c] = "connect" => connect[c] # None \/ InBacklog(c) \/ c \in dropped
  /\ \A c \in cnn_blocked_processes : at[c] = "connect" /\ connect[c] = None

ConnectInv ==
  /\ TypeOK /\ AcceptorNotForgotten
  /\ ClientsAreNamed /\ AcceptedAreNamed /\ BacklogIsRegular /\ ConnectingIsKnown
=============================================================================
