---------------------------- MODULE System_proofs ---------------------------
(***************************************************************************)
(* Proofs about the parts of System, one section for each.  A section      *)
(* shows that the part's inductive invariant holds at first and is kept by *)
(* each action; the theorems at its end say so of the whole module, in     *)
(* whose behaviours one part runs and the others stand still.              *)
(***************************************************************************)
EXTENDS System, FiniteSetTheorems, WellFoundedInduction, TLAPS

(***************************************************************************)
(* Restarted system calls                                                  *)
(***************************************************************************)

(* A set of numbers that is not empty has a least one.                     *)
LEMMA LeastElement ==
  ASSUME NEW X, X \subseteq Nat, X # {}
  PROVE  \E s \in X : \A t \in X : s <= t
<1>1. PICK s \in X : \A t \in X : ~ (<<t, s>> \in OpToRel(<, Nat))
  BY NatLessThanWellFounded, WFMin
<1>2. ASSUME NEW t \in X
      PROVE  s <= t
  <2>1. ~(t < s)
    BY <1>1 DEF OpToRel
  <2> QED
    BY <2>1
<1> QED
  BY <1>2

(* The handler that is entered is that of one of the signals queued.       *)
LEMMA StopIsSignal ==
  ASSUME R!TypeOK, R!Enters
  PROVE  R!Stop \in Signals
<1>1. R!Stops \subseteq Nat /\ R!Stops # {} /\ R!Stops \subseteq Signals
  BY SystemAssumption DEF R!TypeOK, R!Enters, R!Stops, R!RestartAssumption
<1>2. \E s \in R!Stops : \A t \in R!Stops : s <= t
  BY <1>1, LeastElement
<1> QED
  BY <1>1, <1>2 DEF R!Stop

(* The sequence s without its last element, and with another one instead.  *)
LEMMA FrontFacts ==
  ASSUME NEW X, NEW s \in Seq(X), s # << >>
  PROVE  LET t == SubSeq(s, 1, Len(s) - 1)
         IN  /\ t \in Seq(X) /\ Len(t) = Len(s) - 1 /\ Len(s) \in Nat \ {0}
             /\ DOMAIN t = 1..(Len(s) - 1) /\ DOMAIN s = 1..Len(s)
             /\ \A k \in 1..(Len(s) - 1) : t[k] = s[k]
<1>1. Len(s) \in Nat \ {0} /\ DOMAIN s = 1..Len(s) /\ \A k \in 1..Len(s) : s[k] \in X
  OBVIOUS
<1> DEFINE t == SubSeq(s, 1, Len(s) - 1)
           n == Len(s) - 1
<1>2. n \in Nat /\ 1..n \subseteq 1..Len(s)
  BY <1>1
<1>3. t \in Seq(X) /\ Len(t) = n /\ \A k \in 1..n : t[k] = s[k]
  BY <1>1, <1>2
<1> QED
  BY <1>1, <1>2, <1>3

LEMMA ReplaceLast ==
  ASSUME NEW X, NEW s \in Seq(X), s # << >>, NEW x \in X
  PROVE  LET t == Append(SubSeq(s, 1, Len(s) - 1), x)
         IN  /\ t \in Seq(X) /\ DOMAIN t = DOMAIN s
             /\ \A k \in DOMAIN s : t[k] = IF k = Len(s) THEN x ELSE s[k]
<1> DEFINE t == SubSeq(s, 1, Len(s) - 1)
<1>1. /\ t \in Seq(X) /\ Len(t) = Len(s) - 1 /\ Len(s) \in Nat \ {0}
      /\ DOMAIN s = 1..Len(s) /\ \A k \in 1..(Len(s) - 1) : t[k] = s[k]
  BY FrontFacts
<1> HIDE DEF t
<1>2. /\ Append(t, x) \in Seq(X) /\ Len(Append(t, x)) = Len(s)
      /\ DOMAIN Append(t, x) = 1..Len(s)
      /\ \A k \in 1..Len(s) : Append(t, x)[k] = IF k = Len(s) THEN x ELSE t[k]
  BY <1>1
<1>3. \A k \in 1..Len(s) : Append(t, x)[k] = IF k = Len(s) THEN x ELSE s[k]
  BY <1>1, <1>2
<1> QED
  BY <1>1, <1>2, <1>3 DEF t

(* Two sequences in a row, and what is left of one after its first n.      *)
LEMMA ConcatFacts ==
  \A s, t \in Seq(Nat) :
    /\ s \o t \in Seq(Nat) /\ Len(s \o t) = Len(s) + Len(t)
    /\ \A i \in 1..Len(s) : (s \o t)[i] = s[i]
    /\ \A i \in 1..Len(t) : (s \o t)[Len(s) + i] = t[i]
  OBVIOUS

LEMMA DropFacts ==
  ASSUME NEW X, NEW s \in Seq(X), NEW n \in Nat, n <= Len(s)
  PROVE  LET t == SubSeq(s, n + 1, Len(s))
         IN  /\ t \in Seq(X) /\ Len(t) = Len(s) - n
             /\ \A i \in 1..(Len(s) - n) : i + n \in 1..Len(s) /\ t[i] = s[i + n]
<1> DEFINE t == SubSeq(s, n + 1, Len(s))
<1>1. Len(s) \in Nat
  OBVIOUS
<1>2. Len(t) = Len(s) - n
  BY <1>1
<1>3. \A i \in 1..(Len(s) - n) : i + n \in 1..Len(s)
  BY <1>1
<1>4. \A i \in 1..(Len(s) - n) : t[i] = s[i + n]
  BY <1>1
<1>5. t \in Seq(X)
  BY <1>1
<1> QED
  BY <1>2, <1>3, <1>4, <1>5

LEMMA InitRestart == R!Init => R!RestartInv
<1> SUFFICES ASSUME R!Init
             PROVE  R!RestartInv
  OBVIOUS
<1>1. R!TypeOK
  BY DEF R!Init, R!TypeOK, R!Context, R!Results
<1> QED
  BY <1>1 DEF R!Init, R!RestartInv, R!RestartIsNotSeen, R!RestartIsOwn, R!OneWaits

(* A handler is entered on a context, or the program gets the result: the  *)
(* contexts are those of before and, if a handler is entered, this one.    *)
LEMMA ProcessSignals ==
  ASSUME R!TypeOK, NEW r \in R!Results, NEW a \in Calls \cup {None},
         R!process_signals(r, a)
  PROVE  /\ frames' \in Seq(R!Context) /\ eax' \in R!Results
         /\ signal_queue' \subseteq Signals
         /\ \A k \in DOMAIN frames : k \in DOMAIN frames' /\ frames'[k] = frames[k]
         /\ R!Enters => /\ Len(frames) + 1 \in DOMAIN frames'
                        /\ frames'[Len(frames) + 1].eax = r
                        /\ frames'[Len(frames) + 1].args = a
                        /\ DOMAIN frames' = DOMAIN frames \cup {Len(frames) + 1}
                        /\ eax' = "none"
         /\ ~R!Enters => frames' = frames /\ eax' = r
<1>1. signal_queue' \subseteq Signals
  BY DEF R!process_signals, R!TypeOK
<1>2. CASE R!Enters
  <2>1. R!Stop \in Signals
    BY <1>2, StopIsSignal
  <2> DEFINE f == [eax |-> r, args |-> a, sig |-> R!Stop]
  <2>2. f \in R!Context
    BY <2>1 DEF R!Context
  <2>3. frames' = Append(frames, f) /\ eax' = "none"
    BY <1>2 DEF R!process_signals
  <2>4. f.eax = r /\ f.args = a
    OBVIOUS
  <2>5. frames \in Seq(R!Context)
    BY DEF R!TypeOK
  <2> HIDE DEF f
  <2> QED
    BY <1>1, <1>2, <2>2, <2>3, <2>4, <2>5 DEF R!Results
<1>3. CASE ~R!Enters
  BY <1>1, <1>3 DEF R!process_signals, R!TypeOK
<1> QED
  BY <1>2, <1>3

LEMMA NextRestart ==
  ASSUME R!RestartInv, R!Next
  PROVE  R!RestartInv'
<1>0. /\ R!TypeOK /\ (mode = "call" => cur.num # None)
      /\ R!RestartIsNotSeen /\ R!RestartIsOwn /\ R!OneWaits
  BY DEF R!RestartInv
<1>n. None \notin Calls
  BY SystemAssumption DEF R!RestartAssumption
<1>1. CASE R!finish
  <2>1. /\ R!process_signals("ok", cur.args) /\ mode = "call" /\ mode' = "user"
        /\ UNCHANGED <<cfg, cur, interrupted, clean, kills>>
    BY <1>1 DEF R!finish
  <2>2. "ok" \in R!Results /\ cur.args \in Calls \cup {None}
    BY <1>0 DEF R!Results, R!TypeOK
  <2>3. R!TypeOK'
    BY <1>0, <2>1, <2>2, ProcessSignals DEF R!TypeOK
  <2>4. R!OneWaits'
    BY <1>0, <2>1, <2>2, ProcessSignals DEF R!OneWaits
  <2>5. eax' # "restart"
    BY <1>0, <2>1, <2>2, ProcessSignals
  <2> QED
    BY <2>1, <2>3, <2>4, <2>5 DEF R!RestartInv, R!RestartIsNotSeen, R!RestartIsOwn
<1>2. CASE R!interrupt
  <2>1. /\ R!process_signals("restart", cur.args) /\ mode = "call" /\ mode' = "user"
        /\ interrupted' = cur.num /\ clean' = (clean /\ R!Enters /\ interrupted = None)
        /\ UNCHANGED <<cfg, cur, kills>>
    BY <1>2 DEF R!interrupt
  <2>2. "restart" \in R!Results /\ cur.args \in Calls \cup {None}
    BY <1>0 DEF R!Results, R!TypeOK
  <2>3. R!TypeOK'
    BY <1>0, <2>1, <2>2, ProcessSignals DEF R!TypeOK
  <2>4. ASSUME clean'
        PROVE  R!OneWaits' /\ eax' # "restart"
    <3>1. /\ clean /\ R!Enters /\ interrupted = None /\ cur.num = cur.args
          /\ cur.num # None
      BY <1>0, <2>1, <2>4 DEF R!RestartIsOwn
    <3>2. \A k \in DOMAIN frames : frames[k].eax # "restart"
      BY <1>0, <3>1 DEF R!OneWaits
    <3> DEFINE n == Len(frames) + 1
    <3>3. /\ DOMAIN frames' = DOMAIN frames \cup {n}
          /\ frames'[n].eax = "restart" /\ frames'[n].args = cur.args
          /\ \A k \in DOMAIN frames : frames'[k] = frames[k]
          /\ eax' = "none"
      BY <1>0, <2>1, <2>2, <3>1, ProcessSignals
    <3> HIDE DEF n
    <3>4. \A k \in DOMAIN frames' : frames'[k].eax = "restart" => k = n
      BY <3>2, <3>3
    <3> QED
      BY <2>1, <3>1, <3>3, <3>4 DEF R!OneWaits
  <2> QED
    BY <2>1, <2>3, <2>4 DEF R!RestartInv, R!RestartIsNotSeen, R!RestartIsOwn, R!OneWaits
<1>3. CASE R!irq
  <2>1. /\ R!process_signals(eax, cur.args) /\ mode = "user"
        /\ UNCHANGED <<cfg, mode, cur, interrupted, clean, kills>>
    BY <1>3 DEF R!irq
  <2>2. eax \in R!Results /\ cur.args \in Calls \cup {None}
    BY <1>0 DEF R!TypeOK
  <2>3. R!TypeOK'
    BY <1>0, <2>1, <2>2, ProcessSignals DEF R!TypeOK
  <2>5. ASSUME clean'
        PROVE  R!OneWaits' /\ eax' # "restart"
    <3>1. eax # "restart" /\ clean
      BY <1>0, <2>1, <2>5 DEF R!RestartIsNotSeen
    <3> QED
      BY <1>0, <2>1, <2>2, <3>1, ProcessSignals DEF R!OneWaits
  <2> QED
    BY <2>1, <2>3, <2>5 DEF R!RestartInv, R!RestartIsNotSeen, R!RestartIsOwn, R!OneWaits
<1>4. CASE R!run
  BY <1>0, <1>4 DEF R!run, R!RestartInv, R!TypeOK, R!Results, R!RestartIsNotSeen,
     R!RestartIsOwn, R!OneWaits
<1>5. CASE R!return_from_signal
  <2> DEFINE f == frames[Len(frames)]
             rest == SubSeq(frames, 1, Len(frames) - 1)
  <2>1. /\ mode = "user" /\ frames # << >> /\ signal_queue' = signal_queue \ R!Taken
        /\ UNCHANGED <<cfg, clean, kills>>
        /\ IF R!Enters
           THEN /\ frames' = Append(rest, [f EXCEPT !.sig = R!Stop])
                /\ eax' = "none" /\ UNCHANGED <<mode, cur, interrupted>>
           ELSE frames' = rest /\ R!try_restart(f)
    BY <1>5 DEF R!return_from_signal
  <2>2. /\ f \in R!Context /\ rest \in Seq(R!Context) /\ Len(frames) \in Nat \ {0}
        /\ DOMAIN frames = 1..Len(frames) /\ DOMAIN rest = 1..(Len(frames) - 1)
        /\ Len(rest) = Len(frames) - 1
        /\ \A k \in DOMAIN rest : rest[k] = frames[k]
    <3>1. frames \in Seq(R!Context)
      BY <1>0 DEF R!TypeOK
    <3>2. /\ rest \in Seq(R!Context) /\ Len(rest) = Len(frames) - 1 /\ Len(frames) \in Nat \ {0}
          /\ DOMAIN rest = 1..(Len(frames) - 1) /\ DOMAIN frames = 1..Len(frames)
          /\ \A k \in 1..(Len(frames) - 1) : rest[k] = frames[k]
      BY <2>1, <3>1, FrontFacts
    <3>3. f \in R!Context
      BY <3>1, <3>2
    <3> HIDE DEF f, rest
    <3> QED
      BY <3>2, <3>3
  <2>3. signal_queue' \subseteq Signals
    BY <1>0, <2>1 DEF R!TypeOK
  <2>4. CASE R!Enters
    <3> DEFINE g == [f EXCEPT !.sig = R!Stop]
    <3>1. g \in R!Context /\ g.eax = f.eax /\ g.args = f.args
      BY <1>0, <2>2, <2>4, StopIsSignal DEF R!Context
    <3>2. frames' = Append(rest, g) /\ eax' = "none" /\ UNCHANGED <<mode, cur, interrupted>>
      BY <2>1, <2>4
    <3> HIDE DEF g
    <3>r. frames \in Seq(R!Context) /\ frames # << >> /\ frames' = Append(SubSeq(frames, 1, Len(frames) - 1), g)
      BY <1>0, <2>1, <3>2 DEF R!TypeOK
    <3>s. /\ frames' \in Seq(R!Context) /\ DOMAIN frames' = DOMAIN frames
          /\ \A k \in DOMAIN frames : frames'[k] = IF k = Len(frames) THEN g ELSE frames[k]
      BY <3>1, <3>r, ReplaceLast
    <3> HIDE DEF f, rest
    <3>3. /\ frames' \in Seq(R!Context)
          /\ DOMAIN frames' = DOMAIN frames
          /\ \A k \in DOMAIN frames : k # Len(frames) => frames'[k] = frames[k]
          /\ frames'[Len(frames)] = g
      BY <2>2, <3>s
    <3>4. \A k \in DOMAIN frames : frames'[k].eax = frames[k].eax /\ frames'[k].args = frames[k].args
      BY <3>1, <3>3 DEF f
    <3>5. R!TypeOK'
      BY <1>0, <2>1, <2>3, <3>2, <3>3 DEF R!TypeOK, R!Results
    <3>6. R!OneWaits'
      BY <1>0, <2>1, <3>2, <3>3, <3>4 DEF R!OneWaits
    <3> QED
      BY <1>0, <2>1, <3>2, <3>5, <3>6 DEF R!RestartInv, R!RestartIsNotSeen, R!RestartIsOwn
  <2>5. CASE ~R!Enters
    <3>1. frames' = rest /\ R!try_restart(f)
      BY <2>1, <2>5
    <3>2. f = frames[Len(frames)] /\ f.eax \in R!Results /\ f.args \in Calls \cup {None}
      BY <2>2 DEF R!Context
    <3>3. DOMAIN frames' = DOMAIN frames \ {Len(frames)}
      BY <2>2, <3>1
    <3>4. \A k \in DOMAIN frames' : frames'[k] = frames[k]
      BY <2>2, <3>1
    <3>5. Len(frames) \in DOMAIN frames
      BY <2>2
    <3> HIDE DEF f, rest
    <3>6. /\ cur' \in [num : Calls \cup {None}, args : Calls \cup {None}]
          /\ eax' \in R!Results /\ mode' \in {"user", "call"}
          /\ interrupted' \in Calls \cup {None}
      BY <1>0, <3>1, <3>2 DEF R!try_restart, R!TypeOK, R!Restored, R!Cleared, R!Refused, R!Results
    <3>7. R!TypeOK'
      BY <1>0, <2>1, <2>2, <2>3, <3>1, <3>6 DEF R!TypeOK
    <3>8. (mode' = "call" => cur'.num # None)
      BY <2>1, <3>1 DEF R!try_restart
    <3>9. CASE interrupted # None /\ f.eax = "restart"
      <4>1. ASSUME clean'
            PROVE  interrupted = f.args /\ \A k \in DOMAIN frames' : frames'[k].eax # "restart"
        BY <1>0, <2>1, <3>2, <3>3, <3>4, <3>5, <3>9, <4>1 DEF R!OneWaits
      <4>2. R!OneWaits'
        BY <3>1, <3>9, <4>1 DEF R!OneWaits, R!try_restart, R!Cleared
      <4>3. R!RestartIsNotSeen' /\ R!RestartIsOwn'
        BY <3>1, <3>9, <4>1 DEF R!RestartIsNotSeen, R!RestartIsOwn, R!try_restart, R!Refused,
           R!Restored
      <4> QED
        BY <3>7, <3>8, <4>2, <4>3 DEF R!RestartInv
    <3>10. CASE ~(interrupted # None /\ f.eax = "restart")
      <4>1. /\ mode' = "user" /\ eax' = f.eax /\ interrupted' = interrupted
        BY <3>1, <3>10 DEF R!try_restart
      <4>2. ASSUME clean'
            PROVE  f.eax # "restart"
        BY <1>0, <2>1, <3>2, <3>5, <3>10, <4>2 DEF R!OneWaits
      <4>3. R!OneWaits'
        BY <1>0, <2>1, <3>2, <3>3, <3>4, <4>1, <4>2 DEF R!OneWaits
      <4> QED
        BY <3>7, <3>8, <4>1, <4>2, <4>3 DEF R!RestartInv, R!RestartIsNotSeen, R!RestartIsOwn
    <3> QED
      BY <3>9, <3>10
  <2> QED
    BY <2>4, <2>5
<1>6. ASSUME NEW s \in Signals, R!send_signal(s)
      PROVE  R!RestartInv'
  BY <1>0, <1>6 DEF R!send_signal, R!RestartInv, R!TypeOK, R!RestartIsNotSeen,
     R!RestartIsOwn, R!OneWaits
<1>7. ASSUME NEW c \in Calls, R!syscall(c)
      PROVE  R!RestartInv'
  BY <1>0, <1>7, <1>n DEF R!syscall, R!RestartInv, R!TypeOK, R!Results, R!RestartIsNotSeen,
     R!RestartIsOwn, R!OneWaits
<1> QED
  BY <1>1, <1>2, <1>3, <1>4, <1>5, <1>6, <1>7 DEF R!Next

(* What is called a context that waits in RestartsAreHidden.               *)
LEMMA WaitingIsOne ==
  ASSUME R!RestartInv
  PROVE  R!InterruptedIsSaved
<1> DEFINE W == {k \in DOMAIN frames : frames[k].eax = "restart"}
<1>1. R!OneWaits
  BY DEF R!RestartInv
<1>2. ASSUME clean, interrupted = None
      PROVE  W = {}
  BY <1>1, <1>2 DEF R!OneWaits
<1>3. ASSUME clean, interrupted # None
      PROVE  Cardinality(W) = 1 /\ \A k \in W : frames[k].args = interrupted
  <2>1. PICK k \in DOMAIN frames : frames[k].eax = "restart"
    BY <1>1, <1>3 DEF R!OneWaits
  <2>2. W = {k}
    BY <1>1, <1>3, <2>1 DEF R!OneWaits
  <2>3. Cardinality(W) = 1
    BY <2>2, FS_Singleton
  <2> QED
    BY <1>1, <1>3, <2>3 DEF R!OneWaits
<1> QED
  <2>1. R!Cardinality(W) = Cardinality(W)
    BY DEF R!Cardinality, Cardinality
  <2> QED
  BY <1>2, <1>3, <2>1 DEF R!InterruptedIsSaved

LEMMA RestartAlways == Spec => [](part = "restart" => R!RestartInv)
<1> DEFINE Inv == part = "restart" => R!RestartInv
<1>1. Init => Inv
  BY InitRestart DEF Init
<1>2. Inv /\ [Next]_vars => Inv'
  <2> SUFFICES ASSUME Inv, [Next]_vars, part' = "restart"
               PROVE  R!RestartInv'
    OBVIOUS
  <2>1. part = "restart" /\ R!RestartInv
    BY DEF Next, vars
  <2>2. CASE Next
    BY <2>1, <2>2, NextRestart DEF Next
  <2>3. CASE UNCHANGED vars
    BY <2>1, <2>3 DEF vars, callVars, R!RestartInv, R!TypeOK, R!RestartIsNotSeen,
       R!RestartIsOwn, R!OneWaits
  <2> QED
    BY <2>2, <2>3
<1> QED
  BY <1>1, <1>2, PTL DEF Spec

(* However handlers, calls and signals follow on or interrupt each other,  *)
(* if each signal that interrupts a call runs a handler and no call is     *)
(* interrupted while another waits (`clean'), the program never sees       *)
(* -ERESTARTSYS, restarts a call with its own registers, and               *)
(* interrupted_syscall belongs to exactly one context on the stack.        *)
THEOREM RestartsStayHidden == Spec => []RestartsAreHidden
<1>1. (part = "restart" => R!RestartInv) => RestartsAreHidden
  BY WaitingIsOne DEF RestartsAreHidden, R!RestartInv
<1> QED
  BY <1>1, RestartAlways, PTL

(***************************************************************************)
(* Connecting sockets                                                      *)
(***************************************************************************)

LEMMA InitConnect == C!Init => C!ConnectInv
<1> SUFFICES ASSUME C!Init
             PROVE  C!ConnectInv
  OBVIOUS
<1>1. C!TypeOK
  BY DEF C!Init, C!TypeOK, C!Socks
<1>2. C!ClientsAreNamed /\ C!AcceptedAreNamed
  BY DEF C!Init, C!ClientsAreNamed, C!AcceptedAreNamed, C!Socks
<1> QED
  BY <1>1, <1>2 DEF C!Init, C!ConnectInv, C!AcceptorNotForgotten, C!BacklogIsRegular,
     C!ConnectingIsKnown

(* A client joins the backlog.                                             *)
LEMMA ConnectConnect ==
  ASSUME C!ConnectInv, NEW c \in Clients, C!Connect(c)
  PROVE  C!ConnectInv'
<1> USE DEF C!Notified
<1>0. /\ C!TypeOK /\ C!AcceptorNotForgotten /\ C!ClientsAreNamed /\ C!AcceptedAreNamed
      /\ C!BacklogIsRegular /\ C!ConnectingIsKnown
  BY DEF C!ConnectInv
<1>1. /\ cnn_at[c] = "out" /\ c \in open /\ connect[c] = None
      /\ backlog' = Append(backlog, c)
      /\ irregular' = IF C!InBacklog(c) THEN irregular \cup {c} ELSE irregular
      /\ UNCHANGED <<listening, connect, nonblock, open, dropped>>
      /\ blocked_processes' = {} /\ sel_queue' = {}
  BY DEF C!Connect
<1>2. \/ UNCHANGED <<cnn_at, cnn_blocked_processes>>
      \/ /\ cnn_at' = [cnn_at EXCEPT ![c] = "connect"]
         /\ cnn_blocked_processes' = cnn_blocked_processes \cup {c}
  BY DEF C!Connect
<1> DEFINE n == Len(backlog) + 1
<1>3. /\ backlog' \in Seq(Clients) /\ DOMAIN backlog' = DOMAIN backlog \cup {n}
      /\ n \notin DOMAIN backlog /\ backlog'[n] = c
      /\ \A i \in DOMAIN backlog : backlog'[i] = backlog[i]
  BY <1>0, <1>1 DEF C!TypeOK
<1> HIDE DEF n
<1>4. C!TypeOK'
  BY <1>0, <1>1, <1>2, <1>3 DEF C!TypeOK
<1>5. C!AcceptorNotForgotten'
  BY <1>1 DEF C!AcceptorNotForgotten
<1>6. C!ClientsAreNamed' /\ C!AcceptedAreNamed'
  BY <1>0, <1>1 DEF C!ClientsAreNamed, C!AcceptedAreNamed
<1>7. C!BacklogIsRegular'
  BY <1>0, <1>1, <1>3 DEF C!BacklogIsRegular, C!InBacklog
<1>8. \A d \in Clients : C!InBacklog(d) \/ d = c => C!InBacklog(d)'
  BY <1>3 DEF C!InBacklog
<1>9. C!ConnectingIsKnown'
  BY <1>0, <1>1, <1>2, <1>8 DEF C!ConnectingIsKnown, C!TypeOK
<1> QED
  BY <1>4, <1>5, <1>6, <1>7, <1>9 DEF C!ConnectInv

(* accept takes the client at the head of the backlog.                     *)
LEMMA ConnectAccepted ==
  ASSUME C!ConnectInv, NEW a \in Acceptors, NEW n \in C!New, C!Accepted(a, n)
  PROVE  C!ConnectInv'
<1>0. /\ C!TypeOK /\ C!AcceptorNotForgotten /\ C!ClientsAreNamed /\ C!AcceptedAreNamed
      /\ C!BacklogIsRegular /\ C!ConnectingIsKnown
  BY DEF C!ConnectInv
<1>n. Clients \cap C!New = {} /\ None \notin Clients \cup C!New
  BY SystemAssumption DEF C!SocketConnectAssumption, C!Socks
<1> DEFINE c == Head(backlog)
<1>1. /\ backlog # << >> /\ n \notin open /\ backlog' = Tail(backlog)
      /\ connect' = [connect EXCEPT ![c] = n, ![n] = c]
      /\ open' = open \cup {n}
      /\ cnn_at' = [cnn_at EXCEPT ![a] = "out"]
      /\ cnn_blocked_processes' = {}
      /\ UNCHANGED <<listening, blocked_processes, sel_queue, nonblock, irregular, dropped>>
  BY DEF C!Accepted, C!Connected
<1>2. backlog \in Seq(Clients) /\ Len(backlog) \in Nat \ {0} /\ DOMAIN backlog = 1..Len(backlog)
  BY <1>0, <1>1 DEF C!TypeOK
<1>3. c \in Clients /\ c = backlog[1] /\ 1 \in DOMAIN backlog
  BY <1>1, <1>2
<1>4. /\ backlog' \in Seq(Clients) /\ DOMAIN backlog' = 1..(Len(backlog) - 1)
      /\ \A i \in DOMAIN backlog' : i + 1 \in DOMAIN backlog /\ backlog'[i] = backlog[i + 1]
  BY <1>1, <1>2
<1>5. \A i \in DOMAIN backlog : i = 1 \/ (i - 1 \in DOMAIN backlog' /\ backlog'[i - 1] = backlog[i])
  BY <1>2, <1>4
<1> HIDE DEF c
<1>6. \A s \in Clients \cup C!New :
        connect'[s] = IF s = c THEN n ELSE IF s = n THEN c ELSE connect[s]
  BY <1>0, <1>1, <1>3, <1>n DEF C!TypeOK, C!Socks
<1>e. connect'[c] = n /\ connect'[n] = c
  BY <1>3, <1>6, <1>n
<1>o. n \notin open /\ open' = open \cup {n} /\ irregular' = irregular
  BY <1>1
<1>7. C!TypeOK'
  <2>1. connect' \in [C!Socks -> C!Socks \cup {None}] /\ open' \subseteq C!Socks
    BY <1>0, <1>1, <1>3 DEF C!TypeOK, C!Socks
  <2>2. cnn_at' \in [Clients \cup Acceptors -> {"out", "connect", "accept", "select"}]
    BY <1>0, <1>1 DEF C!TypeOK
  <2> QED
    BY <1>0, <1>1, <1>4, <2>1, <2>2 DEF C!TypeOK
<1>8. C!AcceptorNotForgotten'
  BY <1>0, <1>1 DEF C!AcceptorNotForgotten
<1>9. C!ClientsAreNamed'
  <2> SUFFICES ASSUME NEW d \in Clients, connect'[d] # None
               PROVE  /\ connect'[d] \in C!New /\ connect'[d] \in open'
                      /\ connect'[connect'[d]] = d
    BY DEF C!ClientsAreNamed
  <2>1. CASE d = c
    BY <1>o, <1>e, <1>3, <1>n, <2>1
  <2>2. CASE d # c
    <3>1. connect'[d] = connect[d] /\ connect[d] \in C!New /\ connect[d] \in open
          /\ connect[connect[d]] = d
      BY <1>0, <1>6, <1>n, <2>2 DEF C!ClientsAreNamed
    <3> QED
      BY <1>o, <1>6, <1>n, <1>3, <2>2, <3>1
  <2> QED
    BY <2>1, <2>2
<1>10. C!AcceptedAreNamed'
  <2> SUFFICES ASSUME NEW m \in C!New, m \in open', connect'[m] # None
               PROVE  /\ connect'[m] \in Clients
                      /\ connect'[m] \notin irregular =>
                           connect'[connect'[m]] = m /\ connect'[m] \in open'
    BY <1>1 DEF C!AcceptedAreNamed
  <2>1. CASE m = n
    BY <1>0, <1>o, <1>3, <1>e, <1>n, <2>1 DEF C!BacklogIsRegular
  <2>2. CASE m # n
    <3>1. connect'[m] = connect[m] /\ m \in open
      BY <1>1, <1>3, <1>6, <1>n, <2>2
    <3>2. /\ connect[m] \in Clients
          /\ connect[m] \notin irregular => connect[connect[m]] = m /\ connect[m] \in open
      BY <1>0, <3>1 DEF C!AcceptedAreNamed
    <3>3. connect[m] \notin irregular => connect[m] # c
      BY <1>0, <1>3, <1>n, <3>1, <3>2 DEF C!BacklogIsRegular
    <3> QED
      BY <1>o, <1>6, <1>n, <3>1, <3>2, <3>3
  <2> QED
    BY <2>1, <2>2
<1>11. C!BacklogIsRegular'
  <2> SUFFICES ASSUME NEW i \in DOMAIN backlog', backlog'[i] \notin irregular
               PROVE  /\ connect'[backlog'[i]] = None /\ backlog'[i] \in open'
                      /\ \A j \in DOMAIN backlog' : backlog'[j] = backlog'[i] => j = i
    BY <1>1 DEF C!BacklogIsRegular
  <2>1. i + 1 \in DOMAIN backlog /\ backlog'[i] = backlog[i + 1] /\ i \in Nat \ {0}
    BY <1>2, <1>4
  <2>2. /\ connect[backlog[i + 1]] = None /\ backlog[i + 1] \in open
        /\ \A j \in DOMAIN backlog : backlog[j] = backlog[i + 1] => j = i + 1
    BY <1>0, <2>1 DEF C!BacklogIsRegular
  <2>3. backlog[i + 1] # c /\ backlog[i + 1] \in Clients
    BY <1>2, <1>3, <2>1, <2>2
  <2>4. \A j \in DOMAIN backlog' : backlog'[j] = backlog'[i] => j = i
    BY <1>2, <1>4, <2>1, <2>2
  <2> QED
    BY <1>1, <1>6, <1>n, <2>1, <2>2, <2>3, <2>4
<1>12. C!ConnectingIsKnown'
  <2>1. ASSUME NEW d \in Clients, cnn_at'[d] = "connect"
        PROVE  connect'[d] # None \/ C!InBacklog(d)' \/ d \in dropped'
    <3>1. cnn_at[d] = "connect"
      BY <1>0, <1>1, <2>1 DEF C!TypeOK
    <3>2. CASE d = c
      BY <1>6, <1>n, <3>2
    <3>3. CASE d # c
      <4>1. connect'[d] = connect[d]
        BY <1>6, <1>n, <3>3
      <4>2. connect[d] # None \/ C!InBacklog(d) \/ d \in dropped
        BY <1>0, <3>1 DEF C!ConnectingIsKnown
      <4>3. C!InBacklog(d) => C!InBacklog(d)'
        BY <1>3, <1>5, <3>3 DEF C!InBacklog
      <4> QED
        BY <1>1, <4>1, <4>2, <4>3
    <3> QED
      BY <3>2, <3>3
  <2> QED
    BY <1>1, <2>1 DEF C!ConnectingIsKnown
<1> QED
  BY <1>7, <1>8, <1>9, <1>10, <1>11, <1>12 DEF C!ConnectInv

(* The last descriptor of a socket is closed.                              *)
LEMMA ConnectClose ==
  ASSUME C!ConnectInv, NEW s \in C!Socks, C!Close(s)
  PROVE  C!ConnectInv'
<1>0. /\ C!TypeOK /\ C!AcceptorNotForgotten /\ C!ClientsAreNamed /\ C!AcceptedAreNamed
      /\ C!BacklogIsRegular /\ C!ConnectingIsKnown
  BY DEF C!ConnectInv
<1>n. Clients \cap C!New = {} /\ None \notin Clients \cup C!New
  BY SystemAssumption DEF C!SocketConnectAssumption, C!Socks
<1>1. /\ s \in open /\ (s \in Clients => cnn_at[s] = "out")
      /\ open' = open \ {s}
      /\ irregular' = IF s \in Clients /\ C!InBacklog(s) THEN irregular \cup {s} ELSE irregular
      /\ dropped' = IF connect[s] \in Clients /\ cnn_at[connect[s]] = "connect"
                      THEN dropped \cup {connect[s]} ELSE dropped
      /\ UNCHANGED <<backlog, blocked_processes, sel_queue, cnn_blocked_processes, cnn_at, woken>>
  BY DEF C!Close, C!waitVars
<1>2. /\ connect' \in [C!Socks -> C!Socks \cup {None}]
      /\ \A t \in C!Socks : connect'[t] = IF t = s \/ t = connect[s] THEN None ELSE connect[t]
  BY <1>0 DEF C!Close, C!Disconnected, C!TypeOK
<1>3. Clients \subseteq C!Socks /\ C!New \subseteq C!Socks /\ C!Socks \subseteq Clients \cup C!New
  BY DEF C!Socks
<1>4. C!TypeOK'
  BY <1>0, <1>1, <1>2 DEF C!TypeOK
<1>5. C!AcceptorNotForgotten'
  BY <1>0, <1>1 DEF C!AcceptorNotForgotten
<1>6. C!ClientsAreNamed'
  <2> SUFFICES ASSUME NEW d \in Clients, connect'[d] # None
               PROVE  /\ connect'[d] \in C!New /\ connect'[d] \in open'
                      /\ connect'[connect'[d]] = d
    BY DEF C!ClientsAreNamed
  <2>1. d # s /\ d # connect[s] /\ connect'[d] = connect[d]
    BY <1>2, <1>3
  <2>2. connect[d] \in C!New /\ connect[d] \in open /\ connect[connect[d]] = d
    BY <1>0, <2>1 DEF C!ClientsAreNamed
  <2>3. connect[d] # s
    BY <2>1, <2>2
  <2>4. connect[d] # connect[s]
    <3> SUFFICES ASSUME connect[d] = connect[s]
                 PROVE  FALSE
      OBVIOUS
    <3>1. CASE s \in Clients
      BY <1>0, <1>n, <2>1, <2>2, <3>1 DEF C!ClientsAreNamed
    <3>2. CASE s \in C!New
      BY <1>0, <1>1, <1>n, <2>2, <3>2 DEF C!AcceptedAreNamed
    <3> QED
      BY <1>3, <3>1, <3>2
  <2> QED
    BY <1>1, <1>2, <1>3, <2>1, <2>2, <2>3, <2>4
<1>7. C!AcceptedAreNamed'
  <2> SUFFICES ASSUME NEW m \in C!New, m \in open', connect'[m] # None
               PROVE  /\ connect'[m] \in Clients
                      /\ connect'[m] \notin irregular' =>
                           connect'[connect'[m]] = m /\ connect'[m] \in open'
    BY DEF C!AcceptedAreNamed
  <2>1. m # s /\ m # connect[s] /\ connect'[m] = connect[m] /\ m \in open
    BY <1>1, <1>2, <1>3
  <2>2. /\ connect[m] \in Clients
        /\ connect[m] \notin irregular => connect[connect[m]] = m /\ connect[m] \in open
    BY <1>0, <2>1 DEF C!AcceptedAreNamed
  <2>3. ASSUME connect[m] \notin irregular'
        PROVE  connect'[connect[m]] = m /\ connect[m] \in open'
    <3>1. connect[connect[m]] = m /\ connect[m] \in open
      BY <1>1, <2>2, <2>3
    <3>2. connect[m] # s
      BY <2>1, <3>1
    <3>3. connect[m] # connect[s]
      <4> SUFFICES ASSUME connect[m] = connect[s]
                   PROVE  FALSE
        OBVIOUS
      <4>1. CASE s \in Clients
        BY <1>0, <1>n, <2>2, <4>1 DEF C!ClientsAreNamed
      <4>2. CASE s \in C!New
        BY <1>0, <1>1, <1>n, <2>1, <2>2, <2>3, <3>1, <4>2 DEF C!AcceptedAreNamed
      <4> QED
        BY <1>3, <4>1, <4>2
    <3> QED
      BY <1>1, <1>2, <1>3, <2>2, <3>1, <3>2, <3>3
  <2> QED
    BY <2>1, <2>2, <2>3
<1>8. C!BacklogIsRegular'
  <2> SUFFICES ASSUME NEW i \in DOMAIN backlog, backlog[i] \notin irregular'
               PROVE  /\ connect'[backlog[i]] = None /\ backlog[i] \in open'
                      /\ \A j \in DOMAIN backlog : backlog[j] = backlog[i] => j = i
    BY <1>1 DEF C!BacklogIsRegular
  <2>1. backlog[i] \in Clients /\ backlog[i] \notin irregular
    BY <1>0, <1>1 DEF C!TypeOK
  <2>2. backlog[i] # s
    BY <1>1, <2>1 DEF C!InBacklog
  <2> QED
    BY <1>0, <1>1, <1>2, <1>3, <2>1, <2>2 DEF C!BacklogIsRegular
<1>9. \A d \in Clients : C!InBacklog(d)' <=> C!InBacklog(d)
  BY <1>1 DEF C!InBacklog
<1>10. C!ConnectingIsKnown'
  <2>1. ASSUME NEW d \in Clients, cnn_at[d] = "connect"
        PROVE  connect'[d] # None \/ C!InBacklog(d)' \/ d \in dropped'
    <3>1. connect[d] # None \/ C!InBacklog(d) \/ d \in dropped
      BY <1>0, <2>1 DEF C!ConnectingIsKnown
    <3>2. d # s
      BY <1>1, <2>1
    <3> QED
      BY <1>1, <1>2, <1>3, <1>9, <2>1, <3>1, <3>2
  <2>2. ASSUME NEW d \in cnn_blocked_processes
        PROVE  cnn_at[d] = "connect" /\ connect'[d] = None
    <3>1. d \in Clients /\ cnn_at[d] = "connect" /\ connect[d] = None
      BY <1>0 DEF C!ConnectingIsKnown, C!TypeOK
    <3> QED
      BY <1>2, <1>3, <3>1
  <2> QED
    BY <1>1, <2>1, <2>2 DEF C!ConnectingIsKnown
<1> QED
  BY <1>4, <1>5, <1>6, <1>7, <1>8, <1>10 DEF C!ConnectInv

LEMMA NextConnect ==
  ASSUME C!ConnectInv, C!Next
  PROVE  C!ConnectInv'
<1>0. /\ C!TypeOK /\ C!AcceptorNotForgotten /\ C!ClientsAreNamed /\ C!AcceptedAreNamed
      /\ C!BacklogIsRegular /\ C!ConnectingIsKnown
  BY DEF C!ConnectInv
<1> USE DEF C!TypeOK
(* The other actions touch neither the backlog nor the connections.        *)
<1>n. ASSUME UNCHANGED <<backlog, connect, open, irregular>>
      PROVE  C!ClientsAreNamed' /\ C!AcceptedAreNamed' /\ C!BacklogIsRegular'
  BY <1>0, <1>n DEF C!ClientsAreNamed, C!AcceptedAreNamed, C!BacklogIsRegular
<1>b. ASSUME UNCHANGED backlog, NEW d \in Clients
      PROVE  C!InBacklog(d)' <=> C!InBacklog(d)
  BY <1>b DEF C!InBacklog
<1>1. CASE C!Listen
  BY <1>0, <1>n, <1>b, <1>1 DEF C!Listen, C!waitVars, C!ConnectInv, C!AcceptorNotForgotten,
     C!ConnectingIsKnown
<1>2. ASSUME NEW c \in Clients, C!Connect(c)
      PROVE  C!ConnectInv'
  BY <1>2, ConnectConnect
<1>3. ASSUME NEW c \in Clients, C!ConnectResume(c)
      PROVE  C!ConnectInv'
  BY <1>0, <1>n, <1>b, <1>3 DEF C!ConnectResume, C!ConnectInv, C!AcceptorNotForgotten,
     C!ConnectingIsKnown
<1>4. ASSUME NEW a \in Acceptors, cnn_at[a] \in {"out", "accept"}, C!AcceptSleeps(a)
      PROVE  C!ConnectInv'
  BY <1>0, <1>n, <1>b, <1>4 DEF C!AcceptSleeps, C!ConnectInv, C!AcceptorNotForgotten,
     C!ConnectingIsKnown
<1>5. ASSUME NEW a \in Acceptors, NEW n \in C!New, C!Accepted(a, n)
      PROVE  C!ConnectInv'
  BY <1>5, ConnectAccepted
<1>6. ASSUME NEW a \in Acceptors, C!Select(a)
      PROVE  C!ConnectInv'
  BY <1>0, <1>n, <1>b, <1>6 DEF C!Select, C!ConnectInv, C!AcceptorNotForgotten,
     C!ConnectingIsKnown
<1>7. ASSUME NEW a \in Acceptors, C!SelectReturns(a)
      PROVE  C!ConnectInv'
  BY <1>0, <1>n, <1>b, <1>7 DEF C!SelectReturns, C!ConnectInv, C!AcceptorNotForgotten,
     C!ConnectingIsKnown
<1>8. ASSUME NEW p \in Clients \cup Acceptors, C!Signal(p)
      PROVE  C!ConnectInv'
  BY <1>0, <1>n, <1>b, <1>8 DEF C!Signal, C!ConnectInv, C!AcceptorNotForgotten,
     C!ConnectingIsKnown
<1>9. ASSUME NEW s \in C!Socks, C!Close(s)
      PROVE  C!ConnectInv'
  BY <1>9, ConnectClose
<1> QED
  BY <1>1, <1>2, <1>3, <1>4, <1>5, <1>6, <1>7, <1>8, <1>9 DEF C!Next, C!Accept

LEMMA ConnectAlways == Spec => [](part = "connect" => C!ConnectInv)
<1> DEFINE Inv == part = "connect" => C!ConnectInv
<1>1. Init => Inv
  BY InitConnect DEF Init
<1>2. Inv /\ [Next]_vars => Inv'
  <2> SUFFICES ASSUME Inv, [Next]_vars, part' = "connect"
               PROVE  C!ConnectInv'
    OBVIOUS
  <2>1. part = "connect" /\ C!ConnectInv
    BY DEF Next, vars
  <2>2. CASE Next
    BY <2>1, <2>2, NextConnect DEF Next
  <2>3. CASE UNCHANGED vars
    BY <2>1, <2>3 DEF vars, cnnVars, C!ConnectInv, C!TypeOK, C!AcceptorNotForgotten,
       C!ClientsAreNamed, C!AcceptedAreNamed, C!BacklogIsRegular, C!ConnectingIsKnown,
       C!InBacklog
  <2> QED
    BY <2>2, <2>3
<1> QED
  BY <1>1, <1>2, PTL DEF Spec

LEMMA ConnectPromises ==
  ASSUME C!ConnectInv
  PROVE  C!AcceptorNotForgotten /\ C!ConnectorNotForgotten /\ C!PeersAgree
<1>n. Clients \cap C!New = {} /\ None \notin Clients \cup C!New
  BY SystemAssumption DEF C!SocketConnectAssumption, C!Socks
<1>1. C!ConnectorNotForgotten
  BY DEF C!ConnectInv, C!ConnectingIsKnown, C!ConnectorNotForgotten, C!TypeOK
<1>2. C!PeersAgree
  BY <1>n DEF C!ConnectInv, C!ClientsAreNamed, C!AcceptedAreNamed, C!PeersAgree, C!TypeOK, C!Socks
<1> QED
  BY <1>1, <1>2 DEF C!ConnectInv

(***************************************************************************)
(* Data on a connection                                                    *)
(***************************************************************************)

(* What the invariant says, unfolded, and what is assumed.                 *)
LEMMA StreamFacts ==
  ASSUME S!StreamInv
  PROVE  /\ S!TypeOK /\ S!Fits /\ S!CopiesUnderLock /\ S!NothingMissing
         /\ wrapped => str_at[Reader] = "out"
         /\ S!StreamInOrder /\ S!ReaderNotForgotten /\ S!WriteSelectorNotForgotten
         /\ S!LockedOutMeansFull
         /\ Reader \notin Writers /\ None \notin Writers /\ None # Reader
         /\ InitSize \in Nat \ {0} /\ MaxSize \in Nat /\ MaxLen \in Nat
         /\ S!Procs = Writers \cup {Reader} /\ Len(buffer) \in Nat /\ Len(received) \in Nat
  BY SystemAssumption DEF S!StreamInv, S!SocketStreamAssumption, S!Procs, S!TypeOK

LEMMA InitStream == S!Init => S!StreamInv
<1> SUFFICES ASSUME S!Init
             PROVE  S!StreamInv
  OBVIOUS
<1>1. /\ Reader \notin Writers /\ None \notin Writers /\ None # Reader
      /\ InitSize \in Nat \ {0} /\ S!Procs = Writers \cup {Reader}
  BY SystemAssumption DEF S!SocketStreamAssumption, S!Procs
<1>2. /\ \A p \in S!Procs : str_at[p] = "out" /\ call[p] = S!Idle
      /\ S!Idle \in S!Record /\ S!Idle.left = 0 /\ S!Idle.size = 0 /\ S!Idle.to_read = 0
  BY DEF S!Init, S!Idle, S!Record
<1>3. S!TypeOK
  <2>1. selecting \in [{"read", "write"} -> BOOLEAN] /\ split \in BOOLEAN /\ wrapped \in BOOLEAN
    BY DEF S!Init
  <2>2. call \in [S!Procs -> S!Record]
    BY <1>2 DEF S!Init
  <2>3. str_at \in [S!Procs -> {"out", "lock", "sleep", "go"}]
    BY DEF S!Init
  <2>4. buffer \in Seq(Nat) /\ received \in Seq(Nat) /\ buffer_size \in Nat /\ sent \in Nat
        /\ owner \in S!Procs \cup {None}
    BY <1>1 DEF S!Init
  <2> QED
    BY <2>1, <2>2, <2>3, <2>4 DEF S!TypeOK
<1>4. Len(buffer) = 0 /\ Len(received) = 0 /\ Reader \in S!Procs
  BY <1>1 DEF S!Init
<1>5. S!Fits /\ S!CopiesUnderLock /\ S!NothingMissing
  BY <1>1, <1>2, <1>4 DEF S!Init, S!Fits, S!CopiesUnderLock, S!NothingMissing, S!available_data
<1>6. S!StreamInOrder /\ S!ReaderNotForgotten /\ S!WriteSelectorNotForgotten /\ S!LockedOutMeansFull
  BY <1>1, <1>2, <1>4 DEF S!Init, S!StreamInOrder, S!ReaderNotForgotten,
     S!WriteSelectorNotForgotten, S!LockedOutMeansFull, S!available_data
<1> QED
  BY <1>3, <1>5, <1>6 DEF S!Init, S!StreamInv

(* A call begins.                                                          *)
LEMMA StreamStart ==
  ASSUME S!StreamInv, NEW p \in S!Procs, NEW n \in 1..MaxLen, NEW nb \in BOOLEAN, S!Start(p, n, nb)
  PROVE  S!StreamInv'
<1>0. Reader \in S!Procs /\ S!TypeOK
  BY StreamFacts
<1>1. /\ str_at[p] = "out" /\ ~wrapped
      /\ UNCHANGED <<buffer, buffer_size, owner, selecting, sent, received, split, wrapped>>
      /\ str_at' = [str_at EXCEPT ![p] = IF p = Reader THEN "go" ELSE "lock"]
      /\ call' = [call EXCEPT ![p] = [size |-> n, left |-> n, to_read |-> 0, nb |-> nb]]
  BY <1>0, StreamFacts DEF S!Start
<1>2. /\ \A q \in S!Procs : str_at'[q] = IF q = p THEN (IF p = Reader THEN "go" ELSE "lock") ELSE str_at[q]
      /\ \A q \in S!Procs : q # p => call'[q] = call[q]
      /\ call'[p].size = n /\ call'[p].left = n /\ call'[p].to_read = 0
  BY <1>0, <1>1, StreamFacts DEF S!TypeOK, S!Record, S!Idle, S!ToRead, S!available_data
<1>3. n \in Nat /\ [size |-> n, left |-> n, to_read |-> 0, nb |-> nb] \in S!Record
  BY StreamFacts DEF S!Record
<1>4. S!TypeOK'
  BY <1>0, <1>1, <1>2, <1>3 DEF S!TypeOK
<1>5. S!Fits' /\ S!CopiesUnderLock'
  BY <1>0, <1>1, <1>2, StreamFacts DEF S!Fits, S!CopiesUnderLock, S!available_data, S!TypeOK, S!Record
<1>6. S!NothingMissing'
  BY <1>0, <1>1, <1>2, StreamFacts DEF S!NothingMissing, S!Abandoned, S!available_data, S!CopiesUnderLock, S!TypeOK
<1>7. S!StreamInOrder'
  BY <1>1, StreamFacts DEF S!StreamInOrder
<1>8. S!ReaderNotForgotten' /\ S!WriteSelectorNotForgotten' /\ S!LockedOutMeansFull'
  BY <1>0, <1>1, <1>2, StreamFacts DEF S!ReaderNotForgotten, S!WriteSelectorNotForgotten,
     S!LockedOutMeansFull, S!available_data, S!CopiesUnderLock, S!TypeOK
<1>9. wrapped' => str_at'[Reader] = "out"
  BY <1>0, <1>1, <1>2, StreamFacts
<1> QED
  BY <1>4, <1>5, <1>6, <1>7, <1>8, <1>9 DEF S!StreamInv

(* mutex_lock returns.                                                     *)
LEMMA StreamLock ==
  ASSUME S!StreamInv, NEW p \in S!Procs, S!Lock(p)
  PROVE  S!StreamInv'
<1>0. Reader \in S!Procs /\ S!TypeOK
  BY StreamFacts
<1>1. /\ str_at[p] = "lock" /\ owner = None /\ owner' = p
      /\ UNCHANGED <<buffer, buffer_size, call, selecting, sent, received, split, wrapped>>
      /\ str_at' = [str_at EXCEPT ![p] = "go"]
  BY <1>0, StreamFacts DEF S!Lock
<1>2. \A q \in S!Procs : str_at'[q] = IF q = p THEN "go" ELSE str_at[q]
  BY <1>0, <1>1, StreamFacts DEF S!TypeOK, S!Record, S!Idle, S!ToRead, S!available_data
<1>4. S!TypeOK'
  BY <1>0, <1>1, <1>2, StreamFacts DEF S!TypeOK
<1>5. S!Fits' /\ S!CopiesUnderLock'
  BY <1>0, <1>1, <1>2, StreamFacts DEF S!Fits, S!CopiesUnderLock, S!available_data, S!TypeOK, S!Record
<1>6. S!NothingMissing'
  BY <1>0, <1>1, <1>2, StreamFacts DEF S!NothingMissing, S!Abandoned, S!available_data, S!CopiesUnderLock, S!TypeOK
<1>7. S!StreamInOrder'
  BY <1>1, StreamFacts DEF S!StreamInOrder
<1>8. S!ReaderNotForgotten' /\ S!WriteSelectorNotForgotten' /\ S!LockedOutMeansFull'
  BY <1>0, <1>1, <1>2, StreamFacts DEF S!ReaderNotForgotten, S!WriteSelectorNotForgotten,
     S!LockedOutMeansFull, S!available_data, S!CopiesUnderLock, S!TypeOK
<1>9. wrapped' => str_at'[Reader] = "out"
  BY <1>0, <1>1, <1>2, StreamFacts
<1> QED
  BY <1>4, <1>5, <1>6, <1>7, <1>8, <1>9 DEF S!StreamInv

(* A sleeper looks again.                                                  *)
LEMMA StreamNudge ==
  ASSUME S!StreamInv, NEW p \in S!Procs, S!Nudge(p)
  PROVE  S!StreamInv'
<1>0. Reader \in S!Procs /\ S!TypeOK
  BY StreamFacts
<1>1. /\ str_at[p] = "sleep"
      /\ UNCHANGED <<buffer, buffer_size, owner, call, selecting, sent, received, split, wrapped>>
      /\ str_at' = [str_at EXCEPT ![p] = "go"]
  BY <1>0, StreamFacts DEF S!Nudge
<1>2. \A q \in S!Procs : str_at'[q] = IF q = p THEN "go" ELSE str_at[q]
  BY <1>0, <1>1, StreamFacts DEF S!TypeOK, S!Record, S!Idle, S!ToRead, S!available_data
<1>4. S!TypeOK'
  BY <1>0, <1>1, <1>2, StreamFacts DEF S!TypeOK
<1>5. S!Fits' /\ S!CopiesUnderLock'
  BY <1>0, <1>1, <1>2, StreamFacts DEF S!Fits, S!CopiesUnderLock, S!available_data, S!TypeOK, S!Record
<1>6. S!NothingMissing'
  BY <1>0, <1>1, <1>2, StreamFacts DEF S!NothingMissing, S!Abandoned, S!available_data, S!CopiesUnderLock, S!TypeOK
<1>7. S!StreamInOrder'
  BY <1>1, StreamFacts DEF S!StreamInOrder
<1>8. S!ReaderNotForgotten' /\ S!WriteSelectorNotForgotten' /\ S!LockedOutMeansFull'
  BY <1>0, <1>1, <1>2, StreamFacts DEF S!ReaderNotForgotten, S!WriteSelectorNotForgotten,
     S!LockedOutMeansFull, S!available_data, S!CopiesUnderLock, S!TypeOK
<1>9. wrapped' => str_at'[Reader] = "out"
  BY <1>0, <1>1, <1>2, StreamFacts
<1> QED
  BY <1>4, <1>5, <1>6, <1>7, <1>8, <1>9 DEF S!StreamInv

(* A writer finds no room.                                                 *)
LEMMA StreamWriteFull ==
  ASSUME S!StreamInv, NEW p \in Writers, S!WriteFull(p)
  PROVE  S!StreamInv'
<1>0. Reader \in S!Procs /\ S!TypeOK
  BY StreamFacts
<1>1. /\ str_at[p] = "go" /\ Len(buffer) >= MaxSize
      /\ UNCHANGED <<buffer, buffer_size, owner, selecting, received, split, wrapped>>
      /\ str_at' = [str_at EXCEPT ![p] = IF call[p].nb THEN "out" ELSE "sleep"]
      /\ call' = [call EXCEPT ![p] = IF call[p].nb THEN S!Idle ELSE @]
      /\ sent' = IF call[p].nb THEN sent + call[p].size ELSE sent
  BY <1>0, StreamFacts DEF S!WriteFull, S!NoRoom, S!available_data
<1>2. /\ \A q \in S!Procs : str_at'[q] = IF q = p THEN (IF call[p].nb THEN "out" ELSE "sleep") ELSE str_at[q]
      /\ \A q \in S!Procs : call'[q] = IF q = p /\ call[p].nb THEN S!Idle ELSE call[q]
      /\ S!Idle.left = 0 /\ S!Idle.size = 0 /\ S!Idle \in S!Record
      /\ call[p].size \in Nat
  BY <1>0, <1>1, StreamFacts DEF S!TypeOK, S!Record, S!Idle, S!ToRead, S!available_data
<1>4. S!TypeOK'
  BY <1>0, <1>1, <1>2, StreamFacts DEF S!TypeOK
<1>5. S!Fits' /\ S!CopiesUnderLock'
  BY <1>0, <1>1, <1>2, StreamFacts DEF S!Fits, S!CopiesUnderLock, S!available_data, S!TypeOK, S!Record
<1>6. S!NothingMissing'
  BY <1>0, <1>1, <1>2, StreamFacts DEF S!NothingMissing, S!Abandoned, S!available_data, S!CopiesUnderLock, S!TypeOK
<1>7. S!StreamInOrder'
  BY <1>1, StreamFacts DEF S!StreamInOrder
<1>8. S!ReaderNotForgotten' /\ S!WriteSelectorNotForgotten' /\ S!LockedOutMeansFull'
  BY <1>0, <1>1, <1>2, StreamFacts DEF S!ReaderNotForgotten, S!WriteSelectorNotForgotten,
     S!LockedOutMeansFull, S!available_data, S!CopiesUnderLock, S!TypeOK
<1>9. wrapped' => str_at'[Reader] = "out"
  BY <1>0, <1>1, <1>2, StreamFacts
<1> QED
  BY <1>4, <1>5, <1>6, <1>7, <1>8, <1>9 DEF S!StreamInv

(* The reader finds nothing.                                               *)
LEMMA StreamReadSleep ==
  ASSUME S!StreamInv, S!ReadSleep
  PROVE  S!StreamInv'
<1>0. Reader \in S!Procs /\ S!TypeOK
  BY StreamFacts
<1>1. /\ str_at[Reader] = "go" /\ call[Reader].to_read = 0 /\ Len(buffer) = 0
      /\ UNCHANGED <<buffer, buffer_size, owner, call, selecting, sent, received, split, wrapped>>
      /\ str_at' = [str_at EXCEPT ![Reader] = "sleep"]
  BY <1>0, StreamFacts DEF S!ReadSleep, S!available_data
<1>2. \A q \in S!Procs : str_at'[q] = IF q = Reader THEN "sleep" ELSE str_at[q]
  BY <1>0, <1>1, StreamFacts DEF S!TypeOK, S!Record, S!Idle, S!ToRead, S!available_data
<1>4. S!TypeOK'
  BY <1>0, <1>1, <1>2, StreamFacts DEF S!TypeOK
<1>5. S!Fits' /\ S!CopiesUnderLock'
  BY <1>0, <1>1, <1>2, StreamFacts DEF S!Fits, S!CopiesUnderLock, S!available_data, S!TypeOK, S!Record
<1>6. S!NothingMissing'
  BY <1>0, <1>1, <1>2, StreamFacts DEF S!NothingMissing, S!Abandoned, S!available_data, S!CopiesUnderLock, S!TypeOK
<1>7. S!StreamInOrder'
  BY <1>1, StreamFacts DEF S!StreamInOrder
<1>8. S!ReaderNotForgotten' /\ S!WriteSelectorNotForgotten' /\ S!LockedOutMeansFull'
  BY <1>0, <1>1, <1>2, StreamFacts DEF S!ReaderNotForgotten, S!WriteSelectorNotForgotten,
     S!LockedOutMeansFull, S!available_data, S!CopiesUnderLock, S!TypeOK
<1>9. wrapped' => str_at'[Reader] = "out"
  BY <1>0, <1>1, <1>2, StreamFacts
<1> QED
  BY <1>4, <1>5, <1>6, <1>7, <1>8, <1>9 DEF S!StreamInv

(* The reader decides how much it takes.                                   *)
LEMMA StreamReadChoose ==
  ASSUME S!StreamInv, S!ReadChoose
  PROVE  S!StreamInv'
<1>0. Reader \in S!Procs /\ S!TypeOK
  BY StreamFacts
<1>1. /\ str_at[Reader] = "go" /\ call[Reader].left > 0 /\ call[Reader].to_read = 0 /\ Len(buffer) > 0
      /\ UNCHANGED <<buffer, buffer_size, owner, selecting, sent, received, split, wrapped>>
      /\ call' = [call EXCEPT ![Reader].to_read = S!ToRead]
      /\ str_at' = [str_at EXCEPT ![Reader] = "lock"]
  BY <1>0, StreamFacts DEF S!ReadChoose, S!available_data
<1>2. /\ \A q \in S!Procs : str_at'[q] = IF q = Reader THEN "lock" ELSE str_at[q]
      /\ \A q \in S!Procs : q # Reader => call'[q] = call[q]
      /\ S!ToRead \in Nat \ {0} /\ S!ToRead <= Len(buffer)
      /\ call'[Reader].size = call[Reader].size /\ call'[Reader].left = call[Reader].left
      /\ call'[Reader].to_read = S!ToRead /\ call'[Reader] \in S!Record
  <2>1. call[Reader] \in S!Record /\ call[Reader].size \in Nat /\ call[Reader].left \in Nat
    BY <1>0 DEF S!TypeOK, S!Record
  <2>2. call[Reader].size > 0
    BY <1>0, <1>1, <2>1, StreamFacts DEF S!Fits
  <2>3. S!ToRead \in Nat \ {0} /\ S!ToRead <= Len(buffer)
    BY <1>1, <2>1, <2>2, StreamFacts DEF S!ToRead, S!available_data
  <2>4. call'[Reader] = [call[Reader] EXCEPT !.to_read = S!ToRead]
    BY <1>0, <1>1 DEF S!TypeOK
  <2>5. /\ call'[Reader].size = call[Reader].size /\ call'[Reader].left = call[Reader].left
        /\ call'[Reader].to_read = S!ToRead /\ call'[Reader] \in S!Record
    BY <2>1, <2>3, <2>4 DEF S!Record
  <2> QED
    BY <1>0, <1>1, <2>3, <2>5 DEF S!TypeOK
<1>4. S!TypeOK'
  BY <1>0, <1>1, <1>2, StreamFacts DEF S!TypeOK
<1>5. S!Fits' /\ S!CopiesUnderLock'
  <2>1. S!Fits /\ S!CopiesUnderLock /\ Reader \notin Writers /\ S!Procs = Writers \cup {Reader}
    BY StreamFacts DEF S!Procs
  <2>2. \A q \in S!Procs : call'[q].left = call[q].left /\ call'[q].size = call[q].size
    BY <1>2
  <2>3. S!Fits'
    BY <1>1, <2>1, <2>2 DEF S!Fits, S!available_data
  <2>4. \A w \in Writers : str_at'[w] = str_at[w]
    BY <1>2, <2>1
  <2>5. str_at'[Reader] = "lock" /\ call'[Reader].to_read > 0 /\ call'[Reader].to_read <= Len(buffer')
    BY <1>0, <1>1, <1>2
  <2>6. owner' # Reader
    BY <1>1, <2>1 DEF S!CopiesUnderLock
  <2>7. S!CopiesUnderLock'
    BY <1>1, <2>1, <2>4, <2>5, <2>6 DEF S!CopiesUnderLock, S!available_data
  <2> QED
    BY <2>3, <2>7
<1>6. S!NothingMissing'
  BY <1>0, <1>1, <1>2, StreamFacts DEF S!NothingMissing, S!Abandoned, S!available_data, S!CopiesUnderLock, S!TypeOK
<1>7. S!StreamInOrder'
  BY <1>1, StreamFacts DEF S!StreamInOrder
<1>8. S!ReaderNotForgotten' /\ S!WriteSelectorNotForgotten' /\ S!LockedOutMeansFull'
  BY <1>0, <1>1, <1>2, StreamFacts DEF S!ReaderNotForgotten, S!WriteSelectorNotForgotten,
     S!LockedOutMeansFull, S!available_data, S!CopiesUnderLock, S!TypeOK
<1>9. wrapped' => str_at'[Reader] = "out"
  BY <1>0, <1>1, <1>2, StreamFacts
<1> QED
  BY <1>4, <1>5, <1>6, <1>7, <1>8, <1>9 DEF S!StreamInv

(* read returns.                                                           *)
LEMMA StreamReadEnd ==
  ASSUME S!StreamInv, S!ReadEnd
  PROVE  S!StreamInv'
<1>0. Reader \in S!Procs /\ S!TypeOK
  BY StreamFacts
<1>1. /\ str_at[Reader] = "go" /\ call[Reader].to_read = 0
      /\ UNCHANGED <<buffer, buffer_size, owner, sent, received, split, wrapped>>
      /\ selecting' = [selecting EXCEPT !["write"] = FALSE]
      /\ call' = [call EXCEPT ![Reader] = S!Idle]
      /\ str_at' = [str_at EXCEPT ![Reader] = "out"]
  BY <1>0, StreamFacts DEF S!ReadEnd, S!NotifyWrite
<1>2. /\ \A q \in S!Procs : str_at'[q] = IF q = Reader THEN "out" ELSE str_at[q]
      /\ \A q \in S!Procs : call'[q] = IF q = Reader THEN S!Idle ELSE call[q]
      /\ S!Idle.left = 0 /\ S!Idle.size = 0 /\ S!Idle.to_read = 0 /\ S!Idle \in S!Record
      /\ selecting'["write"] = FALSE /\ selecting'["read"] = selecting["read"]
  BY <1>0, <1>1, StreamFacts DEF S!TypeOK, S!Record, S!Idle, S!ToRead, S!available_data
<1>4. S!TypeOK'
  BY <1>0, <1>1, <1>2, StreamFacts DEF S!TypeOK
<1>5. S!Fits' /\ S!CopiesUnderLock'
  BY <1>0, <1>1, <1>2, StreamFacts DEF S!Fits, S!CopiesUnderLock, S!available_data, S!TypeOK, S!Record
<1>6. S!NothingMissing'
  BY <1>0, <1>1, <1>2, StreamFacts DEF S!NothingMissing, S!Abandoned, S!available_data, S!CopiesUnderLock, S!TypeOK
<1>7. S!StreamInOrder'
  BY <1>1, StreamFacts DEF S!StreamInOrder
<1>8. S!ReaderNotForgotten' /\ S!WriteSelectorNotForgotten' /\ S!LockedOutMeansFull'
  BY <1>0, <1>1, <1>2, StreamFacts DEF S!ReaderNotForgotten, S!WriteSelectorNotForgotten,
     S!LockedOutMeansFull, S!available_data, S!CopiesUnderLock, S!TypeOK
<1>9. wrapped' => str_at'[Reader] = "out"
  BY <1>0, <1>1, <1>2, StreamFacts
<1> QED
  BY <1>4, <1>5, <1>6, <1>7, <1>8, <1>9 DEF S!StreamInv

(* A process begins to wait in select.                                     *)
LEMMA StreamSelect ==
  ASSUME S!StreamInv, NEW e \in {"read", "write"}, S!Select(e)
  PROVE  S!StreamInv'
<1>0. Reader \in S!Procs /\ S!TypeOK
  BY StreamFacts
<1>1. /\ e = "read" => ~(Len(buffer) > 0)
      /\ e = "write" => ~(Len(buffer) < MaxSize)
      /\ UNCHANGED <<buffer, buffer_size, owner, str_at, call, sent, received, split, wrapped>>
      /\ selecting' = [selecting EXCEPT ![e] = TRUE]
  BY <1>0, StreamFacts DEF S!Select, S!check, S!available_data
<1>2. \A g \in {"read", "write"} : selecting'[g] = IF g = e THEN TRUE ELSE selecting[g]
  BY <1>0, <1>1, StreamFacts DEF S!TypeOK, S!Record, S!Idle, S!ToRead, S!available_data
<1>4. S!TypeOK'
  BY <1>0, <1>1, <1>2, StreamFacts DEF S!TypeOK
<1>5. S!Fits' /\ S!CopiesUnderLock'
  BY <1>0, <1>1, <1>2, StreamFacts DEF S!Fits, S!CopiesUnderLock, S!available_data, S!TypeOK, S!Record
<1>6. S!NothingMissing'
  BY <1>0, <1>1, <1>2, StreamFacts DEF S!NothingMissing, S!Abandoned, S!available_data, S!CopiesUnderLock, S!TypeOK
<1>7. S!StreamInOrder'
  BY <1>1, StreamFacts DEF S!StreamInOrder
<1>8. S!ReaderNotForgotten' /\ S!WriteSelectorNotForgotten' /\ S!LockedOutMeansFull'
  BY <1>0, <1>1, <1>2, StreamFacts DEF S!ReaderNotForgotten, S!WriteSelectorNotForgotten,
     S!LockedOutMeansFull, S!available_data, S!CopiesUnderLock, S!TypeOK
<1>9. wrapped' => str_at'[Reader] = "out"
  BY <1>0, <1>1, <1>2, StreamFacts
<1> QED
  BY <1>4, <1>5, <1>6, <1>7, <1>8, <1>9 DEF S!StreamInv

(* A round of the copy loop of a writer.                                   *)
LEMMA StreamWriteChunk ==
  ASSUME S!StreamInv, NEW p \in Writers, S!WriteChunk(p)
  PROVE  S!StreamInv'
<1> DEFINE n == S!Chunk(p)
           last == call[p].left = n
           m == SubSeq(S!Message(call[p].size), 1, n)
<1>0. Reader \in S!Procs /\ p \in S!Procs /\ p # Reader /\ S!TypeOK
  BY StreamFacts
<1>1. /\ str_at[p] = "go" /\ call[p].left > 0
      /\ buffer_size' = IF S!Full THEN buffer_size + InitSize ELSE buffer_size
      /\ buffer' = buffer \o m
      /\ split' = (split \/ ~last \/ call[p].left < call[p].size)
      /\ selecting' = [selecting EXCEPT !["read"] = FALSE]
      /\ str_at' = IF last THEN [S!NotifyRead EXCEPT ![p] = "out"] ELSE S!NotifyRead
      /\ owner' = IF last THEN None ELSE owner
      /\ sent' = IF last THEN sent + call[p].size ELSE sent
      /\ UNCHANGED <<received, wrapped>>
  BY DEF S!WriteChunk
<1>c. call'[p] = IF last THEN S!Idle ELSE [call[p] EXCEPT !.left = call[p].left - n]
  BY <1>0 DEF S!WriteChunk, S!TypeOK
<1>d. call' \in [S!Procs -> {call'[q] : q \in S!Procs}] /\ \A q \in S!Procs : q # p => call'[q] = call[q]
  BY <1>0 DEF S!WriteChunk, S!TypeOK
<1>2. /\ call[p] \in S!Record /\ call[p].left \in Nat /\ call[p].size \in Nat
      /\ call[p].left <= call[p].size /\ Len(buffer) <= buffer_size
      /\ buffer_size \in Nat /\ Len(buffer) \in Nat /\ owner = p
  BY <1>0, <1>1, StreamFacts DEF S!TypeOK, S!Record, S!Fits, S!available_data, S!CopiesUnderLock
<1>3. /\ n \in Nat /\ n <= call[p].left /\ buffer_size' \in Nat
      /\ Len(buffer) + n <= buffer_size'
  <2>1. InitSize \in Nat \ {0}
    BY StreamFacts
  <2> DEFINE room == buffer_size' - Len(buffer)
  <2>2. room \in Nat /\ buffer_size' \in Nat
    BY <1>1, <1>2, <2>1 DEF S!Full, S!available_data
  <2>3. n = IF room < call[p].left THEN room ELSE call[p].left
    BY <1>1 DEF S!Chunk, S!available_data
  <2> HIDE DEF n
  <2> QED
    BY <1>2, <2>2, <2>3
<1>4. m \in Seq(Nat) /\ Len(m) = n /\ \A i \in 1..n : m[i] = sent + i
  <2> DEFINE k == call[p].size
             msg == [i \in 1..k |-> sent + i]
  <2>1. k \in Nat /\ n <= k /\ sent \in Nat
    BY <1>0, <1>2, <1>3 DEF S!TypeOK
  <2>2. m = SubSeq(msg, 1, n)
    BY DEF S!Message
  <2> HIDE DEF m, k, n
  <2>3. msg \in Seq(Nat) /\ Len(msg) = k /\ \A i \in 1..k : msg[i] = sent + i
    BY <2>1
  <2> HIDE DEF msg
  <2>4. n \in Nat
    BY <1>3 DEF n
  <2> QED
    BY <2>1, <2>2, <2>3, <2>4
<1> HIDE DEF m, n
<1>5. /\ buffer' \in Seq(Nat) /\ Len(buffer') = Len(buffer) + n
      /\ \A i \in 1..Len(buffer) : buffer'[i] = buffer[i]
      /\ \A i \in 1..n : buffer'[Len(buffer) + i] = sent + i
  <2>1. buffer \in Seq(Nat)
    BY <1>0 DEF S!TypeOK
  <2>2. /\ buffer \o m \in Seq(Nat) /\ Len(buffer \o m) = Len(buffer) + Len(m)
        /\ \A i \in 1..Len(buffer) : (buffer \o m)[i] = buffer[i]
        /\ \A i \in 1..Len(m) : (buffer \o m)[Len(buffer) + i] = m[i]
    BY <1>4, <2>1, ConcatFacts
  <2>3. buffer' = buffer \o m
    BY <1>1
  <2> QED
    BY <1>4, <2>2, <2>3
<1>6. \A q \in S!Procs : str_at'[q] = IF q = p THEN (IF last THEN "out" ELSE "go")
                                      ELSE IF q = Reader /\ str_at[q] = "sleep" THEN "go"
                                      ELSE str_at[q]
  BY <1>0, <1>1 DEF S!NotifyRead, S!TypeOK
<1>7. /\ \A q \in S!Procs : q # p => call'[q] = call[q]
      /\ call'[p] \in S!Record /\ call'[p].left <= call'[p].size
  <2>1. S!Idle \in S!Record /\ S!Idle.left = 0 /\ S!Idle.size = 0
    BY DEF S!Idle, S!Record
  <2> DEFINE r == [call[p] EXCEPT !.left = call[p].left - n]
  <2>2. r \in S!Record /\ r.left <= r.size
    BY <1>2, <1>3 DEF S!Record
  <2>3. call'[p] = IF last THEN S!Idle ELSE r
    BY <1>c
  <2> QED
    BY <1>d, <2>1, <2>2, <2>3
<1>8. selecting'["read"] = FALSE /\ selecting'["write"] = selecting["write"]
  BY <1>0, <1>1 DEF S!TypeOK
<1>9. S!TypeOK'
  <2>1. str_at' \in [S!Procs -> {"out", "lock", "sleep", "go"}]
    BY <1>0, <1>1 DEF S!NotifyRead, S!TypeOK
  <2>2. call' \in [S!Procs -> S!Record]
    BY <1>0, <1>d, <1>7 DEF S!TypeOK
  <2>3. sent' \in Nat /\ owner' \in S!Procs \cup {None}
    BY <1>0, <1>1, <1>2 DEF S!TypeOK
  <2>4. selecting' \in [{"read", "write"} -> BOOLEAN] /\ split' \in BOOLEAN
    BY <1>0, <1>1 DEF S!TypeOK
  <2> QED
    BY <1>0, <1>1, <1>3, <1>5, <2>1, <2>2, <2>3, <2>4 DEF S!TypeOK
<1>10. S!Fits'
  BY <1>0, <1>3, <1>5, <1>7, StreamFacts DEF S!Fits, S!available_data
<1>11. S!CopiesUnderLock'
  <2>1. \A w \in Writers : str_at'[w] \in {"go", "sleep"} => owner' = w
    BY <1>0, <1>1, <1>2, <1>6, StreamFacts DEF S!CopiesUnderLock
  <2>2. call'[Reader] = call[Reader] /\ owner' # Reader
    BY <1>0, <1>1, <1>2, <1>7, StreamFacts
  <2>3. str_at'[Reader] = IF str_at[Reader] = "sleep" THEN "go" ELSE str_at[Reader]
    BY <1>0, <1>6
  <2>4. call[Reader].to_read \in Nat
    BY <1>0 DEF S!TypeOK, S!Record
  <2>5. Len(buffer) <= Len(buffer')
    BY <1>2, <1>3, <1>5
  <2>6. call[Reader].to_read > 0 => /\ call[Reader].to_read <= Len(buffer)
                                    /\ str_at[Reader] = "lock"
    BY <1>0, <1>2, StreamFacts DEF S!CopiesUnderLock, S!available_data
  <2>7. call[Reader].to_read > 0 => call[Reader].to_read <= Len(buffer')
    BY <1>2, <1>3, <1>5, <2>4, <2>6
  <2>8. str_at'[Reader] = "lock" => call[Reader].to_read > 0
    BY <2>3, StreamFacts DEF S!CopiesUnderLock
  <2> QED
    BY <2>1, <2>2, <2>3, <2>6, <2>7, <2>8 DEF S!CopiesUnderLock, S!available_data
<1>12. ASSUME ~split'
       PROVE  sent = Len(received) + Len(buffer) /\ last /\ n = call[p].size /\ ~split
  <2>1. ~split /\ last /\ ~(call[p].left < call[p].size)
    BY <1>0, <1>1, <1>12 DEF S!TypeOK
  <2>2. ~S!Abandoned
    BY <1>1, <1>2 DEF S!Abandoned
  <2> QED
    BY <1>2, <2>1, <2>2, StreamFacts DEF S!NothingMissing, S!available_data
<1>13. S!NothingMissing' /\ S!StreamInOrder'
  <2> SUFFICES ASSUME ~split'
               PROVE  /\ sent' = Len(received') + Len(buffer')
                      /\ \A i \in DOMAIN received' : received'[i] = i
                      /\ \A i \in DOMAIN buffer' : buffer'[i] = Len(received') + i
    BY DEF S!NothingMissing, S!StreamInOrder, S!available_data
  <2>1. sent' = Len(received') + Len(buffer')
    BY <1>0, <1>1, <1>2, <1>3, <1>5, <1>12, StreamFacts DEF S!TypeOK
  <2>2. \A i \in DOMAIN received' : received'[i] = i
    BY <1>1, <1>12, StreamFacts DEF S!StreamInOrder
  <2>3. ASSUME NEW i \in DOMAIN buffer'
        PROVE  buffer'[i] = Len(received') + i
    <3>1. i \in 1..(Len(buffer) + n) /\ i \in Nat
      BY <1>2, <1>3, <1>5
    <3>2. CASE i <= Len(buffer)
      <4>1. i \in 1..Len(buffer) /\ DOMAIN buffer = 1..Len(buffer)
        BY <1>0, <1>2, <3>1, <3>2 DEF S!TypeOK
      <4>2. buffer'[i] = buffer[i] /\ buffer[i] = Len(received) + i
        BY <1>5, <1>12, <4>1, StreamFacts DEF S!StreamInOrder
      <4> QED
        BY <1>1, <4>2
    <3>3. CASE i > Len(buffer)
      <4> DEFINE j == i - Len(buffer)
      <4>1. j \in 1..n /\ i = Len(buffer) + j
        BY <1>2, <1>3, <3>1, <3>3
      <4>2. buffer'[i] = sent + j
        BY <1>5, <4>1
      <4> QED
        BY <1>1, <1>2, <1>12, <4>1, <4>2, StreamFacts
    <3> QED
      BY <1>2, <3>1, <3>2, <3>3
  <2> QED
    BY <2>1, <2>2, <2>3
<1>14. S!ReaderNotForgotten' /\ S!WriteSelectorNotForgotten'
  <2>1. str_at'[Reader] # "sleep" /\ (str_at[Reader] # "out" => str_at'[Reader] # "out")
    BY <1>0, <1>6
  <2>2. Len(buffer) >= MaxSize => Len(buffer') >= MaxSize
    BY <1>2, <1>3, <1>5, StreamFacts
  <2>3. wrapped' = wrapped
    BY <1>1
  <2> QED
    BY <1>8, <2>1, <2>2, <2>3, StreamFacts
       DEF S!ReaderNotForgotten, S!WriteSelectorNotForgotten, S!available_data
<1>15. S!LockedOutMeansFull'
  BY <1>0, <1>1, <1>2, <1>6, StreamFacts DEF S!LockedOutMeansFull
<1>16. wrapped' => str_at'[Reader] = "out"
  BY <1>0, <1>1, <1>6, StreamFacts
<1> QED
  BY <1>9, <1>10, <1>11, <1>13, <1>14, <1>15, <1>16 DEF S!StreamInv

(* The reader copies what it chose to take.                                *)
LEMMA StreamReadCopy ==
  ASSUME S!StreamInv, S!ReadCopy
  PROVE  S!StreamInv'
<1> DEFINE n == call[Reader].to_read
           c == call[Reader]
           over == n > c.left
           front == SubSeq(buffer, 1, n)
<1>0. Reader \in S!Procs /\ S!TypeOK
  BY StreamFacts
<1>1. /\ str_at[Reader] = "go" /\ n > 0
      /\ received' = received \o front
      /\ buffer' = SubSeq(buffer, n + 1, Len(buffer))
      /\ owner' = None
      /\ wrapped' = (n > c.left)
      /\ split' = (split \/ c.left < c.size)
      /\ call' = [call EXCEPT ![Reader] = [c EXCEPT !.to_read = 0,
                                           !.left = IF n > c.left THEN 0 ELSE c.left - n]]
      /\ str_at' = [str_at EXCEPT ![Reader] = IF n > c.left THEN "out" ELSE "go"]
      /\ UNCHANGED <<buffer_size, selecting, sent>>
  BY <1>0 DEF S!ReadCopy, S!Remaining, S!available_data, S!TypeOK
<1>2. /\ c \in S!Record /\ c.left \in Nat /\ c.size \in Nat /\ n \in Nat \ {0}
      /\ c.left <= c.size /\ Len(buffer) \in Nat /\ n <= Len(buffer) /\ owner = Reader
      /\ buffer \in Seq(Nat) /\ received \in Seq(Nat) /\ Len(received) \in Nat
  BY <1>0, <1>1, StreamFacts DEF S!TypeOK, S!Record, S!Fits, S!available_data, S!CopiesUnderLock
<1> HIDE DEF n
<1>3. /\ front \in Seq(Nat) /\ Len(front) = n /\ \A i \in 1..n : front[i] = buffer[i]
  BY <1>2
<1> HIDE DEF front
<1>4. /\ buffer' \in Seq(Nat) /\ Len(buffer') = Len(buffer) - n
      /\ \A i \in 1..(Len(buffer) - n) : i + n \in 1..Len(buffer) /\ buffer'[i] = buffer[i + n]
  <2>1. buffer' = SubSeq(buffer, n + 1, Len(buffer))
    BY <1>1
  <2>2. n \in Nat /\ n <= Len(buffer) /\ buffer \in Seq(Nat)
    BY <1>2
  <2> QED
    BY <2>1, <2>2, DropFacts
<1>5. /\ received' \in Seq(Nat) /\ Len(received') = Len(received) + n
      /\ \A i \in 1..Len(received) : received'[i] = received[i]
      /\ \A i \in 1..n : received'[Len(received) + i] = buffer[i]
  <2>1. /\ received \o front \in Seq(Nat) /\ Len(received \o front) = Len(received) + Len(front)
        /\ \A i \in 1..Len(received) : (received \o front)[i] = received[i]
        /\ \A i \in 1..Len(front) : (received \o front)[Len(received) + i] = front[i]
    BY <1>2, <1>3, ConcatFacts
  <2>2. received' = received \o front
    BY <1>1
  <2> QED
    BY <1>3, <2>1, <2>2
<1>6. \A q \in S!Procs : str_at'[q] = IF q = Reader THEN (IF over THEN "out" ELSE "go")
                                      ELSE str_at[q]
  BY <1>0, <1>1 DEF S!TypeOK
<1>7. /\ \A q \in S!Procs : q # Reader => call'[q] = call[q]
      /\ call'[Reader] \in S!Record /\ call'[Reader].left <= call'[Reader].size
      /\ call'[Reader].to_read = 0
  <2> DEFINE r == [c EXCEPT !.to_read = 0, !.left = IF n > c.left THEN 0 ELSE c.left - n]
  <2>1. r \in S!Record /\ r.left <= r.size /\ r.to_read = 0
    <3> DEFINE l == IF n > c.left THEN 0 ELSE c.left - n
    <3>1. l \in Nat /\ l <= c.left
      BY <1>2
    <3>2. c \in S!Record /\ r = [c EXCEPT !.to_read = 0, !.left = l] /\ l <= c.size
      BY <1>2, <3>1
    <3> HIDE DEF c, l
    <3> QED
      BY <3>1, <3>2 DEF S!Record
  <2>2. call'[Reader] = r
    BY <1>0, <1>1 DEF S!TypeOK
  <2> QED
    BY <1>0, <1>1, <2>1, <2>2 DEF S!TypeOK
<1>8. S!TypeOK'
  <2>1. str_at' \in [S!Procs -> {"out", "lock", "sleep", "go"}]
    BY <1>0, <1>1 DEF S!TypeOK
  <2>2. call' \in [S!Procs -> S!Record]
    BY <1>0, <1>1, <1>7 DEF S!TypeOK
  <2>3. owner' \in S!Procs \cup {None} /\ split' \in BOOLEAN /\ wrapped' \in BOOLEAN
    BY <1>0, <1>1 DEF S!TypeOK
  <2> QED
    BY <1>0, <1>1, <1>4, <1>5, <2>1, <2>2, <2>3 DEF S!TypeOK
<1>9. S!Fits'
  <2>1. Len(buffer') <= buffer_size' /\ buffer_size' = buffer_size
    BY <1>0, <1>1, <1>2, <1>4, StreamFacts DEF S!Fits, S!available_data, S!TypeOK
  <2>2. \A q \in S!Procs : call'[q].left <= call'[q].size
    BY <1>7, StreamFacts DEF S!Fits
  <2> QED
    BY <2>1, <2>2 DEF S!Fits, S!available_data
<1>10. S!CopiesUnderLock'
  BY <1>0, <1>1, <1>2, <1>6, <1>7, StreamFacts DEF S!CopiesUnderLock, S!TypeOK
<1>11. S!NothingMissing' /\ S!StreamInOrder'
  <2> SUFFICES ASSUME ~split'
               PROVE  /\ sent' = Len(received') + Len(buffer')
                      /\ \A i \in DOMAIN received' : received'[i] = i
                      /\ \A i \in DOMAIN buffer' : buffer'[i] = Len(received') + i
    BY DEF S!NothingMissing, S!StreamInOrder, S!available_data
  <2>1. /\ ~split /\ sent = Len(received) + Len(buffer)
        /\ \A i \in 1..Len(received) : received[i] = i
        /\ \A i \in 1..Len(buffer) : buffer[i] = Len(received) + i
    <3>1. ~split
      BY <1>1
    <3>2. ~S!Abandoned
      BY <1>2, StreamFacts DEF S!Abandoned
    <3>3. DOMAIN received = 1..Len(received) /\ DOMAIN buffer = 1..Len(buffer)
      BY <1>2
    <3> QED
      BY <3>1, <3>2, <3>3, StreamFacts DEF S!NothingMissing, S!StreamInOrder, S!available_data
  <2>2. sent' = Len(received') + Len(buffer')
    BY <1>0, <1>1, <1>2, <1>4, <1>5, <2>1 DEF S!TypeOK
  <2>3. ASSUME NEW i \in DOMAIN received'
        PROVE  received'[i] = i
    <3>1. i \in 1..(Len(received) + n)
      BY <1>2, <1>5
    <3>2. CASE i <= Len(received)
      <4>1. i \in 1..Len(received)
        BY <1>2, <3>1, <3>2
      <4> QED
        BY <1>5, <2>1, <4>1
    <3>3. CASE i > Len(received)
      <4> DEFINE j == i - Len(received)
      <4>1. j \in 1..n /\ j \in 1..Len(buffer) /\ i = Len(received) + j
        BY <1>2, <3>1, <3>3
      <4> QED
        BY <1>2, <1>5, <2>1, <4>1
    <3> QED
      BY <1>2, <3>1, <3>2, <3>3
  <2>4. ASSUME NEW i \in DOMAIN buffer'
        PROVE  buffer'[i] = Len(received') + i
    <3>0. DOMAIN buffer' = 1..Len(buffer')
      BY <1>4
    <3>1. i \in 1..(Len(buffer) - n) /\ i + n \in 1..Len(buffer)
      BY <1>4, <3>0
    <3>2. buffer'[i] = Len(received) + (i + n)
      BY <1>4, <2>1, <3>1
    <3> QED
      BY <1>2, <1>5, <3>1, <3>2
  <2> QED
    BY <2>2, <2>3, <2>4
<1>12. S!ReaderNotForgotten' /\ S!WriteSelectorNotForgotten'
  <2>1. str_at'[Reader] # "sleep" /\ (str_at'[Reader] # "out" \/ wrapped')
    <3>1. wrapped' = (n > c.left) /\ str_at'[Reader] = IF n > c.left THEN "out" ELSE "go"
      BY <1>0, <1>1, <1>6
    <3> HIDE DEF c
    <3> QED
      BY <3>1
  <2>2. selecting'["read"] = selecting["read"] /\ (selecting["read"] => Len(buffer) = 0)
    BY <1>1, StreamFacts DEF S!ReaderNotForgotten, S!available_data
  <2>3. ~selecting["read"]
    BY <1>2, <2>2
  <2> QED
    BY <2>1, <2>2, <2>3 DEF S!ReaderNotForgotten, S!WriteSelectorNotForgotten
<1>13. S!LockedOutMeansFull'
  BY <1>1, StreamFacts DEF S!LockedOutMeansFull
<1>14. wrapped' => str_at'[Reader] = "out"
  BY <1>0, <1>1, <1>6
<1> QED
  BY <1>8, <1>9, <1>10, <1>11, <1>12, <1>13, <1>14 DEF S!StreamInv

LEMMA StreamAlways == Spec => [](part = "stream" => S!StreamInv)
<1> DEFINE Inv == part = "stream" => S!StreamInv
<1>1. Init => Inv
  BY InitStream DEF Init
<1>2. Inv /\ [Next]_vars => Inv'
  <2> SUFFICES ASSUME Inv, [Next]_vars, part' = "stream"
               PROVE  S!StreamInv'
    OBVIOUS
  <2>1. part = "stream" /\ S!StreamInv
    BY DEF Next, vars
  <2>2. CASE Next
    <3>1. S!Next
      BY <2>1, <2>2 DEF Next
    <3> QED
      BY <2>1, <3>1, StreamStart, StreamLock, StreamNudge, StreamWriteChunk, StreamWriteFull,
         StreamReadSleep, StreamReadChoose, StreamReadCopy, StreamReadEnd, StreamSelect
         DEF S!Next
  <2>3. CASE UNCHANGED vars
    BY <2>1, <2>3 DEF vars, strVars, S!StreamInv, S!TypeOK, S!Fits, S!CopiesUnderLock,
       S!NothingMissing, S!Abandoned, S!StreamInOrder, S!ReaderNotForgotten,
       S!WriteSelectorNotForgotten, S!LockedOutMeansFull, S!available_data
  <2> QED
    BY <2>2, <2>3
<1> QED
  BY <1>1, <1>2, PTL DEF Spec

(* Sockets, for any number of clients, acceptors and writers and any size  *)
(* of the buffer: nobody sleeps in accept or select while a request waits, *)
(* nor in connect with a peer or, unless its connection was closed at once *)
(* (`dropped'), out of the backlog; two connected ends name each other,    *)
(* unless one connected again or closed while in the backlog               *)
(* (`irregular'); a reader or selector does not sleep when it could go on, *)
(* and a lock that is never given back is that of a full buffer; until a   *)
(* transfer takes two copies (`split') what is written comes out in order  *)
(* and whole.  Without the three conditions the code breaks it.  For the   *)
(* connections the invariant has to follow the clients in the backlog; for *)
(* the data, who holds the mutex.                                          *)
THEOREM SocketsAlwaysDeliver == Spec => []SocketsDeliver
<1>1. (part = "connect" => C!ConnectInv) /\ (part = "stream" => S!StreamInv) => SocketsDeliver
  BY ConnectPromises DEF SocketsDeliver, S!StreamInv
<1> QED
  BY <1>1, ConnectAlways, StreamAlways, PTL

(***************************************************************************)
(* Virtual terminals                                                       *)
(***************************************************************************)

(* The terminals are numbered from 0, and a request is one more than the   *)
(* number of a terminal.                                                   *)
LEMMA VtNumbers ==
  /\ V!Cardinality(Vts) \in Nat /\ 0 \in Vts /\ Vts = 0..(V!Cardinality(Vts) - 1)
  /\ \A k \in 0..V!Cardinality(Vts) : k # 0 => k - 1 \in Vts
  /\ \A v \in Vts : v + 1 \in 0..V!Cardinality(Vts)
  /\ 0 \in 0..V!Cardinality(Vts) /\ None \notin VtProcs
<1>1. /\ V!IsFiniteSet(Vts) /\ Vts = 0..(V!Cardinality(Vts) - 1) /\ 0 \in Vts /\ None \notin VtProcs
  BY SystemAssumption DEF V!VtAssumption
<1>2. V!Cardinality(Vts) = Cardinality(Vts)
  BY DEF V!Cardinality, Cardinality
<1>3. IsFiniteSet(Vts)
  BY <1>1 DEF V!IsFiniteSet, IsFiniteSet
<1>4. V!Cardinality(Vts) \in Nat
  BY <1>2, <1>3, FS_CardinalityType
<1> QED
  BY <1>1, <1>4

LEMMA InitVt == V!Init => V!VtInv
<1> SUFFICES ASSUME V!Init
             PROVE  V!VtInv
  OBVIOUS
<1>1. V!TypeOK
  <2>1. vt_next \in [Vts -> 0..V!Cardinality(Vts)] /\ active \in Vts
    BY VtNumbers DEF V!Init
  <2>2. vt_buffer \in [Vts -> Seq(Nat)] /\ screen \in Seq(Nat)
    BY DEF V!Init
  <2>3. /\ vt_mode \in [Vts -> {"auto", "process"}] /\ display \in [Vts -> {"text", "graphic"}]
        /\ vt_owner \in [Vts -> VtProcs \cup {None}]
    BY DEF V!Init
  <2>4. intact \in BOOLEAN /\ written \subseteq Vts /\ wild \in BOOLEAN
    BY VtNumbers DEF V!Init
  <2> QED
    BY <2>1, <2>2, <2>3, <2>4 DEF V!TypeOK
<1> QED
  BY <1>1, VtNumbers DEF V!Init, V!VtInv, V!PendingIsActive, V!ScreenIsBuffer

(* The screen goes from the terminal that had it to another one.           *)
LEMMA VtSwitch ==
  ASSUME V!VtInv, NEW number \in Vts, V!finish_switch(active, number),
         UNCHANGED <<vt_mode, display, vt_owner, vt_buffer>>, wild' = wild
  PROVE  V!VtInv'
<1>1. V!TypeOK /\ V!PendingIsActive
  BY DEF V!VtInv
<1> DEFINE auto == vt_mode[number] = "auto" /\ display[number] = "text"
<1>2. /\ active' = number /\ vt_next' = [vt_next EXCEPT ![active] = 0]
      /\ written' = written \cup {active} /\ intact' = auto
      /\ screen' = IF auto THEN vt_buffer[number] ELSE << >>
  BY DEF V!finish_switch, V!Cleared, V!Restored
<1>3. screen' \in Seq(Nat)
  BY <1>1, <1>2 DEF V!TypeOK
<1>4. vt_next' \in [Vts -> 0..V!Cardinality(Vts)] /\ \A v \in Vts : vt_next'[v] = IF v = active THEN 0 ELSE vt_next[v]
  BY <1>1, <1>2, VtNumbers DEF V!TypeOK
<1>5. V!TypeOK'
  <2>1. intact' \in BOOLEAN
    BY <1>2
  <2>2. active' \in Vts /\ written' \subseteq Vts
    BY <1>1, <1>2 DEF V!TypeOK
  <2> QED
    BY <1>1, <1>3, <1>4, <2>1, <2>2 DEF V!TypeOK
<1>6. V!PendingIsActive'
  BY <1>1, <1>2, <1>4 DEF V!PendingIsActive, V!TypeOK
<1>7. V!ScreenIsBuffer'
  BY <1>2 DEF V!ScreenIsBuffer
<1> QED
  BY <1>5, <1>6, <1>7 DEF V!VtInv

(* A terminal is asked for, by a key or by a program.                      *)
LEMMA VtChange ==
  ASSUME V!VtInv, NEW number, V!change(number),
         UNCHANGED <<vt_mode, display, vt_owner, vt_buffer, wild>>
  PROVE  V!VtInv' /\ (active' # active => vt_mode[active] = "auto")
<1>1. V!TypeOK /\ V!PendingIsActive /\ V!ScreenIsBuffer /\ number \in Vts
  BY DEF V!VtInv, V!change
<1>2. CASE vt_mode[active] = "auto"
  BY <1>1, <1>2, VtSwitch DEF V!change
<1>3. CASE vt_mode[active] # "auto"
  <2>1. /\ vt_next' = [vt_next EXCEPT ![active] = number + 1]
        /\ written' = written \cup {active}
        /\ UNCHANGED <<active, screen, intact>>
    BY <1>3 DEF V!change
  <2>2. V!TypeOK'
    BY <1>1, <2>1, VtNumbers DEF V!TypeOK
  <2>3. V!PendingIsActive'
    BY <1>1, <2>1 DEF V!PendingIsActive, V!TypeOK
  <2>4. V!ScreenIsBuffer'
    BY <1>1, <2>1 DEF V!ScreenIsBuffer
  <2> QED
    BY <2>1, <2>2, <2>3, <2>4 DEF V!VtInv
<1> QED
  BY <1>2, <1>3

(* The owner releases the screen: if nobody's memory decides, it is the    *)
(* terminal on screen that is released.                                    *)
LEMMA VtRelDisp ==
  ASSUME V!VtInv, NEW p \in VtProcs, NEW v \in Vts, V!RelDisp(p, v)
  PROVE  V!VtInv' /\ (~wild' => v = active)
<1>1. V!TypeOK /\ V!PendingIsActive
  BY DEF V!VtInv
<1>2. /\ V!finish_switch(v, vt_next[v] - 1) /\ vt_next[v] # 0
      /\ wild' = (wild \/ v \notin written)
      /\ UNCHANGED <<vt_mode, display, vt_owner, vt_buffer>>
  BY DEF V!RelDisp, V!setVars
<1>3. vt_next[v] - 1 \in Vts
  BY <1>1, <1>2, VtNumbers DEF V!TypeOK
<1>4. CASE ~wild'
  <2>1. ~wild /\ v \in written /\ wild' = wild
    BY <1>1, <1>2, <1>4 DEF V!TypeOK
  <2>2. v = active
    BY <1>1, <1>2, <2>1 DEF V!PendingIsActive
  <2> QED
    BY <1>2, <1>3, <2>1, <2>2, VtSwitch
<1>5. CASE wild'
  <2> DEFINE number == vt_next[v] - 1
             auto == vt_mode[number] = "auto" /\ display[number] = "text"
  <2>1. /\ active' = number /\ vt_next' = [vt_next EXCEPT ![v] = 0]
        /\ written' = written \cup {v} /\ intact' = auto
        /\ screen' = IF auto THEN vt_buffer[number] ELSE << >>
    BY <1>2 DEF V!finish_switch, V!Cleared, V!Restored
  <2> HIDE DEF number
  <2>2. number \in Vts
    BY <1>3 DEF number
  <2>3. vt_next' \in [Vts -> 0..V!Cardinality(Vts)]
    BY <1>1, <2>1, VtNumbers DEF V!TypeOK
  <2>4. screen' \in Seq(Nat)
    BY <1>1, <2>1, <2>2 DEF V!TypeOK
  <2>5. intact' \in BOOLEAN /\ wild' \in BOOLEAN
    BY <1>2, <2>1
  <2>6. V!TypeOK'
    BY <1>1, <1>2, <2>1, <2>2, <2>3, <2>4, <2>5 DEF V!TypeOK
  <2>7. V!ScreenIsBuffer'
    BY <1>2, <2>1 DEF V!ScreenIsBuffer
  <2> QED
    BY <1>5, <2>6, <2>7 DEF V!VtInv, V!PendingIsActive
<1> QED
  BY <1>4, <1>5

(* Every step of the terminals keeps the invariant, and takes the screen   *)
(* from a terminal in process mode only if its owner says so.              *)
LEMMA NextVt ==
  ASSUME V!VtInv, V!Next
  PROVE  V!VtInv' /\ V!ReleasedByOwner
<1>0. V!TypeOK /\ V!PendingIsActive /\ V!ScreenIsBuffer
  BY DEF V!VtInv
<1>1. ASSUME NEW m, V!Modifier(m)
      PROVE  V!VtInv' /\ V!ReleasedByOwner
  BY <1>0, <1>1 DEF V!Modifier, V!setVars, V!VtInv, V!TypeOK, V!PendingIsActive,
     V!ScreenIsBuffer, V!ReleasedByOwner
<1>2. ASSUME NEW number, V!FunctionKey(number)
      PROVE  V!VtInv' /\ V!ReleasedByOwner
  <2>1. V!change(number) /\ UNCHANGED <<vt_mode, display, vt_owner, vt_buffer, wild>>
    BY <1>2 DEF V!FunctionKey, V!setVars
  <2> QED
    BY <2>1, VtChange DEF V!ReleasedByOwner
<1>3. ASSUME NEW p \in VtProcs, NEW v \in Vts, V!Activate(p, v)
      PROVE  V!VtInv' /\ V!ReleasedByOwner
  <2>1. V!change(v) /\ UNCHANGED <<vt_mode, display, vt_owner, vt_buffer, wild>>
    BY <1>3 DEF V!Activate, V!setVars
  <2> QED
    BY <2>1, VtChange DEF V!ReleasedByOwner
<1>4. ASSUME NEW p \in VtProcs, NEW v \in Vts, V!SetOwner(p, v)
      PROVE  V!VtInv' /\ V!ReleasedByOwner
  BY <1>0, <1>4 DEF V!SetOwner, V!VtInv, V!TypeOK, V!PendingIsActive,
     V!ScreenIsBuffer, V!ReleasedByOwner
<1>5. ASSUME NEW p \in VtProcs, NEW v \in Vts, V!RelDisp(p, v)
      PROVE  V!VtInv' /\ V!ReleasedByOwner
  <2>1. V!VtInv' /\ (~wild' => v = active)
    BY <1>5, VtRelDisp
  <2>2. vt_mode[v] = "process" => vt_owner[v] \in {None, p}
    BY <1>5 DEF V!RelDisp, V!CheckOwner
  <2> QED
    BY <1>5, <2>1, <2>2 DEF V!ReleasedByOwner
<1>6. ASSUME NEW p \in VtProcs, NEW v \in Vts, NEW m \in {"auto", "process"}, V!SetMode(p, v, m)
      PROVE  V!VtInv' /\ V!ReleasedByOwner
  BY <1>0, <1>6 DEF V!SetMode, V!VtInv, V!TypeOK, V!PendingIsActive,
     V!ScreenIsBuffer, V!ReleasedByOwner
<1>7. ASSUME NEW p \in VtProcs, NEW v \in Vts, NEW d \in {"text", "graphic"}, V!SetDisplay(p, v, d)
      PROVE  V!VtInv' /\ V!ReleasedByOwner
  BY <1>0, <1>7 DEF V!SetDisplay, V!VtInv, V!TypeOK, V!PendingIsActive,
     V!ScreenIsBuffer, V!ReleasedByOwner
<1>8. ASSUME NEW v \in Vts, V!PutChar(v)
      PROVE  V!VtInv' /\ V!ReleasedByOwner
  <2> DEFINE c == Len(vt_buffer[v]) + 1
  <2>1. /\ screen' = IF v = active /\ display[v] # "graphic" THEN Append(screen, c) ELSE screen
        /\ vt_buffer' = IF display[v] # "graphic"
                          THEN [vt_buffer EXCEPT ![v] = Append(vt_buffer[v], c)] ELSE vt_buffer
        /\ UNCHANGED <<active, vt_next, vt_mode, display, vt_owner, intact, written, wild>>
    BY <1>8 DEF V!PutChar, V!setVars
  <2>2. vt_buffer[v] \in Seq(Nat) /\ c \in Nat
    BY <1>0 DEF V!TypeOK
  <2> HIDE DEF c
  <2>3. Append(vt_buffer[v], c) \in Seq(Nat) /\ Append(screen, c) \in Seq(Nat)
    BY <1>0, <2>2 DEF V!TypeOK
  <2>4. V!TypeOK'
    BY <1>0, <2>1, <2>3 DEF V!TypeOK
  <2>5. V!ScreenIsBuffer'
    BY <1>0, <2>1 DEF V!ScreenIsBuffer, V!TypeOK
  <2> QED
    BY <1>0, <2>1, <2>4, <2>5 DEF V!VtInv, V!PendingIsActive, V!ReleasedByOwner
<1> QED
  BY <1>1, <1>2, <1>3, <1>4, <1>5, <1>6, <1>7, <1>8 DEF V!Next

(* The screen is one virtual terminal's, for any number of terminals and   *)
(* processes: in every step, it shows the text of the terminal that has it *)
(* (in text and auto mode, and `intact'), only that terminal has a release *)
(* outstanding, and a terminal in process mode loses the screen only by a  *)
(* VT_RELDISP of its owner (both while no release was `wild').  The        *)
(* last point needs the other: a release that comes late would otherwise   *)
(* act for another terminal.                                               *)
THEOREM ScreenStaysOwned == Spec => ScreenIsOwned
<1> DEFINE Inv == part = "vt" => V!VtInv
           Kept == part = "vt" => /\ V!PendingIsActive' /\ V!ScreenIsBuffer'
                                  /\ V!ReleasedByOwner
<1>1. Init => Inv
  BY InitVt DEF Init
<1>2. Inv /\ [Next]_vars => Inv' /\ [Kept]_vars
  <2> SUFFICES ASSUME Inv, [Next]_vars
               PROVE  Inv' /\ [Kept]_vars
    OBVIOUS
  <2>1. CASE part # "vt"
    BY <2>1 DEF Next, vars
  <2>2. CASE part = "vt" /\ Next
    <3>1. V!VtInv' /\ V!ReleasedByOwner
      BY <2>2, NextVt DEF Next
    <3> QED
      BY <3>1 DEF V!VtInv
  <2>3. CASE part = "vt" /\ UNCHANGED vars
    BY <2>3 DEF vars, vtVars, V!VtInv, V!TypeOK, V!PendingIsActive, V!ScreenIsBuffer
  <2> QED
    BY <2>1, <2>2, <2>3
<1>3. ScreenIsOwned <=> [][Kept]_vars
  BY DEF ScreenIsOwned
<1> QED
  BY <1>1, <1>2, <1>3, PTL DEF Spec

(***************************************************************************)
(* Descriptor tables                                                       *)
(***************************************************************************)

(* The set operators of the instance are those of the library.             *)
LEMMA FdsCounts == \A T : F!Cardinality(T) = Cardinality(T) /\ (F!IsFiniteSet(T) <=> IsFiniteSet(T))
  BY DEF F!Cardinality, Cardinality, F!IsFiniteSet, IsFiniteSet

(* As many entries of one table as there are slots.                        *)
LEMMA SlotsOfTable ==
  ASSUME NEW p, NEW T, IsFiniteSet(T)
  PROVE  LET D == {<<p, i>> : i \in T}
         IN  IsFiniteSet(D) /\ Cardinality(D) = Cardinality(T)
<1> DEFINE D == {<<p, i>> : i \in T}
           f == [i \in T |-> <<p, i>>]
<1>1. f \in Bijection(T, D)
  BY DEF Bijection, Injection, Surjection, IsInjective
<1>2. ExistsBijection(T, D)
  BY <1>1 DEF ExistsBijection
<1> QED
  BY <1>2, FS_Bijection

(* Used entries, entry by entry.                                           *)
LEMMA UsedFacts ==
  ASSUME F!TypeOK, F!TablesFit
  PROVE  \A p \in FdProcs :
           /\ F!Used(p) \subseteq 1..MaxTable /\ IsFiniteSet(F!Used(p))
           /\ F!Used(p) \subseteq 1..Len(fd_nodes[p])
           /\ DOMAIN fd_nodes[p] = 1..Len(fd_nodes[p]) /\ Len(fd_nodes[p]) \in Nat
           /\ \A i \in F!Used(p) : fd_nodes[p][i] \in Fdts
<1> SUFFICES ASSUME NEW p \in FdProcs
             PROVE  /\ F!Used(p) \subseteq 1..MaxTable /\ IsFiniteSet(F!Used(p))
                    /\ F!Used(p) \subseteq 1..Len(fd_nodes[p])
                    /\ DOMAIN fd_nodes[p] = 1..Len(fd_nodes[p]) /\ Len(fd_nodes[p]) \in Nat
                    /\ \A i \in F!Used(p) : fd_nodes[p][i] \in Fdts
  OBVIOUS
<1>1. fd_nodes[p] \in Seq(Fdts \cup {None}) /\ Len(fd_nodes[p]) <= MaxTable /\ MaxTable \in Nat
  BY SystemAssumption DEF F!TypeOK, F!TablesFit, F!FdsAssumption
<1>2. DOMAIN fd_nodes[p] = 1..Len(fd_nodes[p]) /\ Len(fd_nodes[p]) \in Nat
      /\ \A i \in 1..Len(fd_nodes[p]) : fd_nodes[p][i] \in Fdts \cup {None}
  BY <1>1
<1>3. F!Used(p) \subseteq 1..MaxTable /\ F!Used(p) \subseteq 1..Len(fd_nodes[p])
      /\ \A i \in F!Used(p) : fd_nodes[p][i] \in Fdts
  BY <1>1, <1>2 DEF F!Used
<1>4. IsFiniteSet(1..MaxTable)
  BY <1>1, FS_Interval
<1> QED
  BY <1>2, <1>3, <1>4, FS_Subset

(* The entries that lead to a node or to an fd_t.                          *)
LEMMA EntryFacts ==
  ASSUME F!TypeOK, F!TablesFit
  PROVE  /\ \A n : F!OfNode(n) \subseteq FdProcs \X Nat
         /\ \A n : \A p \in FdProcs, i \in Nat :
              <<p, i>> \in F!OfNode(n) <=> i \in F!Used(p) /\ fdt[fd_nodes[p][i]].node = n
         /\ \A t : F!OfFdt(t) \subseteq FdProcs \X Nat
         /\ \A t : \A p \in FdProcs, i \in Nat :
              <<p, i>> \in F!OfFdt(t) <=> i \in F!Used(p) /\ fd_nodes[p][i] = t
<1>1. F!Entries \subseteq FdProcs \X Nat
  BY DEF F!Entries
<1>2. \A p \in FdProcs, i \in Nat : <<p, i>> \in F!Entries <=> i \in F!Used(p)
  <2> SUFFICES ASSUME NEW p \in FdProcs, NEW i \in Nat
               PROVE  <<p, i>> \in F!Entries <=> i \in F!Used(p)
    OBVIOUS
  <2>1. i \in F!Used(p) => i \in 1..MaxTable
    BY UsedFacts
  <2> QED
    BY <2>1 DEF F!Entries, F!Used
<1> QED
  BY <1>1, <1>2 DEF F!OfNode, F!OfFdt, F!NodeOf

LEMMA EntryFactsAfter ==
  ASSUME F!TypeOK', F!TablesFit'
  PROVE  /\ \A n : F!OfNode(n)' \subseteq FdProcs \X Nat
         /\ \A n : \A p \in FdProcs, i \in Nat :
              <<p, i>> \in F!OfNode(n)' <=> i \in F!Used(p)' /\ fdt'[fd_nodes'[p][i]].node = n
<1>1. F!Entries' \subseteq FdProcs \X Nat
  BY DEF F!Entries
<1>2. \A p \in FdProcs : F!Used(p)' \subseteq 1..MaxTable
  <2> SUFFICES ASSUME NEW p \in FdProcs
               PROVE  F!Used(p)' \subseteq 1..MaxTable
    OBVIOUS
  <2>1. fd_nodes'[p] \in Seq(Fdts \cup {None}) /\ Len(fd_nodes'[p]) <= MaxTable /\ MaxTable \in Nat
    BY SystemAssumption DEF F!TypeOK, F!TablesFit, F!FdsAssumption
  <2>2. DOMAIN fd_nodes'[p] = 1..Len(fd_nodes'[p]) /\ Len(fd_nodes'[p]) \in Nat
    BY <2>1
  <2> QED
    BY <2>1, <2>2 DEF F!Used
<1>3. \A p \in FdProcs, i \in Nat : <<p, i>> \in F!Entries' <=> i \in F!Used(p)'
  <2> SUFFICES ASSUME NEW p \in FdProcs, NEW i \in Nat
               PROVE  <<p, i>> \in F!Entries' <=> i \in F!Used(p)'
    OBVIOUS
  <2>1. i \in F!Used(p)' => i \in 1..MaxTable
    BY <1>2
  <2> QED
    BY <2>1 DEF F!Entries, F!Used
<1> QED
  BY <1>1, <1>3 DEF F!OfNode, F!NodeOf

LEMMA InitFds == F!Init => F!FdsInv
<1> SUFFICES ASSUME F!Init
             PROVE  F!FdsInv
  OBVIOUS
<1>0. Root \in FdProcs /\ None \notin Fdts \cup FdNodes /\ MaxTable \in Nat
  BY SystemAssumption DEF F!FdsAssumption
<1>1. F!TypeOK
  <2>1. fd_nodes \in [FdProcs -> Seq(Fdts \cup {None})] /\ amount \in [FdProcs -> Nat]
    BY DEF F!Init
  <2>2. links \in [FdNodes -> Nat] /\ alive \subseteq FdProcs
    BY <1>0 DEF F!Init
  <2>3. fdt \in [Fdts -> [node : FdNodes \cup {None}, links : Nat]]
    BY DEF F!Init, F!Free
  <2> QED
    BY <2>1, <2>2, <2>3 DEF F!TypeOK
<1>2. F!TablesFit
  BY <1>0 DEF F!Init, F!TablesFit
<1>3. \A p \in FdProcs : F!Used(p) = {}
  BY DEF F!Init, F!Used
<1>4. F!OneEntryEach
  BY <1>3 DEF F!Init, F!OneEntryEach
<1>5. \A n : F!OfNode(n) = {}
  BY <1>1, <1>2, <1>3, EntryFacts
<1>6. F!Counted
  BY <1>3, <1>5, FdsCounts, FS_EmptySet DEF F!Init, F!Counted
<1> QED
  BY <1>1, <1>2, <1>4, <1>6 DEF F!FdsInv

(* Closing the slots X of p frees their fd_ts and leaves the others.       *)
LEMMA CloseFrees ==
  ASSUME F!FdsInv, NEW p \in FdProcs, NEW X, X \subseteq F!Used(p), F!CloseAll(p, X)
  PROVE  /\ fdt' = [t \in Fdts |-> IF \E i \in X : fd_nodes[p][i] = t THEN F!Free ELSE fdt[t]]
         /\ IsFiniteSet(X) /\ amount' = [amount EXCEPT ![p] = @ - Cardinality(X)]
         /\ links' = [n \in FdNodes |->
                        links[n] - Cardinality({i \in X : fdt[fd_nodes[p][i]].node = n})]
<1> DEFINE RefsTo(t) == {i \in X : fd_nodes[p][i] = t}
<1>0. F!TypeOK /\ F!TablesFit /\ F!OneEntryEach
  BY DEF F!FdsInv
<1>1. /\ amount' = [amount EXCEPT ![p] = @ - Cardinality(X)]
      /\ fdt' = [t \in Fdts |-> IF Cardinality(RefsTo(t)) = 0 THEN fdt[t]
                                ELSE IF fdt[t].links <= Cardinality(RefsTo(t)) THEN F!Free
                                ELSE [fdt[t] EXCEPT !.links = @ - Cardinality(RefsTo(t))]]
      /\ links' = [n \in FdNodes |->
                     links[n] - Cardinality({i \in X : fdt[fd_nodes[p][i]].node = n})]
  BY FdsCounts DEF F!CloseAll, F!NodeOf
<1>2. IsFiniteSet(X)
  BY <1>0, UsedFacts, FS_Subset
<1>3. ASSUME NEW t \in Fdts
      PROVE  fdt'[t] = IF \E i \in X : fd_nodes[p][i] = t THEN F!Free ELSE fdt[t]
  <2>1. CASE \E i \in X : fd_nodes[p][i] = t
    <3>1. PICK i \in X : fd_nodes[p][i] = t
      BY <2>1
    <3>2. RefsTo(t) = {i}
      BY <1>0, <3>1 DEF F!OneEntryEach
    <3>3. Cardinality(RefsTo(t)) = 1
      BY <3>2, FS_Singleton
    <3>4. fdt[t].links = 1
      BY <1>0, <3>1 DEF F!OneEntryEach
    <3> HIDE DEF RefsTo
    <3> QED
      BY <1>1, <2>1, <3>3, <3>4
  <2>2. CASE ~ \E i \in X : fd_nodes[p][i] = t
    <3>1. RefsTo(t) = {}
      BY <2>2
    <3>2. Cardinality(RefsTo(t)) = 0
      BY <3>1, FS_EmptySet
    <3> HIDE DEF RefsTo
    <3> QED
      BY <1>1, <2>2, <3>2
  <2> QED
    BY <2>1, <2>2
<1>4. fdt' = [t \in Fdts |-> fdt'[t]]
  BY <1>1
<1>5. fdt' = [t \in Fdts |-> IF \E i \in X : fd_nodes[p][i] = t THEN F!Free ELSE fdt[t]]
  BY <1>3, <1>4
<1> QED
  BY <1>1, <1>2, <1>5, Zenon

(* Closing slots of one table, whatever becomes of the rest of it.         *)
LEMMA CloseKeeps ==
  ASSUME F!FdsInv, NEW p \in FdProcs, NEW X, X \subseteq F!Used(p), F!CloseAll(p, X),
         fd_nodes' \in [FdProcs -> Seq(Fdts \cup {None})], Len(fd_nodes'[p]) <= MaxTable,
         \A q \in FdProcs : q # p => fd_nodes'[q] = fd_nodes[q],
         F!Used(p)' = F!Used(p) \ X,
         \A i \in F!Used(p) \ X : fd_nodes'[p][i] = fd_nodes[p][i],
         alive' \subseteq FdProcs, \A q \in FdProcs \ alive' : fd_nodes'[q] = << >>
  PROVE  F!FdsInv'
<1>0. F!TypeOK /\ F!TablesFit /\ F!OneEntryEach /\ F!Counted /\ None \notin Fdts \cup FdNodes
  BY SystemAssumption DEF F!FdsInv, F!FdsAssumption
<1>1. /\ fdt' = [t \in Fdts |-> IF \E i \in X : fd_nodes[p][i] = t THEN F!Free ELSE fdt[t]]
      /\ IsFiniteSet(X) /\ amount' = [amount EXCEPT ![p] = @ - Cardinality(X)]
      /\ links' = [n \in FdNodes |->
                     links[n] - Cardinality({i \in X : fdt[fd_nodes[p][i]].node = n})]
  BY CloseFrees
<1>2. \A q \in FdProcs : q # p => F!Used(q)' = F!Used(q)
  BY DEF F!Used
<1>3. \A q \in FdProcs : \A i \in F!Used(q)' :
         /\ i \in F!Used(q) /\ fd_nodes'[q][i] = fd_nodes[q][i]
         /\ fdt'[fd_nodes[q][i]] = fdt[fd_nodes[q][i]]
  <2> SUFFICES ASSUME NEW q \in FdProcs, NEW i \in F!Used(q)'
               PROVE  /\ i \in F!Used(q) /\ fd_nodes'[q][i] = fd_nodes[q][i]
                      /\ fdt'[fd_nodes[q][i]] = fdt[fd_nodes[q][i]]
    OBVIOUS
  <2>1. i \in F!Used(q) /\ fd_nodes'[q][i] = fd_nodes[q][i] /\ (q = p => i \notin X)
    BY <1>2
  <2>2. ~ \E j \in X : fd_nodes[p][j] = fd_nodes[q][i]
    BY <1>0, <2>1 DEF F!OneEntryEach
  <2>3. fd_nodes[q][i] \in Fdts
    BY <1>0, <2>1, UsedFacts
  <2> QED
    BY <1>1, <2>1, <2>2, <2>3
<1>4. \A n \in FdNodes :
        /\ IsFiniteSet({i \in X : fdt[fd_nodes[p][i]].node = n})
        /\ IsFiniteSet(F!OfNode(n)) /\ links[n] = Cardinality(F!OfNode(n))
  BY <1>0, <1>1, FS_Subset, FdsCounts DEF F!Counted
<1>5. \A n \in FdNodes :
        LET D == {<<p, i>> : i \in {j \in X : fdt[fd_nodes[p][j]].node = n}}
        IN  /\ links'[n] = Cardinality(F!OfNode(n) \ D) /\ links'[n] \in Nat
            /\ IsFiniteSet(F!OfNode(n) \ D)
  <2> SUFFICES ASSUME NEW n \in FdNodes
               PROVE  LET D == {<<p, i>> : i \in {j \in X : fdt[fd_nodes[p][j]].node = n}}
                      IN  /\ links'[n] = Cardinality(F!OfNode(n) \ D) /\ links'[n] \in Nat
                          /\ IsFiniteSet(F!OfNode(n) \ D)
    OBVIOUS
  <2> DEFINE Y == {j \in X : fdt[fd_nodes[p][j]].node = n}
             D == {<<p, i>> : i \in Y}
  <2>1. D \subseteq F!OfNode(n)
    <3>1. \A i \in Y : i \in F!Used(p) /\ i \in Nat /\ fdt[fd_nodes[p][i]].node = n
      BY <1>0, UsedFacts
    <3>2. \A i \in Y : <<p, i>> \in F!OfNode(n)
      BY <1>0, <3>1, EntryFacts
    <3> QED
      BY <3>2
  <2>2. IsFiniteSet(Y)
    BY <1>4
  <2>3. links'[n] = links[n] - Cardinality(Y)
    BY <1>1
  <2> HIDE DEF Y
  <2>4. IsFiniteSet(D) /\ Cardinality(D) = Cardinality(Y)
    BY <2>2, SlotsOfTable
  <2>5. F!OfNode(n) \cap D = D
    BY <2>1
  <2> HIDE DEF D
  <2>6. IsFiniteSet(F!OfNode(n) \ D)
        /\ Cardinality(F!OfNode(n) \ D) = Cardinality(F!OfNode(n)) - Cardinality(D)
    <3> DEFINE Z == F!OfNode(n)
    <3>1. IsFiniteSet(Z) /\ Z \cap D = D
      BY <1>4, <2>5
    <3> HIDE DEF Z
    <3>2. IsFiniteSet(Z \ D) /\ Cardinality(Z \ D) = Cardinality(Z) - Cardinality(D)
      BY <3>1, FS_Difference
    <3> QED
      BY <3>2 DEF Z
  <2>7. Cardinality(F!OfNode(n) \ D) \in Nat
    BY <2>6, FS_CardinalityType
  <2> QED
    BY <1>4, <2>3, <2>4, <2>6, <2>7 DEF Y, D
<1>6. F!TypeOK'
  <2>1. links' \in [FdNodes -> Nat]
    BY <1>1, <1>5
  <2>2. Cardinality(F!Used(p)) - Cardinality(X) \in Nat
    <3>1. IsFiniteSet(F!Used(p)) /\ F!Used(p) \cap X = X
      BY <1>0, UsedFacts
    <3>2. Cardinality(F!Used(p) \ X) = Cardinality(F!Used(p)) - Cardinality(X)
          /\ IsFiniteSet(F!Used(p) \ X)
      BY <3>1, FS_Difference
    <3> QED
      BY <3>2, FS_CardinalityType
  <2>3. amount[p] - Cardinality(X) \in Nat
    BY <1>0, <2>2, FdsCounts DEF F!Counted
  <2>4. amount' \in [FdProcs -> Nat]
    BY <1>0, <1>1, <2>3 DEF F!TypeOK
  <2>5. F!Free \in [node : FdNodes \cup {None}, links : Nat]
    BY DEF F!Free
  <2>6. fdt' \in [Fdts -> [node : FdNodes \cup {None}, links : Nat]]
    BY <1>0, <1>1, <2>5 DEF F!TypeOK
  <2> QED
    BY <2>1, <2>4, <2>6 DEF F!TypeOK
<1>7. F!TablesFit'
  BY <1>0 DEF F!TablesFit
<1>8. F!OneEntryEach'
  <2>1. \A q, r \in FdProcs : \A i \in F!Used(q)', j \in F!Used(r)' :
          fd_nodes'[q][i] = fd_nodes'[r][j] => q = r /\ i = j
    BY <1>0, <1>3 DEF F!OneEntryEach
  <2>2. \A q \in FdProcs : \A i \in F!Used(q)' :
          fdt'[fd_nodes'[q][i]].links = 1 /\ fdt'[fd_nodes'[q][i]].node \in FdNodes
    BY <1>0, <1>3 DEF F!OneEntryEach, F!NodeOf
  <2>3. ASSUME NEW t \in Fdts
        PROVE  fdt'[t] = F!Free \/ \E q \in FdProcs : \E i \in F!Used(q)' : fd_nodes'[q][i] = t
    <3>1. CASE \E i \in X : fd_nodes[p][i] = t
      BY <1>1, <3>1
    <3>2. CASE ~ \E i \in X : fd_nodes[p][i] = t
      <4>1. fdt'[t] = fdt[t]
        BY <1>1, <3>2
      <4>2. CASE fdt[t] # F!Free
        <5>1. PICK q \in FdProcs : \E i \in F!Used(q) : fd_nodes[q][i] = t
          BY <1>0, <4>2 DEF F!OneEntryEach
        <5>2. PICK i \in F!Used(q) : fd_nodes[q][i] = t
          BY <5>1
        <5>3. i \in F!Used(q)'
          BY <1>2, <3>2, <5>2
        <5> QED
          BY <1>3, <5>2, <5>3
      <4> QED
        BY <4>1, <4>2
    <3> QED
      BY <3>1, <3>2
  <2> QED
    BY <2>1, <2>2, <2>3 DEF F!OneEntryEach, F!NodeOf, F!Free
<1>9. F!Counted'
  <2>1. ASSUME NEW n \in FdNodes
        PROVE  F!IsFiniteSet(F!OfNode(n)') /\ links'[n] = F!Cardinality(F!OfNode(n)')
    <3> DEFINE D == {<<p, i>> : i \in {j \in X : fdt[fd_nodes[p][j]].node = n}}
    <3>1. \A q \in FdProcs, i \in Nat :
            <<q, i>> \in F!OfNode(n)' <=> <<q, i>> \in F!OfNode(n) \ D
      <4> SUFFICES ASSUME NEW q \in FdProcs, NEW i \in Nat
                   PROVE  <<q, i>> \in F!OfNode(n)' <=> <<q, i>> \in F!OfNode(n) \ D
        OBVIOUS
      <4>1. <<q, i>> \in F!OfNode(n)' <=> i \in F!Used(q)' /\ fdt'[fd_nodes'[q][i]].node = n
        BY <1>6, <1>7, EntryFactsAfter
      <4>2. <<q, i>> \in F!OfNode(n) <=> i \in F!Used(q) /\ fdt[fd_nodes[q][i]].node = n
        BY <1>0, EntryFacts
      <4>3. <<q, i>> \in D <=> q = p /\ i \in X /\ fdt[fd_nodes[p][i]].node = n
        OBVIOUS
      <4> HIDE DEF D
      <4>4. i \in F!Used(q)' <=> i \in F!Used(q) /\ ~(q = p /\ i \in X)
        BY <1>2
      <4> QED
        BY <1>3, <4>1, <4>2, <4>3, <4>4
    <3>2. F!OfNode(n) \subseteq FdProcs \X Nat /\ F!OfNode(n)' \subseteq FdProcs \X Nat
      BY <1>0, <1>6, <1>7, EntryFacts, EntryFactsAfter
    <3> HIDE DEF D
    <3>3. F!OfNode(n)' = F!OfNode(n) \ D
      BY <3>1, <3>2
    <3> QED
      BY <1>5, <3>3, FdsCounts DEF D
  <2>2. ASSUME NEW q \in FdProcs
        PROVE  amount'[q] = F!Cardinality(F!Used(q)')
    <3>1. CASE q # p
      BY <1>0, <1>1, <1>2, <3>1 DEF F!Counted, F!TypeOK
    <3>2. CASE q = p
      <4>1. IsFiniteSet(F!Used(p)) /\ F!Used(p) \cap X = X
        BY <1>0, UsedFacts
      <4>2. Cardinality(F!Used(p) \ X) = Cardinality(F!Used(p)) - Cardinality(X)
        BY <4>1, FS_Difference
      <4>3. amount'[p] = amount[p] - Cardinality(X)
        BY <1>0, <1>1 DEF F!TypeOK
      <4> QED
        BY <1>0, <3>2, <4>2, <4>3, FdsCounts DEF F!Counted
    <3> QED
      BY <3>1, <3>2
  <2> QED
    BY <2>1, <2>2 DEF F!Counted
<1> QED
  BY <1>6, <1>7, <1>8, <1>9 DEF F!FdsInv

(* A table with every entry of a set of slots emptied.                     *)
LEMMA EmptiedSlots ==
  ASSUME F!FdsInv, NEW p \in FdProcs, NEW X, X \subseteq F!Used(p), NEW table,
         table = [i \in DOMAIN fd_nodes[p] |-> IF i \in X THEN None ELSE fd_nodes[p][i]],
         fd_nodes' = [fd_nodes EXCEPT ![p] = table]
  PROVE  /\ fd_nodes' \in [FdProcs -> Seq(Fdts \cup {None})] /\ Len(fd_nodes'[p]) <= MaxTable
         /\ \A q \in FdProcs : q # p => fd_nodes'[q] = fd_nodes[q]
         /\ F!Used(p)' = F!Used(p) \ X
         /\ \A i \in F!Used(p) \ X : fd_nodes'[p][i] = fd_nodes[p][i]
<1>1. F!TypeOK /\ F!TablesFit
  BY DEF F!FdsInv
<1>2. fd_nodes[p] \in Seq(Fdts \cup {None}) /\ Len(fd_nodes[p]) <= MaxTable
  BY <1>1 DEF F!TypeOK, F!TablesFit
<1>3. table \in Seq(Fdts \cup {None}) /\ Len(table) = Len(fd_nodes[p]) /\ DOMAIN table = DOMAIN fd_nodes[p]
      /\ \A i \in DOMAIN table : table[i] = IF i \in X THEN None ELSE fd_nodes[p][i]
  <2>1. /\ DOMAIN table = 1..Len(fd_nodes[p]) /\ Len(fd_nodes[p]) \in Nat
        /\ DOMAIN fd_nodes[p] = 1..Len(fd_nodes[p])
    BY <1>2
  <2>2. \A i \in 1..Len(fd_nodes[p]) :
          /\ table[i] \in Fdts \cup {None}
          /\ table[i] = IF i \in X THEN None ELSE fd_nodes[p][i]
    BY <1>2, <2>1
  <2>3. table = [i \in 1..Len(fd_nodes[p]) |-> table[i]]
    BY <2>1
  <2>4. table \in [1..Len(fd_nodes[p]) -> Fdts \cup {None}]
    BY <2>2, <2>3
  <2>5. table \in Seq(Fdts \cup {None})
    BY <2>1, <2>4
  <2> QED
    BY <2>1, <2>2, <2>5
<1>4. fd_nodes' \in [FdProcs -> Seq(Fdts \cup {None})] /\ fd_nodes'[p] = table
      /\ \A q \in FdProcs : q # p => fd_nodes'[q] = fd_nodes[q]
  BY <1>1, <1>3 DEF F!TypeOK
<1>5. F!Used(p)' = F!Used(p) \ X
  BY <1>3, <1>4 DEF F!Used
<1>6. \A i \in F!Used(p) \ X : fd_nodes'[p][i] = fd_nodes[p][i]
  BY <1>3, <1>4 DEF F!Used
<1> QED
  BY <1>2, <1>3, <1>4, <1>5, <1>6

LEMMA FdsClose ==
  ASSUME F!FdsInv, NEW p \in FdProcs, NEW i, F!close_fd(p, i)
  PROVE  F!FdsInv'
<1>0. F!TypeOK /\ F!TablesFit /\ F!OneEntryEach
  BY DEF F!FdsInv
<1>1. /\ i \in F!Used(p) /\ F!CloseAll(p, {i}) /\ alive' = alive
      /\ fd_nodes' = [fd_nodes EXCEPT ![p] = [fd_nodes[p] EXCEPT ![i] = None]]
  BY DEF F!close_fd
<1> DEFINE table == [fd_nodes[p] EXCEPT ![i] = None]
<1>2. table = [j \in DOMAIN fd_nodes[p] |-> IF j \in {i} THEN None ELSE fd_nodes[p][j]]
  <2>1. table = [j \in DOMAIN fd_nodes[p] |-> IF j = i THEN None ELSE fd_nodes[p][j]]
    OBVIOUS
  <2> QED
    BY <2>1
<1>3. fd_nodes' = [fd_nodes EXCEPT ![p] = table] /\ {i} \subseteq F!Used(p)
  BY <1>1
<1> HIDE DEF table
<1>4. /\ fd_nodes' \in [FdProcs -> Seq(Fdts \cup {None})] /\ Len(fd_nodes'[p]) <= MaxTable
      /\ \A q \in FdProcs : q # p => fd_nodes'[q] = fd_nodes[q]
      /\ F!Used(p)' = F!Used(p) \ {i}
      /\ \A j \in F!Used(p) \ {i} : fd_nodes'[p][j] = fd_nodes[p][j]
  BY <1>2, <1>3, EmptiedSlots
<1>5. p \in alive /\ alive' \subseteq FdProcs /\ \A q \in FdProcs \ alive' : fd_nodes'[q] = << >>
  BY <1>0, <1>1, <1>4 DEF F!TypeOK, F!OneEntryEach, F!close_fd
<1> QED
  BY <1>1, <1>3, <1>4, <1>5, CloseKeeps

LEMMA FdsExec ==
  ASSUME F!FdsInv, NEW p \in FdProcs, F!prepare_exec(p)
  PROVE  F!FdsInv'
<1>0. F!TypeOK /\ F!TablesFit /\ F!OneEntryEach
  BY DEF F!FdsInv
<1> DEFINE X == {i \in F!Used(p) : F!NodeOf(p, i) \in CloExec}
           table == [j \in DOMAIN fd_nodes[p] |-> IF j \in X THEN None ELSE fd_nodes[p][j]]
<1>1. /\ F!CloseAll(p, X) /\ alive' = alive /\ p \in alive /\ X \subseteq F!Used(p)
      /\ fd_nodes' = [fd_nodes EXCEPT ![p] = table]
  BY DEF F!prepare_exec
<1> HIDE DEF X
<1>2. /\ fd_nodes' \in [FdProcs -> Seq(Fdts \cup {None})] /\ Len(fd_nodes'[p]) <= MaxTable
      /\ \A q \in FdProcs : q # p => fd_nodes'[q] = fd_nodes[q]
      /\ F!Used(p)' = F!Used(p) \ X
      /\ \A j \in F!Used(p) \ X : fd_nodes'[p][j] = fd_nodes[p][j]
  BY <1>1, EmptiedSlots
<1>3. alive' \subseteq FdProcs /\ \A q \in FdProcs \ alive' : fd_nodes'[q] = << >>
  BY <1>0, <1>1, <1>2 DEF F!TypeOK, F!OneEntryEach
<1> QED
  BY <1>1, <1>2, <1>3, CloseKeeps

LEMMA FdsExit ==
  ASSUME F!FdsInv, NEW p \in FdProcs, F!exit(p)
  PROVE  F!FdsInv'
<1>0. F!TypeOK /\ F!TablesFit /\ F!OneEntryEach /\ MaxTable \in Nat
  BY SystemAssumption DEF F!FdsInv, F!FdsAssumption
<1>1. /\ F!CloseAll(p, F!Used(p)) /\ alive' = alive \ {p}
      /\ fd_nodes' = [fd_nodes EXCEPT ![p] = << >>]
  BY DEF F!exit
<1>2. /\ fd_nodes' \in [FdProcs -> Seq(Fdts \cup {None})] /\ fd_nodes'[p] = << >>
      /\ \A q \in FdProcs : q # p => fd_nodes'[q] = fd_nodes[q]
  BY <1>0, <1>1 DEF F!TypeOK
<1>3. F!Used(p)' = F!Used(p) \ F!Used(p)
  BY <1>2 DEF F!Used
<1>4. alive' \subseteq FdProcs /\ \A q \in FdProcs \ alive' : fd_nodes'[q] = << >>
  BY <1>0, <1>1, <1>2 DEF F!TypeOK, F!OneEntryEach
<1>5. Len(fd_nodes'[p]) <= MaxTable
  BY <1>0, <1>2
<1> QED
  BY <1>1, <1>2, <1>3, <1>4, <1>5, CloseKeeps

(* New entries N in the table of q, each with a free fd_t of its own: what *)
(* becomes of the tables, of the fd_ts and of the counts.                  *)
NewEntries(q, N, new, of) ==
  /\ IsFiniteSet(N) /\ N \cap F!Used(q) = {} /\ N \subseteq Nat /\ new \in [N -> Fdts]
  /\ of \in [N -> FdNodes] /\ \A i, j \in N : new[i] = new[j] => i = j
  /\ \A i \in N : fdt[new[i]] = F!Free

NewTable(q, N, new) ==
  /\ fd_nodes' \in [FdProcs -> Seq(Fdts \cup {None})] /\ Len(fd_nodes'[q]) <= MaxTable
  /\ \A r \in FdProcs : r # q => fd_nodes'[r] = fd_nodes[r]
  /\ F!Used(q)' = F!Used(q) \cup N
  /\ \A i \in F!Used(q) : fd_nodes'[q][i] = fd_nodes[q][i]
  /\ \A i \in N : fd_nodes'[q][i] = new[i]
  /\ alive' \subseteq FdProcs /\ \A r \in FdProcs \ alive' : fd_nodes'[r] = << >>

NewFdts(N, new, of) ==
  /\ fdt' \in [Fdts -> [node : FdNodes \cup {None}, links : Nat]]
  /\ \A i \in N : fdt'[new[i]].node = of[i] /\ fdt'[new[i]].links = 1
  /\ \A t \in Fdts : (\A i \in N : new[i] # t) => fdt'[t] = fdt[t]

NewCounts(q, N, of) ==
  /\ links' = [n \in FdNodes |-> links[n] + Cardinality({i \in N : of[i] = n})]
  /\ amount' = [amount EXCEPT ![q] = Cardinality(F!Used(q)) + Cardinality(N)]

LEMMA OpenKeeps ==
  ASSUME F!FdsInv, NEW q \in FdProcs, NEW N, NEW new, NEW of, NewEntries(q, N, new, of),
         NewTable(q, N, new), NewFdts(N, new, of), NewCounts(q, N, of)
  PROVE  F!FdsInv'
<1>0. F!TypeOK /\ F!TablesFit /\ F!OneEntryEach /\ F!Counted /\ None \notin Fdts \cup FdNodes
  BY SystemAssumption DEF F!FdsInv, F!FdsAssumption
<1>1. \A r \in FdProcs : r # q => F!Used(r)' = F!Used(r)
  BY DEF F!Used, NewTable
<1>2. \A r \in FdProcs : \A i \in F!Used(r) : fd_nodes[r][i] \in Fdts /\ fdt[fd_nodes[r][i]] # F!Free
  BY <1>0, UsedFacts DEF F!OneEntryEach, F!Free
<1>3. \A r \in FdProcs : \A i \in F!Used(r) :
         /\ i \in F!Used(r)' /\ fd_nodes'[r][i] = fd_nodes[r][i]
         /\ fdt'[fd_nodes[r][i]] = fdt[fd_nodes[r][i]]
         /\ \A j \in N : new[j] # fd_nodes[r][i]
  <2> SUFFICES ASSUME NEW r \in FdProcs, NEW i \in F!Used(r)
               PROVE  /\ i \in F!Used(r)' /\ fd_nodes'[r][i] = fd_nodes[r][i]
                      /\ fdt'[fd_nodes[r][i]] = fdt[fd_nodes[r][i]]
                      /\ \A j \in N : new[j] # fd_nodes[r][i]
    OBVIOUS
  <2>1. \A j \in N : new[j] # fd_nodes[r][i]
    BY <1>2 DEF NewEntries
  <2> QED
    BY <1>1, <1>2, <2>1 DEF NewTable, NewFdts
<1>4. \A r \in FdProcs : \A i \in F!Used(r)' :
         i \in F!Used(r) \/ (r = q /\ i \in N /\ fd_nodes'[r][i] = new[i])
  BY <1>1 DEF NewTable
<1>5. \A n \in FdNodes :
        LET Y == {i \in N : of[i] = n}
            D == {<<q, i>> : i \in Y}
        IN  /\ links'[n] = Cardinality(F!OfNode(n) \cup D) /\ links'[n] \in Nat
            /\ IsFiniteSet(F!OfNode(n) \cup D)
  <2> SUFFICES ASSUME NEW n \in FdNodes
               PROVE  LET Y == {i \in N : of[i] = n}
                          D == {<<q, i>> : i \in Y}
                      IN  /\ links'[n] = Cardinality(F!OfNode(n) \cup D) /\ links'[n] \in Nat
                          /\ IsFiniteSet(F!OfNode(n) \cup D)
    OBVIOUS
  <2> DEFINE Y == {i \in N : of[i] = n}
             D == {<<q, i>> : i \in Y}
             Z == F!OfNode(n)
  <2>1. IsFiniteSet(Z) /\ links[n] = Cardinality(Z)
    BY <1>0, FdsCounts DEF F!Counted
  <2>2. IsFiniteSet(Y)
    BY FS_Subset DEF NewEntries
  <2>3. \A i \in Y : <<q, i>> \notin Z
    BY <1>0, EntryFacts DEF NewEntries
  <2>4. links'[n] = links[n] + Cardinality(Y)
    BY DEF NewCounts
  <2> HIDE DEF Y
  <2>5. IsFiniteSet(D) /\ Cardinality(D) = Cardinality(Y)
    BY <2>2, SlotsOfTable
  <2>6. Z \cap D = {}
    BY <2>3
  <2> HIDE DEF D, Z
  <2>7. IsFiniteSet(Z \cup D)
        /\ Cardinality(Z \cup D) = Cardinality(Z) + Cardinality(D) - Cardinality(Z \cap D)
    BY <2>1, <2>5, FS_Union
  <2>8. Cardinality(Z \cap D) = 0 /\ Cardinality(Z) \in Nat /\ Cardinality(D) \in Nat
    BY <2>1, <2>5, <2>6, FS_EmptySet, FS_CardinalityType
  <2>9. /\ links'[n] = Cardinality(Z \cup D) /\ links'[n] \in Nat
        /\ IsFiniteSet(Z \cup D)
    BY <2>1, <2>4, <2>5, <2>7, <2>8
  <2> QED
    BY <2>9 DEF Y, D, Z
<1>6. F!TypeOK'
  <2>1. links' \in [FdNodes -> Nat]
    BY <1>5 DEF NewCounts
  <2>2. Cardinality(F!Used(q)) \in Nat /\ Cardinality(N) \in Nat
    BY <1>0, UsedFacts, FS_CardinalityType DEF NewEntries
  <2>3. amount' \in [FdProcs -> Nat]
    BY <1>0, <2>2 DEF F!TypeOK, NewCounts
  <2> QED
    BY <2>1, <2>3 DEF F!TypeOK, NewTable, NewFdts
<1>7. F!TablesFit'
  BY <1>0 DEF F!TablesFit, NewTable
<1>8. F!OneEntryEach'
  <2>1. ASSUME NEW r \in FdProcs, NEW s \in FdProcs, NEW i \in F!Used(r)', NEW j \in F!Used(s)',
               fd_nodes'[r][i] = fd_nodes'[s][j]
        PROVE  r = s /\ i = j
    <3>1. CASE i \in F!Used(r) /\ j \in F!Used(s)
      BY <1>0, <1>3, <2>1, <3>1 DEF F!OneEntryEach
    <3>2. CASE i \in F!Used(r) /\ j \notin F!Used(s)
      BY <1>3, <1>4, <2>1, <3>2
    <3>3. CASE i \notin F!Used(r) /\ j \in F!Used(s)
      BY <1>3, <1>4, <2>1, <3>3
    <3>4. CASE i \notin F!Used(r) /\ j \notin F!Used(s)
      BY <1>4, <2>1, <3>4 DEF NewEntries
    <3> QED
      BY <3>1, <3>2, <3>3, <3>4
  <2>2. ASSUME NEW r \in FdProcs, NEW i \in F!Used(r)'
        PROVE  fdt'[fd_nodes'[r][i]].links = 1 /\ fdt'[fd_nodes'[r][i]].node \in FdNodes
    <3>1. CASE i \in F!Used(r)
      BY <1>0, <1>3, <3>1 DEF F!OneEntryEach, F!NodeOf
    <3>2. CASE i \notin F!Used(r)
      <4>1. i \in N /\ fd_nodes'[r][i] = new[i]
        BY <1>4, <3>2
      <4>2. fdt'[new[i]].links = 1 /\ fdt'[new[i]].node = of[i]
        BY <4>1 DEF NewFdts
      <4>3. of[i] \in FdNodes
        BY <4>1 DEF NewEntries
      <4> QED
        BY <4>1, <4>2, <4>3
    <3> QED
      BY <3>1, <3>2
  <2>3. ASSUME NEW t \in Fdts
        PROVE  fdt'[t] = F!Free \/ \E r \in FdProcs : \E i \in F!Used(r)' : fd_nodes'[r][i] = t
    <3>1. CASE \E i \in N : new[i] = t
      BY <3>1 DEF NewTable
    <3>2. CASE \A i \in N : new[i] # t
      <4>1. fdt'[t] = fdt[t]
        BY <3>2 DEF NewFdts
      <4> QED
        BY <1>0, <1>3, <4>1 DEF F!OneEntryEach
    <3> QED
      BY <3>1, <3>2
  <2> QED
    BY <2>1, <2>2, <2>3 DEF F!OneEntryEach, F!NodeOf, F!Free, NewTable
<1>9. F!Counted'
  <2>1. ASSUME NEW n \in FdNodes
        PROVE  F!IsFiniteSet(F!OfNode(n)') /\ links'[n] = F!Cardinality(F!OfNode(n)')
    <3> DEFINE Y == {i \in N : of[i] = n}
               D == {<<q, i>> : i \in Y}
    <3>1. \A r \in FdProcs, i \in Nat :
            <<r, i>> \in F!OfNode(n)' <=> <<r, i>> \in F!OfNode(n) \cup D
      <4> SUFFICES ASSUME NEW r \in FdProcs, NEW i \in Nat
                   PROVE  <<r, i>> \in F!OfNode(n)' <=> <<r, i>> \in F!OfNode(n) \cup D
        OBVIOUS
      <4>1. <<r, i>> \in F!OfNode(n)' <=> i \in F!Used(r)' /\ fdt'[fd_nodes'[r][i]].node = n
        BY <1>6, <1>7, EntryFactsAfter
      <4>2. <<r, i>> \in F!OfNode(n) <=> i \in F!Used(r) /\ fdt[fd_nodes[r][i]].node = n
        BY <1>0, EntryFacts
      <4>3. <<r, i>> \in D <=> r = q /\ i \in N /\ of[i] = n
        OBVIOUS
      <4> HIDE DEF D
      <4>4. CASE i \in F!Used(r)
        <5>1. ~(r = q /\ i \in N)
          BY <4>4 DEF NewEntries
        <5> QED
          BY <1>3, <4>1, <4>2, <4>3, <4>4, <5>1
      <4>5. CASE r = q /\ i \in N
        <5>1. i \in F!Used(q)' /\ i \notin F!Used(q) /\ fd_nodes'[q][i] = new[i]
          BY <4>5 DEF NewTable, NewEntries
        <5>2. fdt'[new[i]].node = of[i]
          BY <4>5 DEF NewFdts
        <5> QED
          BY <4>1, <4>2, <4>3, <4>5, <5>1, <5>2
      <4>6. CASE i \notin F!Used(r) /\ ~(r = q /\ i \in N)
        BY <1>4, <4>1, <4>2, <4>3, <4>6
      <4> QED
        BY <4>4, <4>5, <4>6
    <3>2. F!OfNode(n) \subseteq FdProcs \X Nat /\ F!OfNode(n)' \subseteq FdProcs \X Nat
      BY <1>0, <1>6, <1>7, EntryFacts, EntryFactsAfter
    <3>3. D \subseteq FdProcs \X Nat
      BY DEF NewEntries
    <3> HIDE DEF D
    <3>4. F!OfNode(n)' = F!OfNode(n) \cup D
      BY <3>1, <3>2, <3>3
    <3> QED
      BY <1>5, <3>4, FdsCounts DEF D
  <2>2. ASSUME NEW r \in FdProcs
        PROVE  amount'[r] = F!Cardinality(F!Used(r)')
    <3>1. CASE r # q
      BY <1>0, <1>1, <3>1 DEF F!Counted, F!TypeOK, NewCounts
    <3>2. CASE r = q
      <4> DEFINE U == F!Used(q)
      <4>1. IsFiniteSet(U) /\ IsFiniteSet(N) /\ U \cap N = {}
        BY <1>0, UsedFacts DEF NewEntries
      <4>2. F!Used(q)' = U \cup N /\ amount'[q] = Cardinality(U) + Cardinality(N)
        BY <1>0 DEF F!TypeOK, NewTable, NewCounts
      <4> HIDE DEF U
      <4>3. Cardinality(U \cup N) = Cardinality(U) + Cardinality(N) - Cardinality(U \cap N)
        BY <4>1, FS_Union
      <4>4. Cardinality(U) \in Nat /\ Cardinality(N) \in Nat /\ Cardinality(U \cap N) = 0
        BY <4>1, FS_CardinalityType, FS_EmptySet
      <4>5. amount'[q] = Cardinality(F!Used(q)')
        BY <4>2, <4>3, <4>4
      <4> QED
        BY <3>2, <4>5, FdsCounts
    <3> QED
      BY <3>1, <3>2
  <2> QED
    BY <2>1, <2>2 DEF F!Counted
<1> QED
  BY <1>6, <1>7, <1>8, <1>9 DEF F!FdsInv

(* k_proc_process_open_node finds a slot that is not in use.               *)
LEMMA SlotFacts ==
  ASSUME F!FdsInv, NEW p \in FdProcs
  PROVE  /\ F!Slot(p) \in Nat \ {0} /\ F!Slot(p) <= Len(fd_nodes[p]) + 1
         /\ F!Slot(p) <= Len(fd_nodes[p]) => F!Slot(p) \in F!Holes(p)
<1>0. F!TypeOK /\ F!TablesFit /\ F!Counted
  BY DEF F!FdsInv
<1>1. DOMAIN fd_nodes[p] = 1..Len(fd_nodes[p]) /\ Len(fd_nodes[p]) \in Nat
  BY <1>0, UsedFacts
<1>2. CASE amount[p] = Len(fd_nodes[p])
  BY <1>1, <1>2 DEF F!Slot
<1>3. CASE amount[p] # Len(fd_nodes[p])
  <2>1. F!Holes(p) # {}
    <3> SUFFICES ASSUME F!Holes(p) = {}
                 PROVE  FALSE
      OBVIOUS
    <3>1. F!Used(p) = 1..Len(fd_nodes[p])
      BY <1>1 DEF F!Used, F!Holes
    <3>2. Cardinality(1..Len(fd_nodes[p])) = Len(fd_nodes[p])
      BY <1>1, FS_Interval
    <3> QED
      BY <1>0, <1>3, <3>1, <3>2, FdsCounts DEF F!Counted
  <2>2. F!Holes(p) \subseteq 1..Len(fd_nodes[p]) /\ F!Holes(p) \subseteq Nat
    BY <1>1 DEF F!Holes
  <2>3. F!Min(F!Holes(p)) \in F!Holes(p)
    <3> DEFINE H == F!Holes(p)
    <3>1. \E s \in H : \A t \in H : s <= t
      BY <2>1, <2>2, LeastElement
    <3> HIDE DEF H
    <3>2. F!Min(H) \in H
      BY <3>1 DEF F!Min
    <3> QED
      BY <3>2 DEF H
  <2>4. F!Slot(p) = F!Min(F!Holes(p))
    BY <1>3, <2>1 DEF F!Slot
  <2> QED
    BY <1>1, <2>2, <2>3, <2>4
<1> QED
  BY <1>2, <1>3

LEMMA FdsOpen ==
  ASSUME F!FdsInv, NEW p \in FdProcs, NEW n \in FdNodes, NEW t \in Fdts, F!open_node(p, n, t)
  PROVE  F!FdsInv'
<1> DEFINE k == F!Slot(p)
           N == {k}
           new == [i \in N |-> t]
           of == [i \in N |-> n]
<1>0. F!TypeOK /\ F!TablesFit /\ F!OneEntryEach /\ F!Counted /\ None \notin Fdts \cup FdNodes
  BY SystemAssumption DEF F!FdsInv, F!FdsAssumption
<1>1. /\ k \in Nat \ {0} /\ k <= Len(fd_nodes[p]) + 1
      /\ k <= Len(fd_nodes[p]) => k \in F!Holes(p)
  BY SlotFacts
<1>2. /\ fd_nodes' = [fd_nodes EXCEPT ![p] = IF k > Len(fd_nodes[p]) THEN Append(fd_nodes[p], t)
                                             ELSE [fd_nodes[p] EXCEPT ![k] = t]]
      /\ amount' = [amount EXCEPT ![p] = amount[p] + 1]
      /\ fdt' = [fdt EXCEPT ![t] = [node |-> n, links |-> 1]]
      /\ links' = [links EXCEPT ![n] = 1]
      /\ alive' = alive /\ p \in alive /\ links[n] = 0 /\ fdt[t] = F!Free /\ k <= MaxTable
  BY <1>1 DEF F!open_node
<1> HIDE DEF k
<1>3. NewEntries(p, N, new, of)
  <2>1. IsFiniteSet(N) /\ N \subseteq Nat
    BY <1>1, FS_Singleton
  <2>2. k \notin F!Used(p)
    <3>1. /\ F!Used(p) \subseteq 1..Len(fd_nodes[p]) /\ Len(fd_nodes[p]) \in Nat
          /\ F!Used(p) \cap F!Holes(p) = {}
      BY <1>0, UsedFacts DEF F!Used, F!Holes
    <3> QED
      BY <1>1, <3>1
  <2> QED
    BY <1>2, <2>1, <2>2 DEF NewEntries
<1>4. NewTable(p, N, new)
  <2> DEFINE T == Fdts \cup {None}
             tab == fd_nodes[p]
             table == IF k > Len(tab) THEN Append(tab, t) ELSE [tab EXCEPT ![k] = t]
  <2>1. tab \in Seq(T) /\ Len(tab) <= MaxTable /\ t \in T /\ fd_nodes' = [fd_nodes EXCEPT ![p] = table]
    BY <1>0, <1>2 DEF F!TypeOK, F!TablesFit
  <2> HIDE DEF T, tab
  <2>2. /\ table \in Seq(T) /\ Len(table) <= MaxTable /\ table[k] = t
        /\ DOMAIN table = DOMAIN tab \cup {k} /\ \A i \in DOMAIN tab : i # k => table[i] = tab[i]
    <3>1. CASE k > Len(tab)
      <4>1. table = Append(tab, t) /\ k = Len(tab) + 1 /\ DOMAIN tab = 1..Len(tab) /\ Len(tab) \in Nat
        BY <1>1, <2>1, <3>1 DEF tab
      <4>2. /\ Append(tab, t) \in Seq(T) /\ Len(Append(tab, t)) = Len(tab) + 1
            /\ Append(tab, t)[Len(tab) + 1] = t
            /\ \A i \in 1..Len(tab) : Append(tab, t)[i] = tab[i]
            /\ DOMAIN Append(tab, t) = 1..(Len(tab) + 1)
        BY <2>1
      <4>3. \A l \in Nat : 1..(l + 1) = (1..l) \cup {l + 1}
        OBVIOUS
      <4> HIDE DEF table
      <4> QED
        BY <1>2, <4>1, <4>2, <4>3
    <3>2. CASE k <= Len(tab)
      <4>1. table = [tab EXCEPT ![k] = t] /\ DOMAIN tab = 1..Len(tab) /\ Len(tab) \in Nat /\ k \in 1..Len(tab)
        BY <1>1, <2>1, <3>2
      <4> HIDE DEF table
      <4>2. /\ DOMAIN table = 1..Len(tab) /\ table[k] = t
            /\ \A i \in 1..Len(tab) : i # k => table[i] = tab[i]
        BY <4>1
      <4>3. table = [i \in 1..Len(tab) |-> table[i]] /\ \A i \in 1..Len(tab) : table[i] \in T
        <5>1. \A i \in 1..Len(tab) : tab[i] \in T
          BY <2>1
        <5> QED
          BY <2>1, <4>1, <4>2, <5>1
      <4>4. table \in Seq(T) /\ Len(table) = Len(tab)
        <5>1. table \in [1..Len(tab) -> T]
          BY <4>3
        <5>2. Len(tab) \in Nat
          BY <4>1
        <5>3. table \in Seq(T)
          BY <5>1, <5>2
        <5> QED
          BY <4>2, <5>2, <5>3
      <4> QED
        BY <2>1, <4>1, <4>2, <4>4
    <3> QED
      BY <1>1, <2>1, <3>1, <3>2
  <2> HIDE DEF table
  <2>3. /\ fd_nodes' \in [FdProcs -> Seq(Fdts \cup {None})] /\ fd_nodes'[p] = table
        /\ \A r \in FdProcs : r # p => fd_nodes'[r] = fd_nodes[r]
    BY <1>0, <2>1, <2>2 DEF F!TypeOK, T
  <2>4. F!Used(p)' = F!Used(p) \cup N
    BY <1>0, <2>2, <2>3 DEF F!Used, tab
  <2>5. \A i \in F!Used(p) : fd_nodes'[p][i] = fd_nodes[p][i]
    <3>1. \A i \in F!Used(p) : i \in DOMAIN fd_nodes[p] /\ i # k
      BY <1>3 DEF F!Used, NewEntries
    <3> QED
      BY <2>2, <2>3, <3>1 DEF tab
  <2>6. alive' \subseteq FdProcs /\ \A r \in FdProcs \ alive' : fd_nodes'[r] = << >>
    BY <1>0, <1>2, <2>3 DEF F!TypeOK, F!OneEntryEach
  <2> QED
    BY <2>2, <2>3, <2>4, <2>5, <2>6 DEF NewTable
<1>5. NewFdts(N, new, of)
  <2>1. fdt' \in [Fdts -> [node : FdNodes \cup {None}, links : Nat]]
    BY <1>0, <1>2 DEF F!TypeOK
  <2>2. fdt'[t].node = n /\ fdt'[t].links = 1 /\ \A u \in Fdts : u # t => fdt'[u] = fdt[u]
    BY <1>0, <1>2 DEF F!TypeOK
  <2> QED
    BY <2>1, <2>2 DEF NewFdts
<1>6. NewCounts(p, N, of)
  <2>1. ASSUME NEW m \in FdNodes
        PROVE  links'[m] = links[m] + Cardinality({i \in N : of[i] = m})
    <3>1. CASE m = n
      <4>1. {i \in N : of[i] = m} = {k}
        BY <3>1
      <4>2. Cardinality({i \in N : of[i] = m}) = 1
        BY <4>1, FS_Singleton
      <4>3. links'[m] = 1 /\ links[m] = 0
        BY <1>0, <1>2, <3>1 DEF F!TypeOK
      <4> QED
        BY <4>2, <4>3
    <3>2. CASE m # n
      <4>1. {i \in N : of[i] = m} = {}
        BY <3>2
      <4>2. Cardinality({i \in N : of[i] = m}) = 0
        BY <4>1, FS_EmptySet
      <4>3. links'[m] = links[m] /\ links[m] \in Nat
        BY <1>0, <1>2, <3>2 DEF F!TypeOK
      <4> QED
        BY <4>2, <4>3
    <3> QED
      BY <3>1, <3>2
  <2>2. links' = [m \in FdNodes |-> links'[m]]
    BY <1>0, <1>2 DEF F!TypeOK
  <2>3. amount' = [amount EXCEPT ![p] = Cardinality(F!Used(p)) + Cardinality(N)]
    <3>1. Cardinality(N) = 1 /\ amount[p] = Cardinality(F!Used(p))
      BY <1>0, FdsCounts, FS_Singleton DEF F!Counted
    <3> QED
      BY <1>2, <3>1
  <2> HIDE DEF N, of
  <2> QED
    BY <2>1, <2>2, <2>3 DEF NewCounts
<1> HIDE DEF N, new, of
<1> QED
  BY <1>3, <1>4, <1>5, <1>6, OpenKeeps

(* An inverse takes a value back to where it came from.                    *)
LEMMA AntiFunctionFacts ==
  ASSUME NEW N, NEW T, NEW new \in F!Injection(N, T)
  PROVE  /\ new \in [N -> T] /\ \A i, j \in N : new[i] = new[j] => i = j
         /\ \A i \in N : new[i] \in F!Range(new) /\ F!AntiFunction(new)[new[i]] = i
         /\ \A t \in F!Range(new) : \E i \in N : new[i] = t
<1>1. new \in [N -> T] /\ \A i, j \in N : new[i] = new[j] => i = j
  BY DEF F!Injection, F!IsInjective
<1>2. \A t : t \in F!Range(new) <=> \E i \in N : new[i] = t
  BY <1>1 DEF F!Range
<1>3. ASSUME NEW i \in N
      PROVE  F!AntiFunction(new)[new[i]] = i
  <2>1. F!AntiFunction(new)[new[i]] = CHOOSE s \in N : new[i] \in F!Range(new) => new[s] = new[i]
    BY <1>1, <1>2 DEF F!AntiFunction, F!Inverse
  <2>2. \A s \in N : (new[i] \in F!Range(new) => new[s] = new[i]) <=> s = i
    BY <1>1, <1>2
  <2> QED
    BY <2>1, <2>2
<1> QED
  BY <1>1, <1>2, <1>3

LEMMA FdsFork ==
  ASSUME F!FdsInv, NEW p \in FdProcs, NEW q \in FdProcs, F!fork(p, q)
  PROVE  F!FdsInv'
<1> DEFINE N == F!Used(p)
           free == {t \in Fdts : fdt[t] = F!Free}
           of == [i \in N |-> fdt[fd_nodes[p][i]].node]
<1>0. F!TypeOK /\ F!TablesFit /\ F!OneEntryEach /\ F!Counted /\ None \notin Fdts \cup FdNodes
  BY SystemAssumption DEF F!FdsInv, F!FdsAssumption
<1>1. PICK new \in F!Injection(N, free) :
        /\ fd_nodes' = [fd_nodes EXCEPT ![q] =
                          [i \in DOMAIN fd_nodes[p] |-> IF i \in N THEN new[i] ELSE None]]
        /\ fdt' = [t \in Fdts |-> IF t \in F!Range(new)
                                  THEN [node |-> fdt[fd_nodes[p][F!AntiFunction(new)[t]]].node, links |-> 1]
                                  ELSE fdt[t]]
  BY DEF F!fork, F!NodeOf
<1>2. /\ links' = [n \in FdNodes |-> links[n] + F!Cardinality({i \in N : F!NodeOf(p, i) = n})]
      /\ amount' = [amount EXCEPT ![q] = amount[p]]
      /\ alive' = alive \cup {q} /\ p \in alive /\ q \notin alive
  BY DEF F!fork
<1>3. /\ new \in [N -> free] /\ \A i, j \in N : new[i] = new[j] => i = j
      /\ \A i \in N : new[i] \in F!Range(new) /\ F!AntiFunction(new)[new[i]] = i
      /\ \A t \in F!Range(new) : \E i \in N : new[i] = t
  BY AntiFunctionFacts
<1>4. fd_nodes[q] = << >> /\ F!Used(q) = {}
  <2>1. fd_nodes[q] = << >>
    BY <1>0, <1>2 DEF F!OneEntryEach
  <2> QED
    BY <2>1 DEF F!Used
<1>5. /\ IsFiniteSet(N) /\ N \subseteq Nat /\ \A i \in N : fd_nodes[p][i] \in Fdts
      /\ N \subseteq DOMAIN fd_nodes[p] /\ DOMAIN fd_nodes[p] = 1..Len(fd_nodes[p])
      /\ Len(fd_nodes[p]) \in Nat
  BY <1>0, UsedFacts
<1>6. of \in [N -> FdNodes] /\ \A i \in N : of[i] = fdt[fd_nodes[p][i]].node
  BY <1>0 DEF F!OneEntryEach, F!NodeOf
<1> HIDE DEF of, N
<1>7. \A i \in N : new[i] \in Fdts /\ fdt[new[i]] = F!Free
  BY <1>3
<1>8. NewEntries(q, N, new, of)
  <2>1. new \in [N -> Fdts]
    BY <1>3
  <2> QED
    BY <1>3, <1>4, <1>5, <1>6, <1>7, <2>1 DEF NewEntries
<1>9. NewTable(q, N, new)
  <2> DEFINE table == [i \in DOMAIN fd_nodes[p] |-> IF i \in N THEN new[i] ELSE None]
  <2>1. DOMAIN table = 1..Len(fd_nodes[p]) /\ \A i \in 1..Len(fd_nodes[p]) : table[i] \in Fdts \cup {None}
    BY <1>5, <1>7
  <2>2. \A i \in 1..Len(fd_nodes[p]) : table[i] = IF i \in N THEN new[i] ELSE None
    BY <1>5
  <2>3. table = [i \in 1..Len(fd_nodes[p]) |-> table[i]] /\ fd_nodes' = [fd_nodes EXCEPT ![q] = table]
    BY <1>1, <2>1
  <2> HIDE DEF table
  <2>4. table \in Seq(Fdts \cup {None}) /\ Len(table) = Len(fd_nodes[p])
    <3>1. table \in [1..Len(fd_nodes[p]) -> Fdts \cup {None}]
      BY <2>1, <2>3
    <3>2. table \in Seq(Fdts \cup {None})
      BY <1>5, <3>1
    <3> QED
      BY <1>5, <2>1, <3>2
  <2>5. /\ fd_nodes' \in [FdProcs -> Seq(Fdts \cup {None})] /\ fd_nodes'[q] = table
        /\ \A r \in FdProcs : r # q => fd_nodes'[r] = fd_nodes[r]
    BY <1>0, <2>3, <2>4 DEF F!TypeOK
  <2>6. F!Used(q)' = N
    BY <1>0, <1>5, <1>7, <2>1, <2>2, <2>5 DEF F!Used
  <2>7. \A i \in N : fd_nodes'[q][i] = new[i]
    BY <1>5, <2>2, <2>5
  <2>8. alive' \subseteq FdProcs /\ \A r \in FdProcs \ alive' : fd_nodes'[r] = << >>
    BY <1>0, <1>2, <2>5 DEF F!TypeOK, F!OneEntryEach
  <2>9. Len(fd_nodes'[q]) <= MaxTable
    BY <1>0, <2>4, <2>5 DEF F!TablesFit
  <2> QED
    BY <1>4, <2>5, <2>6, <2>7, <2>8, <2>9 DEF NewTable
<1>10. NewFdts(N, new, of)
  <2>1. ASSUME NEW i \in N
        PROVE  fdt'[new[i]] = [node |-> of[i], links |-> 1]
    BY <1>1, <1>3, <1>6, <1>7
  <2>2. ASSUME NEW t \in Fdts, \A i \in N : new[i] # t
        PROVE  fdt'[t] = fdt[t]
    BY <1>1, <1>3, <2>2
  <2>3. ASSUME NEW t \in Fdts
        PROVE  fdt'[t] \in [node : FdNodes \cup {None}, links : Nat]
    <3>1. CASE \E i \in N : new[i] = t
      <4>1. PICK i \in N : new[i] = t
        BY <3>1
      <4>2. fdt'[t] = [node |-> of[i], links |-> 1] /\ of[i] \in FdNodes
        BY <1>6, <2>1, <4>1
      <4> QED
        BY <4>2
    <3>2. CASE \A i \in N : new[i] # t
      BY <1>0, <2>2, <3>2 DEF F!TypeOK
    <3> QED
      BY <3>1, <3>2
  <2>4. fdt' = [t \in Fdts |-> fdt'[t]]
    BY <1>1
  <2>5. fdt' \in [Fdts -> [node : FdNodes \cup {None}, links : Nat]]
    <3> DEFINE W == [node : FdNodes \cup {None}, links : Nat]
    <3>1. \A t \in Fdts : fdt'[t] \in W
      BY <2>3
    <3> HIDE DEF W
    <3>2. fdt' \in [Fdts -> W]
      BY <2>4, <3>1
    <3> QED
      BY <3>2 DEF W
  <2>6. \A i \in N : fdt'[new[i]].node = of[i] /\ fdt'[new[i]].links = 1
    <3> SUFFICES ASSUME NEW i \in N
                 PROVE  fdt'[new[i]].node = of[i] /\ fdt'[new[i]].links = 1
      OBVIOUS
    <3>1. fdt'[new[i]] = [node |-> of[i], links |-> 1]
      BY <2>1
    <3> QED
      BY <3>1
  <2> QED
    BY <2>2, <2>5, <2>6 DEF NewFdts
<1>11. NewCounts(q, N, of)
  <2>1. ASSUME NEW n \in FdNodes
        PROVE  {i \in N : F!NodeOf(p, i) = n} = {i \in N : of[i] = n}
    BY <1>6 DEF F!NodeOf
  <2>2. links' = [n \in FdNodes |-> links[n] + Cardinality({i \in N : of[i] = n})]
    BY <1>2, <2>1, FdsCounts
  <2>3. amount[p] = Cardinality(N) /\ Cardinality(N) \in Nat /\ Cardinality(F!Used(q)) = 0
    <3>1. amount[p] = Cardinality(N)
      BY <1>0, FdsCounts DEF F!Counted, N
    <3>2. Cardinality(N) \in Nat
      BY <1>5, FS_CardinalityType
    <3> QED
      BY <1>4, <3>1, <3>2, FS_EmptySet
  <2>4. amount' = [amount EXCEPT ![q] = Cardinality(F!Used(q)) + Cardinality(N)]
    <3>1. amount[p] = Cardinality(F!Used(q)) + Cardinality(N)
      BY <2>3
    <3> QED
      BY <1>2, <3>1
  <2> QED
    BY <2>2, <2>4 DEF NewCounts
<1> QED
  BY <1>8, <1>9, <1>10, <1>11, OpenKeeps

LEMMA NextFds ==
  ASSUME F!FdsInv, F!Next
  PROVE  F!FdsInv'
<1>1. ASSUME NEW p \in FdProcs, NEW n \in FdNodes, NEW t \in Fdts, F!open_node(p, n, t)
      PROVE  F!FdsInv'
  BY <1>1, FdsOpen
<1>2. ASSUME NEW p \in FdProcs, NEW i \in 1..MaxTable, F!close_fd(p, i)
      PROVE  F!FdsInv'
  BY <1>2, FdsClose
<1>3. ASSUME NEW p \in FdProcs, F!prepare_exec(p)
      PROVE  F!FdsInv'
  BY <1>3, FdsExec
<1>4. ASSUME NEW p \in FdProcs, F!exit(p)
      PROVE  F!FdsInv'
  BY <1>4, FdsExit
<1>5. ASSUME NEW p \in FdProcs, NEW q \in FdProcs, F!fork(p, q)
      PROVE  F!FdsInv'
  BY <1>5, FdsFork
<1> QED
  BY <1>1, <1>2, <1>3, <1>4, <1>5 DEF F!Next

(* The invariant says that the counts are right.                           *)
LEMMA FdsPromises ==
  ASSUME F!FdsInv
  PROVE  F!LinksAreExact /\ F!SlotExists
<1>0. F!TypeOK /\ F!TablesFit /\ F!OneEntryEach /\ F!Counted
  BY DEF F!FdsInv
<1>1. ASSUME NEW t \in Fdts
      PROVE  fdt[t].links = F!Cardinality(F!OfFdt(t))
  <2>0. F!OfFdt(t) \subseteq FdProcs \X Nat
        /\ \A p \in FdProcs, i \in Nat :
             <<p, i>> \in F!OfFdt(t) <=> i \in F!Used(p) /\ fd_nodes[p][i] = t
    BY <1>0, EntryFacts
  <2>1. CASE fdt[t] = F!Free
    <3>1. \A p \in FdProcs : \A i \in F!Used(p) : fd_nodes[p][i] # t
      BY <1>0, <2>1 DEF F!OneEntryEach, F!Free
    <3>2. F!OfFdt(t) = {}
      BY <2>0, <3>1
    <3> QED
      BY <2>1, <3>2, FS_EmptySet, FdsCounts DEF F!Free
  <2>2. CASE fdt[t] # F!Free
    <3>1. PICK p \in FdProcs : \E i \in F!Used(p) : fd_nodes[p][i] = t
      BY <1>0, <2>2 DEF F!OneEntryEach
    <3>2. PICK i \in F!Used(p) : fd_nodes[p][i] = t
      BY <3>1
    <3>3. i \in Nat /\ <<p, i>> \in F!OfFdt(t)
      BY <1>0, <2>0, <3>2, UsedFacts
    <3>4. \A q \in FdProcs, j \in Nat : <<q, j>> \in F!OfFdt(t) => q = p /\ j = i
      BY <1>0, <2>0, <3>2 DEF F!OneEntryEach
    <3>5. F!OfFdt(t) = {<<p, i>>}
      BY <2>0, <3>3, <3>4
    <3>6. fdt[t].links = 1
      BY <1>0, <3>2 DEF F!OneEntryEach
    <3> QED
      BY <3>5, <3>6, FS_Singleton, FdsCounts
  <2> QED
    BY <2>1, <2>2
<1>2. F!LinksAreExact
  BY <1>0, <1>1 DEF F!LinksAreExact, F!Counted
<1>3. F!SlotExists
  BY <1>0, SlotFacts DEF F!SlotExists, F!TypeOK
<1> QED
  BY <1>2, <1>3

(* Descriptors count exactly, for any number of processes and files: the   *)
(* links of a node and of an fd_t are the entries that lead to them, so    *)
(* that close, exec and exit free them neither early nor never, and        *)
(* k_proc_process_open_node always finds a slot.  It rests on each fd_t    *)
(* having one entry, which fork keeps by copying them and dup2 would not.  *)
THEOREM LinksStayExact == Spec => []LinksAreExact
<1> DEFINE Inv == part = "fds" => F!FdsInv
<1>1. Init => Inv
  BY InitFds DEF Init
<1>2. Inv /\ [Next]_vars => Inv'
  <2> SUFFICES ASSUME Inv, [Next]_vars
               PROVE  Inv'
    OBVIOUS
  <2>1. CASE part # "fds"
    BY <2>1 DEF Next, vars
  <2>2. CASE part = "fds" /\ Next
    BY <2>2, NextFds DEF Next
  <2>3. CASE part = "fds" /\ UNCHANGED vars
    <3>1. UNCHANGED fdsVars /\ part' = part
      BY <2>3 DEF vars
    <3>2. F!TypeOK' /\ F!TablesFit'
      BY <2>3, <3>1 DEF fdsVars, F!FdsInv, F!TypeOK, F!TablesFit
    <3>3. (\A p : F!Used(p)' = F!Used(p)) /\ (\A p, i : F!NodeOf(p, i)' = F!NodeOf(p, i))
      BY <3>1 DEF fdsVars, F!Used, F!NodeOf
    <3>4. F!OneEntryEach'
      BY <2>3, <3>1, <3>3 DEF fdsVars, F!FdsInv, F!OneEntryEach
    <3>5. \A n : F!OfNode(n)' = F!OfNode(n)
      BY <3>1 DEF fdsVars, F!OfNode, F!Entries, F!NodeOf
    <3>6. F!Counted'
      BY <2>3, <3>1, <3>3, <3>5 DEF fdsVars, F!FdsInv, F!Counted
    <3> QED
      BY <3>2, <3>4, <3>6 DEF F!FdsInv
  <2> QED
    BY <2>1, <2>2, <2>3
<1>3. Inv => LinksAreExact
  BY FdsPromises DEF LinksAreExact
<1> QED
  BY <1>1, <1>2, <1>3, PTL DEF Spec

(***************************************************************************)
(* Kernel modules                                                          *)
(***************************************************************************)

LEMMA InitModule == E!Init => E!ModuleInv
<1> SUFFICES ASSUME E!Init
             PROVE  E!ModuleInv
  OBVIOUS
<1>1. E!TypeOK
  <2>1. symbols \in Seq([name : {"kernel", "other", "info"}, module : Mods \cup {"kernel"}])
    BY DEF E!Init
  <2>2. refs \in [Mods -> Seq(E!Refs \X {"kernel", "file", "memory"})]
    BY DEF E!Init
  <2>3. /\ elf_file \in [Mods -> E!Files] /\ elf_at \in [Mods -> Nat]
        /\ elf_state \in [Mods -> {"no", "loading", "loaded", "failed"}]
    BY DEF E!Init
  <2>4. bss \in [Mods -> BOOLEAN] /\ info \in [Mods -> BOOLEAN]
    BY DEF E!Init
  <2> QED
    BY <2>1, <2>2, <2>3, <2>4 DEF E!TypeOK
<1>2. \A m \in Mods : elf_at[m] = 0 /\ elf_state[m] = "no" /\ refs[m] = << >>
  BY DEF E!Init
<1>3. \A m \in Mods : \A j \in DOMAIN elf_file[m] : j \in Nat \ {0}
  BY <1>1 DEF E!TypeOK, E!Files
<1> QED
  BY <1>1, <1>2, <1>3 DEF E!ModuleInv, E!PassedIsMemory, E!StartsAtFirst, E!VariablesAreMemory

(* A symbol that is found is the kernel's.                                 *)
LEMMA SymbolIsKernels ==
  ASSUME E!TypeOK, NEW name
  PROVE  E!get_symbol(name, "kernel") \in {"null", "kernel"}
<1> DEFINE hits == {i \in DOMAIN symbols : E!Defines(symbols[i], name, "kernel")}
<1>1. hits \subseteq Nat
  BY DEF E!TypeOK
<1>2. CASE hits # {}
  <2>1. \A i \in hits : symbols[i].module = "kernel"
    BY DEF E!Defines
  <2>2. E!get_symbol(name, "kernel") = symbols[E!Min(hits)].module
    BY <1>2 DEF E!get_symbol
  <2> HIDE DEF hits
  <2>3. \E s \in hits : \A t \in hits : s <= t
    BY <1>1, <1>2, LeastElement
  <2>4. E!Min(hits) \in hits
    BY <2>3 DEF E!Min
  <2> QED
    BY <2>1, <2>2, <2>4
<1>3. CASE hits = {}
  BY <1>3 DEF E!get_symbol
<1> QED
  BY <1>2, <1>3

(* A file is a sequence of headers, and has the section of its variables   *)
(* at one place.                                                           *)
LEMMA FileFacts ==
  ASSUME E!TypeOK, NEW m \in Mods
  PROVE  /\ DOMAIN elf_file[m] = 1..Len(elf_file[m]) /\ Len(elf_file[m]) \in Nat
         /\ \A i \in 1..Len(elf_file[m]) : elf_file[m][i] = "var" =>
              /\ E!Index(m, "bss") \in 1..Len(elf_file[m])
              /\ elf_file[m][E!Index(m, "bss")] = "bss"
<1>1. PICK n \in 1..MaxHeaders : elf_file[m] \in [1..n -> E!Headers]
  <2>1. elf_file[m] \in E!Files
    BY DEF E!TypeOK
  <2>2. elf_file[m] \in UNION {[1..n -> E!Headers] : n \in 1..MaxHeaders}
    BY <2>1, Zenon DEF E!Files
  <2>3. PICK X \in {[1..n -> E!Headers] : n \in 1..MaxHeaders} : elf_file[m] \in X
    BY <2>2, Zenon
  <2> QED
    BY <2>3, Zenon
<1>2. DOMAIN elf_file[m] = 1..n /\ n \in Nat
  BY <1>1
<1>3. Len(elf_file[m]) = n
  <2>1. elf_file[m] \in Seq(E!Headers)
    BY <1>1, <1>2
  <2> QED
    BY <1>2, <2>1
<1>4. ASSUME NEW i \in 1..n, elf_file[m][i] = "var"
      PROVE  /\ E!Index(m, "bss") \in 1..n
             /\ elf_file[m][E!Index(m, "bss")] = "bss"
  <2>1. "var" \in E!Range(elf_file[m]) => "bss" \in E!Range(elf_file[m])
    BY DEF E!TypeOK, E!Files
  <2>2. \E j \in DOMAIN elf_file[m] : elf_file[m][j] = "bss"
    BY <1>2, <1>4, <2>1 DEF E!Range
  <2> QED
    BY <1>2, <2>2 DEF E!Index
<1> QED
  BY <1>2, <1>3, <1>4

(* A reference is relocated: it stays in the file only if the section of   *)
(* the variables is still to come.                                         *)
LEMMA ModuleRelocate ==
  ASSUME E!ModuleInv, NEW m \in Mods, E!relocate(m)
  PROVE  E!ModuleInv'
<1>0. E!TypeOK /\ E!PassedIsMemory /\ E!StartsAtFirst /\ E!VariablesAreMemory
  BY DEF E!ModuleInv
<1> DEFINE h == E!header(m)
           value == E!get_symval(m, h)
<1>1. /\ elf_state[m] = "loading" /\ elf_at[m] <= Len(elf_file[m]) /\ h \in E!Refs
      /\ h = elf_file[m][elf_at[m]]
      /\ UNCHANGED <<symbols, elf_file, bss, info>>
  BY DEF E!relocate, E!Step, E!header
<1>2. CASE value = "null"
  <2>1. elf_state' = [elf_state EXCEPT ![m] = "failed"] /\ UNCHANGED <<elf_at, refs>>
    BY <1>2 DEF E!relocate
  <2>2. elf_state' \in [Mods -> {"no", "loading", "loaded", "failed"}]
        /\ \A o \in Mods : elf_state'[o] = "loading" => elf_state[o] = "loading"
    BY <1>0, <2>1 DEF E!TypeOK
  <2>3. E!TypeOK'
    BY <1>0, <1>1, <2>1, <2>2 DEF E!TypeOK
  <2> QED
    BY <1>0, <1>1, <2>1, <2>2, <2>3
    DEF E!ModuleInv, E!PassedIsMemory, E!StartsAtFirst, E!VariablesAreMemory, E!Index
<1>3. CASE value # "null"
  <2>1. /\ refs' = [refs EXCEPT ![m] = Append(refs[m], <<h, value>>)]
        /\ elf_at' = [elf_at EXCEPT ![m] = elf_at[m] + 1] /\ elf_state' = elf_state
    BY <1>3 DEF E!relocate, E!Advance
  <2>2. value \in {"kernel", "file", "memory"}
    BY <1>0, <1>3, SymbolIsKernels DEF E!get_symval, E!Section
  <2>3. elf_at[m] \in 1..Len(elf_file[m]) /\ DOMAIN elf_file[m] = 1..Len(elf_file[m])
        /\ Len(elf_file[m]) \in Nat
    BY <1>0, <1>1, FileFacts DEF E!TypeOK, E!StartsAtFirst
  <2>4. <<h, value>> = <<"var", "file">> =>
          \E j \in 1..E!Index(m, "bss") : elf_file[m][j] = "var"
    <3> SUFFICES ASSUME h = "var", value = "file"
                 PROVE  \E j \in 1..E!Index(m, "bss") : elf_file[m][j] = "var"
      OBVIOUS
    <3>1. ~bss[m]
      BY <1>0 DEF E!get_symval, E!Section, E!TypeOK
    <3>2. /\ E!Index(m, "bss") \in 1..Len(elf_file[m])
          /\ elf_file[m][E!Index(m, "bss")] = "bss"
      BY <1>0, <1>1, <2>3, FileFacts
    <3>3. ~(E!Index(m, "bss") < elf_at[m])
      BY <1>0, <2>3, <3>1, <3>2 DEF E!PassedIsMemory
    <3>4. elf_at[m] \in 1..E!Index(m, "bss")
      BY <2>3, <3>2, <3>3
    <3> QED
      BY <1>1, <3>4
  <2> HIDE DEF h, value
  <2>5. refs[m] \in Seq(E!Refs \X {"kernel", "file", "memory"})
        /\ <<h, value>> \in E!Refs \X {"kernel", "file", "memory"}
    BY <1>0, <1>1, <2>2 DEF E!TypeOK
  <2>6. /\ Append(refs[m], <<h, value>>) \in Seq(E!Refs \X {"kernel", "file", "memory"})
        /\ DOMAIN Append(refs[m], <<h, value>>) = 1..(Len(refs[m]) + 1)
        /\ DOMAIN refs[m] = 1..Len(refs[m]) /\ Len(refs[m]) \in Nat
        /\ \A i \in 1..Len(refs[m]) : Append(refs[m], <<h, value>>)[i] = refs[m][i]
        /\ Append(refs[m], <<h, value>>)[Len(refs[m]) + 1] = <<h, value>>
    <3> DEFINE X == E!Refs \X {"kernel", "file", "memory"}
               x == <<h, value>>
    <3>1. refs[m] \in Seq(X) /\ x \in X
      BY <2>5
    <3> HIDE DEF X, x
    <3>2. /\ Append(refs[m], x) \in Seq(X)
          /\ DOMAIN Append(refs[m], x) = 1..(Len(refs[m]) + 1)
          /\ DOMAIN refs[m] = 1..Len(refs[m]) /\ Len(refs[m]) \in Nat
          /\ \A i \in 1..Len(refs[m]) : Append(refs[m], x)[i] = refs[m][i]
          /\ Append(refs[m], x)[Len(refs[m]) + 1] = x
      BY <3>1
    <3> QED
      BY <3>2 DEF X, x
  <2>7. /\ refs' \in [Mods -> Seq(E!Refs \X {"kernel", "file", "memory"})]
        /\ refs'[m] = Append(refs[m], <<h, value>>) /\ \A o \in Mods : o # m => refs'[o] = refs[o]
    BY <1>0, <2>1, <2>6 DEF E!TypeOK
  <2>8. elf_at' \in [Mods -> Nat] /\ \A o \in Mods : elf_at'[o] = IF o = m THEN elf_at[m] + 1 ELSE elf_at[o]
    BY <1>0, <2>1 DEF E!TypeOK
  <2>9. E!TypeOK'
    BY <1>0, <1>1, <2>1, <2>7, <2>8 DEF E!TypeOK
  <2>10. E!PassedIsMemory'
    <3> SUFFICES ASSUME NEW o \in Mods, NEW j \in DOMAIN elf_file[o], elf_file[o][j] = "bss", j < elf_at'[o]
                 PROVE  bss[o]
      BY <1>1 DEF E!PassedIsMemory
    <3>1. CASE o = m /\ j = elf_at[m]
      BY <1>1, <3>1 DEF E!Refs
    <3>2. CASE ~(o = m /\ j = elf_at[m])
      <4>1. j \in Int
        BY <1>0, FileFacts
      <4>2. j < elf_at[o]
        BY <1>0, <2>8, <3>2, <4>1 DEF E!TypeOK
      <4> QED
        BY <1>0, <4>2 DEF E!PassedIsMemory
    <3> QED
      BY <3>1, <3>2
  <2>11. E!StartsAtFirst'
    BY <1>0, <2>1, <2>8 DEF E!StartsAtFirst, E!TypeOK
  <2>12. E!VariablesAreMemory'
    <3> SUFFICES ASSUME NEW o \in Mods, NEW i \in DOMAIN refs'[o], refs'[o][i] = <<"var", "file">>
                 PROVE  \E j \in 1..E!Index(o, "bss") : elf_file[o][j] = "var"
      BY <1>1 DEF E!VariablesAreMemory, E!Index
    <3>1. CASE o = m /\ i = Len(refs[m]) + 1
      <4>1. <<h, value>> = <<"var", "file">>
        BY <2>6, <2>7, <3>1
      <4> QED
        BY <2>4, <3>1, <4>1
    <3>2. CASE ~(o = m /\ i = Len(refs[m]) + 1)
      <4>1. i \in DOMAIN refs[o] /\ refs'[o][i] = refs[o][i]
        <5>1. CASE o # m
          BY <2>7, <5>1
        <5>2. CASE o = m
          <6>1. i \in 1..(Len(refs[m]) + 1) /\ i # Len(refs[m]) + 1
            BY <2>6, <2>7, <3>2, <5>2
          <6>2. i \in 1..Len(refs[m])
            BY <2>6, <6>1
          <6> QED
            BY <2>6, <2>7, <5>2, <6>2
        <5> QED
          BY <5>1, <5>2
      <4> QED
        BY <1>0, <4>1 DEF E!VariablesAreMemory
    <3> QED
      BY <3>1, <3>2
  <2> QED
    BY <2>9, <2>10, <2>11, <2>12 DEF E!ModuleInv
<1> QED
  BY <1>2, <1>3

(* The steps that relocate nothing.                                        *)
LEMMA ModuleOther ==
  ASSUME E!ModuleInv, NEW m \in Mods,
         E!insmod(m) \/ E!allocate(m) \/ E!symtab(m) \/ E!finish(m)
  PROVE  E!ModuleInv'
<1>0. E!TypeOK /\ E!PassedIsMemory /\ E!StartsAtFirst /\ E!VariablesAreMemory
  BY DEF E!ModuleInv
<1>1. UNCHANGED <<elf_file, refs>>
  BY DEF E!insmod, E!allocate, E!symtab, E!finish
<1>2. E!VariablesAreMemory'
  BY <1>0, <1>1 DEF E!VariablesAreMemory, E!Index
<1>3. \A o \in Mods : \A j \in DOMAIN elf_file[o] : j \in Nat \ {0}
  BY <1>0, FileFacts
<1> DEFINE Symbol == [name : {"kernel", "other", "info"}, module : Mods \cup {"kernel"}]
<1>4. symbols \in Seq(Symbol)
  BY <1>0 DEF E!TypeOK
<1>5. CASE E!insmod(m)
  <2>1. /\ elf_state' = [elf_state EXCEPT ![m] = "loading"] /\ elf_at' = [elf_at EXCEPT ![m] = 1]
        /\ UNCHANGED <<symbols, elf_file, bss, info, refs>>
    BY <1>5 DEF E!insmod
  <2>2. elf_at' \in [Mods -> Nat] /\ elf_at'[m] = 1 /\ \A o \in Mods : o # m => elf_at'[o] = elf_at[o]
    BY <1>0, <2>1 DEF E!TypeOK
  <2>3. elf_state' \in [Mods -> {"no", "loading", "loaded", "failed"}]
        /\ \A o \in Mods : o # m => elf_state'[o] = elf_state[o]
    BY <1>0, <2>1 DEF E!TypeOK
  <2>4. E!TypeOK'
    BY <1>0, <2>1, <2>2, <2>3 DEF E!TypeOK
  <2>5. E!PassedIsMemory'
    BY <1>0, <1>3, <2>1, <2>2 DEF E!PassedIsMemory
  <2>6. E!StartsAtFirst'
    BY <1>0, <2>2, <2>3 DEF E!StartsAtFirst
  <2> QED
    BY <1>2, <2>4, <2>5, <2>6 DEF E!ModuleInv
<1>6. CASE E!allocate(m)
  <2>1. /\ bss' = [bss EXCEPT ![m] = TRUE] /\ elf_at' = [elf_at EXCEPT ![m] = elf_at[m] + 1]
        /\ UNCHANGED <<symbols, elf_file, elf_state, info, refs>>
    BY <1>6 DEF E!allocate, E!Advance
  <2>2. elf_at' \in [Mods -> Nat] /\ \A o \in Mods : elf_at'[o] = IF o = m THEN elf_at[m] + 1 ELSE elf_at[o]
    BY <1>0, <2>1 DEF E!TypeOK
  <2>3. bss' \in [Mods -> BOOLEAN] /\ bss'[m] /\ \A o \in Mods : o # m => bss'[o] = bss[o]
    BY <1>0, <2>1 DEF E!TypeOK
  <2>4. E!TypeOK'
    BY <1>0, <2>1, <2>2, <2>3 DEF E!TypeOK
  <2>5. E!PassedIsMemory'
    BY <1>0, <2>1, <2>2, <2>3 DEF E!PassedIsMemory
  <2>6. E!StartsAtFirst'
    BY <1>0, <2>1, <2>2 DEF E!StartsAtFirst, E!TypeOK
  <2> QED
    BY <1>2, <2>4, <2>5, <2>6 DEF E!ModuleInv
<1>7. CASE E!symtab(m)
  <2> DEFINE s == [name |-> "other", module |-> m]
  <2>1. /\ info' = [info EXCEPT ![m] = TRUE] /\ elf_at' = [elf_at EXCEPT ![m] = elf_at[m] + 1]
        /\ symbols' = Append(symbols, s)
        /\ UNCHANGED <<elf_file, elf_state, bss, refs>>
    BY <1>7 DEF E!symtab, E!Advance
  <2>2. elf_at' \in [Mods -> Nat] /\ \A o \in Mods : elf_at'[o] = IF o = m THEN elf_at[m] + 1 ELSE elf_at[o]
    BY <1>0, <2>1 DEF E!TypeOK
  <2>3. info' \in [Mods -> BOOLEAN]
    BY <1>0, <2>1 DEF E!TypeOK
  <2>4. s \in Symbol
    OBVIOUS
  <2> HIDE DEF s, Symbol
  <2>5. symbols' \in Seq(Symbol)
    BY <1>4, <2>1, <2>4
  <2>6. E!TypeOK'
    BY <1>0, <2>1, <2>2, <2>3, <2>5 DEF E!TypeOK, Symbol
  <2>7. E!PassedIsMemory'
    <3> SUFFICES ASSUME NEW o \in Mods, NEW j \in DOMAIN elf_file[o], elf_file[o][j] = "bss", j < elf_at'[o]
                 PROVE  bss[o]
      BY <2>1 DEF E!PassedIsMemory
    <3>1. elf_file[m][elf_at[m]] = "symtab"
      BY <1>7 DEF E!symtab, E!header
    <3>2. j < elf_at[o]
      BY <1>0, <1>3, <2>2, <3>1 DEF E!TypeOK
    <3> QED
      BY <1>0, <3>2 DEF E!PassedIsMemory
  <2>8. E!StartsAtFirst'
    BY <1>0, <2>1, <2>2 DEF E!StartsAtFirst, E!TypeOK
  <2> QED
    BY <1>2, <2>6, <2>7, <2>8 DEF E!ModuleInv
<1>8. CASE E!finish(m)
  <2> DEFINE s == [name |-> "info", module |-> m]
             end == IF info[m] THEN "loaded" ELSE "failed"
  <2>1. /\ elf_state' = [elf_state EXCEPT ![m] = end]
        /\ symbols' = IF info[m] THEN Append(symbols, s) ELSE symbols
        /\ UNCHANGED <<elf_file, elf_at, bss, info, refs>>
    BY <1>8 DEF E!finish
  <2>2. s \in Symbol /\ end \in {"loaded", "failed"}
    OBVIOUS
  <2> HIDE DEF s, Symbol, end
  <2>3. symbols' \in Seq(Symbol)
    BY <1>4, <2>1, <2>2
  <2>4. elf_state' \in [Mods -> {"no", "loading", "loaded", "failed"}]
        /\ \A o \in Mods : elf_state'[o] = "loading" => elf_state[o] = "loading"
    BY <1>0, <2>1, <2>2 DEF E!TypeOK
  <2>5. E!TypeOK'
    BY <1>0, <2>1, <2>3, <2>4 DEF E!TypeOK, Symbol
  <2>6. E!PassedIsMemory' /\ E!StartsAtFirst'
    BY <1>0, <2>1, <2>4 DEF E!PassedIsMemory, E!StartsAtFirst
  <2> QED
    BY <1>2, <2>5, <2>6 DEF E!ModuleInv
<1> QED
  BY <1>5, <1>6, <1>7, <1>8

LEMMA ModuleAlways == Spec => [](part = "module" => E!ModuleInv)
<1> DEFINE Inv == part = "module" => E!ModuleInv
<1>1. Init => Inv
  BY InitModule DEF Init
<1>2. Inv /\ [Next]_vars => Inv'
  <2> SUFFICES ASSUME Inv, [Next]_vars
               PROVE  Inv'
    OBVIOUS
  <2>1. CASE part # "module"
    BY <2>1 DEF Next, vars
  <2>2. CASE part = "module" /\ Next
    <3>1. E!Next /\ E!ModuleInv
      BY <2>2 DEF Next
    <3> QED
      BY <3>1, ModuleRelocate, ModuleOther DEF E!Next
  <2>3. CASE part = "module" /\ UNCHANGED vars
    BY <2>3 DEF vars, elfVars, E!ModuleInv, E!TypeOK, E!PassedIsMemory, E!StartsAtFirst,
       E!VariablesAreMemory, E!Index
  <2> QED
    BY <2>1, <2>2, <2>3
<1> QED
  BY <1>1, <1>2, PTL DEF Spec

(***************************************************************************)
(* The dynamic linker                                                      *)
(***************************************************************************)

LEMMA LdNames ==
  /\ Main \in L!Objects /\ Libs \subseteq L!Objects /\ Main \notin Libs
  /\ L!Objects = {Main} \cup Libs /\ "base" \notin L!Objects /\ "lazy" \notin L!Objects
  BY SystemAssumption DEF L!LdAssumption, L!Objects

LEMMA LoadedFacts ==
  ASSUME L!TypeOK
  PROVE  /\ Len(loaded) \in Nat /\ DOMAIN loaded = 1..Len(loaded)
         /\ \A i \in 1..Len(loaded) : loaded[i] \in L!Objects
         /\ \A o : o \in L!Range(loaded) <=> \E i \in 1..Len(loaded) : loaded[i] = o
<1>1. loaded \in Seq(L!Objects)
  BY DEF L!TypeOK
<1>2. /\ Len(loaded) \in Nat /\ DOMAIN loaded = 1..Len(loaded)
      /\ \A i \in 1..Len(loaded) : loaded[i] \in L!Objects
  BY <1>1
<1> QED
  BY <1>2 DEF L!Range

LEMMA InitLd == L!Init => L!LdInv
<1> SUFFICES ASSUME L!Init
             PROVE  L!LdInv
  OBVIOUS
<1>0. MaxNeeds \in Nat
  BY SystemAssumption DEF L!LdAssumption
<1>1. /\ stack = <<[obj |-> Main, dep |-> 1]>> /\ loaded = <<Main>> /\ phase = "load"
      /\ ~override /\ next = 1 /\ copied = << >> /\ times = [o \in L!Objects |-> 0]
      /\ slot = [o \in L!Objects |-> IF sym[o] \in {"und", "plt", "def"} THEN "lazy" ELSE "null"]
      /\ dependencies \in [L!Objects -> L!Needs(MaxNeeds)]
  BY DEF L!Init
<1>2. /\ sym \in [L!Objects -> {"none", "def", "und", "data", "abs", "weak", "copy", "plt"}]
      /\ \A l \in Libs : sym[l] \notin {"copy", "plt"}
      /\ sym[Main] = "copy" => \A o \in L!Objects : sym[o] # "und"
  <2>1. CASE /\ sym \in [L!Objects -> {"none", "def", "und", "abs", "plt"}]
             /\ \A l \in Libs : sym[l] # "plt"
    BY <2>1, LdNames
  <2>2. CASE /\ sym \in [L!Objects -> {"none", "def", "data", "abs", "weak", "copy"}]
             /\ \A l \in Libs : sym[l] # "copy"
    BY <2>2, LdNames
  <2> QED
    BY <2>1, <2>2 DEF L!Init
<1>3. dependencies \in [L!Objects -> Seq(Libs)]
  <2>1. ASSUME NEW s \in L!Needs(MaxNeeds)
        PROVE  s \in Seq(Libs)
    <3>1. s \in UNION {[1..k -> Libs] : k \in 0..MaxNeeds}
      BY Zenon DEF L!Needs
    <3>2. PICK X \in {[1..k -> Libs] : k \in 0..MaxNeeds} : s \in X
      BY <3>1, Zenon
    <3>3. PICK k \in 0..MaxNeeds : s \in [1..k -> Libs]
      BY <3>2, Zenon
    <3>4. k \in Nat
      BY <1>0, <3>3
    <3> QED
      BY <3>3, <3>4
  <2> QED
    BY <1>1, <2>1
<1>4. L!TypeOK
  <2>1. stack \in Seq([obj : L!Objects, dep : Nat \ {0}]) /\ loaded \in Seq(L!Objects)
    BY <1>1, LdNames
  <2>2. override \in BOOLEAN
    BY DEF L!Init
  <2>3. slot \in [L!Objects -> L!Objects \cup {"lazy", "null"}] /\ times \in [L!Objects -> Nat]
        /\ next \in Nat \ {0}
    BY <1>1
  <2> QED
    BY <1>1, <1>2, <1>3, <2>1, <2>2, <2>3 DEF L!TypeOK
<1>5. L!SymbolIsOne
  BY <1>1, <1>2 DEF L!SymbolIsOne
<1>6. L!LoadsWhatIsNeeded
  <2>1. /\ Len(loaded) = 1 /\ loaded[1] = Main /\ DOMAIN loaded = {1} /\ loaded # << >>
        /\ DOMAIN stack = {1} /\ stack # << >> /\ stack[1].obj = Main /\ stack[1].dep = 1
    BY <1>1
  <2>2. \A j \in DOMAIN dependencies[Main] : ~(j < 1)
    <3>1. dependencies[Main] \in Seq(Libs)
      BY <1>3, LdNames
    <3> QED
      BY <3>1
  <2>3. L!IsInjective(loaded) /\ L!Range(loaded) = {Main}
    BY <2>1 DEF L!IsInjective, L!Range
  <2> QED
    BY <1>1, <2>1, <2>2, <2>3 DEF L!LoadsWhatIsNeeded
<1>7. L!RelocatesInOrder /\ L!CallsAreFirst /\ L!EntriesAreSet
  BY <1>1 DEF L!RelocatesInOrder, L!CallsAreFirst, L!EntriesAreSet, L!Bound, L!Imports
<1> QED
  BY <1>1, <1>4, <1>5, <1>6, <1>7
  DEF L!LdInv, L!RelocatedOnce, L!OneVariable, L!CopyIsRelocated

(* An error ends the linker and changes nothing else.                      *)
LEMMA LdExit ==
  ASSUME L!LdInv, L!Exit, phase # "hung"
  PROVE  L!LdInv'
<1>1. phase' = "exit" /\ UNCHANGED <<dependencies, sym, stack, loaded, override, next, slot, copied, times>>
  BY DEF L!Exit, L!files
<1>2. L!TypeOK'
  BY <1>1 DEF L!LdInv, L!TypeOK
<1>3. L!SymbolIsOne'
  BY <1>1 DEF L!LdInv, L!SymbolIsOne
<1>4. L!LoadsWhatIsNeeded'
  BY <1>1 DEF L!LdInv, L!LoadsWhatIsNeeded, L!Closed
<1>5. L!RelocatesInOrder' /\ L!RelocatedOnce' /\ L!OneVariable'
  BY <1>1 DEF L!RelocatesInOrder, L!RelocatedOnce, L!OneVariable
<1>6. L!CallsAreFirst' /\ L!CopyIsRelocated'
  BY <1>1 DEF L!LdInv, L!CallsAreFirst, L!CopyIsRelocated, L!Values, L!HasValue
<1>7. L!EntriesAreSet'
  BY <1>1 DEF L!LdInv, L!EntriesAreSet, L!Bound, L!Imports
<1> QED
  BY <1>2, <1>3, <1>4, <1>5, <1>6, <1>7 DEF L!LdInv

(* What loading leaves alone.                                              *)
LEMMA LdLoading ==
  ASSUME L!LdInv, phase = "load", phase' \in {"load", "copies"},
         UNCHANGED <<dependencies, sym, override, next, slot, copied, times>>
  PROVE  /\ L!SymbolIsOne' /\ L!RelocatesInOrder' /\ L!CallsAreFirst'
         /\ L!RelocatedOnce' /\ L!OneVariable' /\ L!CopyIsRelocated' /\ L!EntriesAreSet'
<1>1. L!SymbolIsOne'
  BY DEF L!LdInv, L!SymbolIsOne
<1>2. L!RelocatesInOrder' /\ L!CopyIsRelocated'
  BY DEF L!LdInv, L!RelocatesInOrder, L!CopyIsRelocated
<1>3. L!CallsAreFirst'
  BY DEF L!LdInv, L!CallsAreFirst
<1>4. L!RelocatedOnce' /\ L!OneVariable'
  BY DEF L!RelocatedOnce, L!OneVariable
<1>5. L!EntriesAreSet'
  BY DEF L!LdInv, L!EntriesAreSet, L!Bound, L!Imports
<1> QED
  BY <1>1, <1>2, <1>3, <1>4, <1>5

LEMMA LdLoad ==
  ASSUME L!LdInv, L!load_object
  PROVE  L!LdInv'
<1>0. L!TypeOK /\ L!LoadsWhatIsNeeded /\ phase = "load"
  BY DEF L!LdInv, L!load_object
<1> DEFINE n == Len(stack)
           Frame == [obj : L!Objects, dep : Nat \ {0}]
           top == stack[n]
           needs == dependencies[top.obj]
           passed == [stack EXCEPT ![n].dep = top.dep + 1]
<1>1. UNCHANGED <<dependencies, sym, override, next, slot, copied, times>>
  BY DEF L!load_object, L!files
<1>2. /\ stack \in Seq(Frame) /\ stack # << >> /\ n \in Nat \ {0} /\ DOMAIN stack = 1..n
      /\ \A k \in 1..n : stack[k] \in Frame
  <2>1. stack \in Seq(Frame) /\ stack # << >>
    BY <1>0 DEF L!TypeOK, L!LoadsWhatIsNeeded
  <2> HIDE DEF Frame
  <2> QED
    BY <2>1
<1>3. /\ top.obj \in L!Objects /\ top.dep \in Nat \ {0} /\ top.obj \in L!Range(loaded)
      /\ needs \in Seq(Libs) /\ Len(needs) \in Nat /\ DOMAIN needs = 1..Len(needs)
      /\ L!Range(needs) = {needs[j] : j \in 1..Len(needs)}
      /\ \A j \in 1..Len(needs) : j < top.dep => needs[j] \in L!Range(loaded)
  <2>1. n \in DOMAIN stack /\ top \in Frame
    BY <1>2
  <2>2. top.obj \in L!Objects /\ top.dep \in Nat \ {0}
    BY <2>1
  <2>3. /\ top.obj \in L!Range(loaded)
        /\ \A j \in DOMAIN needs : j < top.dep => needs[j] \in L!Range(loaded)
    BY <1>0, <2>1 DEF L!LoadsWhatIsNeeded
  <2>4. needs \in Seq(Libs)
    BY <1>0, <2>2 DEF L!TypeOK
  <2>5. Len(needs) \in Nat /\ DOMAIN needs = 1..Len(needs)
    BY <2>4
  <2> QED
    BY <2>2, <2>3, <2>4, <2>5 DEF L!Range
<1>4. CASE top.dep > Len(needs)
  <2>1. /\ stack' = SubSeq(stack, 1, n - 1) /\ loaded' = loaded
        /\ phase' = IF stack' = << >> THEN "copies" ELSE "load"
    BY <1>0, <1>4 DEF L!load_object
  <2>2. L!Range(needs) \subseteq L!Range(loaded)
    BY <1>3, <1>4
  <2>3. /\ stack' \in Seq(Frame) /\ DOMAIN stack' = 1..(n - 1)
        /\ \A k \in 1..(n - 1) : stack'[k] = stack[k]
    <3> HIDE DEF Frame
    <3> QED
      BY <1>2, <2>1, FrontFacts
  <2> HIDE DEF Frame, needs, n
  <2>4. L!TypeOK'
    BY <1>0, <1>1, <2>1, <2>3 DEF L!TypeOK, Frame
  <2>5. L!LoadsWhatIsNeeded'
    <3>1. ASSUME NEW k \in DOMAIN stack'
          PROVE  /\ stack'[k].obj \in L!Range(loaded)
                 /\ \A j \in DOMAIN dependencies[stack'[k].obj] :
                      j < stack'[k].dep => dependencies[stack'[k].obj][j] \in L!Range(loaded)
      <4>1. k \in DOMAIN stack /\ stack'[k] = stack[k]
        BY <1>2, <2>3
      <4> QED
        BY <1>0, <4>1 DEF L!LoadsWhatIsNeeded
    <3>2. ASSUME NEW o \in L!Range(loaded)
          PROVE  \/ \E k \in DOMAIN stack' : stack'[k].obj = o
                 \/ L!Range(dependencies[o]) \subseteq L!Range(loaded)
      <4>1. CASE \E k \in DOMAIN stack : stack[k].obj = o
        <5>1. PICK k \in DOMAIN stack : stack[k].obj = o
          BY <4>1
        <5>2. CASE k = n
          BY <2>2, <5>1, <5>2 DEF needs
        <5>3. CASE k # n
          <6>1. k \in 1..(n - 1)
            BY <1>2, <5>1, <5>3
          <6> QED
            BY <2>3, <5>1, <6>1
        <5> QED
          BY <5>2, <5>3
      <4> QED
        BY <1>0, <4>1 DEF L!LoadsWhatIsNeeded
    <3>3. /\ phase' = "load" => stack' # << >>
          /\ phase' \notin {"load", "exit"} => stack' = << >>
      BY <2>1
    <3>4. \A X : L!Closed(X)' <=> L!Closed(X)
      BY <1>1 DEF L!Closed
    <3> QED
      BY <1>0, <1>1, <2>1, <3>1, <3>2, <3>3, <3>4 DEF L!LoadsWhatIsNeeded
  <2> QED
    BY <1>0, <1>1, <2>1, <2>4, <2>5, LdLoading DEF L!LdInv
<1>5. CASE ~(top.dep > Len(needs))
  <2> DEFINE l == needs[top.dep]
             f == [obj |-> top.obj, dep |-> top.dep + 1]
  <2>1. /\ phase' = phase
        /\ L!is_library_loaded(l) => stack' = passed /\ loaded' = loaded
        /\ ~L!is_library_loaded(l) => /\ loaded' = Append(loaded, l)
                                      /\ stack' = Append(passed, [obj |-> l, dep |-> 1])
    BY <1>5 DEF L!load_object
  <2>2. l \in Libs /\ l \in L!Objects /\ top.dep \in 1..Len(needs) /\ l \in L!Range(needs)
    <3>1. top.dep \in 1..Len(needs)
      BY <1>3, <1>5
    <3>2. l \in Libs
      BY <1>3, <3>1
    <3> QED
      BY <1>3, <3>1, <3>2, LdNames
  <2>3. /\ passed \in Seq(Frame) /\ Len(passed) = n /\ DOMAIN passed = 1..n
        /\ passed[n] = f /\ \A k \in 1..n : k # n => passed[k] = stack[k]
    <3>1. passed = [stack EXCEPT ![n] = f]
      <4>1. [stack[n] EXCEPT !.dep = top.dep + 1] = f
        <5>1. top \in Frame
          BY <1>2
        <5> QED
          BY <5>1
      <4> QED
        BY <4>1
    <3>2. f \in Frame
      BY <1>3
    <3> HIDE DEF passed, f, Frame, n
    <3>3. DOMAIN passed = 1..n /\ passed[n] = f /\ \A k \in 1..n : k # n => passed[k] = stack[k]
      BY <1>2, <3>1
    <3>4. passed = [k \in 1..n |-> passed[k]] /\ \A k \in 1..n : passed[k] \in Frame
      BY <1>2, <3>1, <3>2, <3>3
    <3>5. passed \in [1..n -> Frame]
      BY <3>4
    <3>6. passed \in Seq(Frame)
      BY <1>2, <3>5
    <3> QED
      BY <1>2, <3>3, <3>6
  <2>4. /\ Len(loaded) \in Nat /\ DOMAIN loaded = 1..Len(loaded)
        /\ \A i \in 1..Len(loaded) : loaded[i] \in L!Objects
        /\ \A o : o \in L!Range(loaded) <=> \E i \in 1..Len(loaded) : loaded[i] = o
    BY <1>0, LoadedFacts
  <2>5. L!is_library_loaded(l) <=> l \in L!Range(loaded)
    BY <2>4 DEF L!is_library_loaded
  <2>6. \A j \in 1..Len(needs) : j < top.dep + 1 => needs[j] \in L!Range(loaded) \cup {l}
    <3> SUFFICES ASSUME NEW j \in 1..Len(needs), j < top.dep + 1
                 PROVE  needs[j] \in L!Range(loaded) \cup {l}
      OBVIOUS
    <3>1. j < top.dep \/ j = top.dep
      BY <1>3
    <3> QED
      BY <1>3, <3>1
  <2>7. f.obj = top.obj /\ f.dep = top.dep + 1
    OBVIOUS
  <2>8. \A X : L!Closed(X)' <=> L!Closed(X)
    BY <1>1 DEF L!Closed
  <2> HIDE DEF passed, f, Frame, l
  <2>9. CASE L!is_library_loaded(l)
    <3>1. stack' = passed /\ loaded' = loaded
      BY <2>1, <2>9
    <3>2. L!TypeOK'
      BY <1>0, <1>1, <2>1, <2>3, <3>1 DEF L!TypeOK, Frame
    <3>3. L!LoadsWhatIsNeeded'
      <4>1. ASSUME NEW k \in DOMAIN stack'
            PROVE  /\ stack'[k].obj \in L!Range(loaded)
                   /\ \A j \in DOMAIN dependencies[stack'[k].obj] :
                        j < stack'[k].dep => dependencies[stack'[k].obj][j] \in L!Range(loaded)
        <5>1. CASE k = n
          <6>1. stack'[k].obj = top.obj /\ stack'[k].dep = top.dep + 1
            BY <2>3, <2>7, <3>1, <5>1
          <6> QED
            BY <1>3, <2>5, <2>6, <2>9, <6>1
        <5>2. CASE k # n
          <6>1. k \in DOMAIN stack /\ stack'[k] = stack[k]
            BY <1>2, <2>3, <3>1, <5>2
          <6> QED
            BY <1>0, <6>1 DEF L!LoadsWhatIsNeeded
        <5> QED
          BY <5>1, <5>2
      <4>2. \A k \in DOMAIN stack : k \in DOMAIN stack' /\ stack'[k].obj = stack[k].obj
        <5> SUFFICES ASSUME NEW k \in DOMAIN stack
                     PROVE  k \in DOMAIN stack' /\ stack'[k].obj = stack[k].obj
          OBVIOUS
        <5>1. CASE k = n
          BY <1>2, <2>3, <2>7, <3>1, <5>1
        <5>2. CASE k # n
          BY <1>2, <2>3, <3>1, <5>2
        <5> QED
          BY <5>1, <5>2
      <4>3. \A o \in L!Range(loaded) :
              \/ \E k \in DOMAIN stack' : stack'[k].obj = o
              \/ L!Range(dependencies[o]) \subseteq L!Range(loaded)
        BY <1>0, <4>2 DEF L!LoadsWhatIsNeeded
      <4>4. phase' = "load" /\ stack' # << >>
        BY <1>0, <1>2, <2>1, <2>3, <3>1
      <4> QED
        BY <1>0, <1>1, <2>8, <3>1, <4>1, <4>3, <4>4 DEF L!LoadsWhatIsNeeded
    <3> QED
      BY <1>0, <1>1, <2>1, <3>2, <3>3, LdLoading DEF L!LdInv
  <2>10. CASE ~L!is_library_loaded(l)
    <3> DEFINE g == [obj |-> l, dep |-> 1]
    <3>1. stack' = Append(passed, g) /\ loaded' = Append(loaded, l)
      BY <2>1, <2>10
    <3>2. g \in Frame /\ g.obj = l /\ g.dep = 1
      BY <2>2 DEF Frame
    <3> HIDE DEF g
    <3>3. /\ stack' \in Seq(Frame) /\ DOMAIN stack' = 1..(n + 1) /\ stack'[n + 1] = g
          /\ \A k \in 1..n : stack'[k] = passed[k]
      <4>1. passed \in Seq(Frame) /\ g \in Frame /\ Len(passed) = n
        BY <2>3, <3>2
      <4>2. /\ Append(passed, g) \in Seq(Frame)
            /\ DOMAIN Append(passed, g) = 1..(Len(passed) + 1)
            /\ Append(passed, g)[Len(passed) + 1] = g
            /\ \A k \in 1..Len(passed) : Append(passed, g)[k] = passed[k]
        BY <4>1
      <4> QED
        BY <3>1, <4>1, <4>2
    <3>4. /\ loaded' \in Seq(L!Objects) /\ Len(loaded') = Len(loaded) + 1
          /\ DOMAIN loaded' = 1..(Len(loaded) + 1) /\ loaded'[Len(loaded) + 1] = l
          /\ \A i \in 1..Len(loaded) : loaded'[i] = loaded[i]
      BY <1>0, <2>2, <3>1 DEF L!TypeOK
    <3>5. L!TypeOK'
      BY <1>0, <1>1, <2>1, <3>3, <3>4 DEF L!TypeOK, Frame
    <3>6. L!Range(loaded)' = L!Range(loaded) \cup {l}
      <4>1. L!Range(loaded)' = {loaded'[i] : i \in DOMAIN loaded'}
        BY DEF L!Range
      <4>2. \A o : o \in L!Range(loaded)' <=> \E i \in 1..(Len(loaded) + 1) : loaded'[i] = o
        BY <3>4, <4>1
      <4>3. ASSUME NEW o, o \in L!Range(loaded)'
            PROVE  o \in L!Range(loaded) \cup {l}
        <5>1. PICK i \in 1..(Len(loaded) + 1) : loaded'[i] = o
          BY <4>2, <4>3
        <5>2. CASE i = Len(loaded) + 1
          BY <3>4, <5>1, <5>2
        <5>3. CASE i # Len(loaded) + 1
          <6>1. i \in 1..Len(loaded)
            BY <2>4, <5>1, <5>3
          <6> QED
            BY <2>4, <3>4, <5>1, <6>1
        <5> QED
          BY <5>2, <5>3
      <4>4. ASSUME NEW o, o \in L!Range(loaded) \cup {l}
            PROVE  o \in L!Range(loaded)'
        <5>1. CASE o = l
          BY <2>4, <3>4, <4>2, <5>1
        <5>2. CASE o \in L!Range(loaded)
          <6>1. PICK i \in 1..Len(loaded) : loaded[i] = o
            BY <2>4, <5>2
          <6>2. i \in 1..(Len(loaded) + 1) /\ loaded'[i] = o
            BY <2>4, <3>4, <6>1
          <6> QED
            BY <4>2, <6>2
        <5> QED
          BY <4>4, <5>1, <5>2
      <4> QED
        BY <4>3, <4>4
    <3>7. L!IsInjective(loaded)' /\ loaded' # << >> /\ loaded'[1] = Main
      <4>1. Len(loaded) \in Nat \ {0} /\ loaded[1] = Main /\ L!IsInjective(loaded)
        <5>1. loaded # << >> /\ loaded \in Seq(L!Objects) /\ loaded[1] = Main /\ L!IsInjective(loaded)
          BY <1>0 DEF L!LoadsWhatIsNeeded, L!TypeOK
        <5> QED
          BY <5>1
      <4>2. \A i \in 1..Len(loaded) : loaded[i] # l
        BY <2>10 DEF L!is_library_loaded
      <4>3. ASSUME NEW i \in 1..(Len(loaded) + 1), NEW j \in 1..(Len(loaded) + 1), loaded'[i] = loaded'[j]
            PROVE  i = j
        <5>1. i \in 1..Len(loaded) \/ i = Len(loaded) + 1
          BY <2>4
        <5>2. j \in 1..Len(loaded) \/ j = Len(loaded) + 1
          BY <2>4
        <5> QED
          BY <2>4, <3>4, <4>1, <4>2, <4>3, <5>1, <5>2 DEF L!IsInjective
      <4> QED
        BY <3>4, <4>1, <4>3 DEF L!IsInjective
    <3>8. ASSUME NEW X \in SUBSET L!Objects, Main \in X, L!Closed(X)
          PROVE  L!Range(loaded)' \subseteq X
      <4>1. L!Range(loaded) \subseteq X
        BY <1>0, <3>8 DEF L!LoadsWhatIsNeeded
      <4>2. l \in X
        BY <1>3, <2>2, <3>8, <4>1 DEF L!Closed
      <4> QED
        BY <3>6, <4>1, <4>2
    <3>9. ASSUME NEW k \in DOMAIN stack'
          PROVE  /\ stack'[k].obj \in L!Range(loaded)'
                 /\ \A j \in DOMAIN dependencies[stack'[k].obj] :
                      j < stack'[k].dep => dependencies[stack'[k].obj][j] \in L!Range(loaded)'
      <4>1. CASE k = n + 1
        <5>1. stack'[k].obj = l /\ stack'[k].dep = 1
          BY <3>2, <3>3, <4>1
        <5>2. \A j \in DOMAIN dependencies[l] : ~(j < 1)
          <6>1. dependencies[l] \in Seq(Libs)
            BY <1>0, <2>2 DEF L!TypeOK
          <6> QED
            BY <6>1
        <5> QED
          BY <3>6, <5>1, <5>2
      <4>2. CASE k = n
        <5>1. stack'[k].obj = top.obj /\ stack'[k].dep = top.dep + 1
          BY <1>2, <2>3, <2>7, <3>3, <4>2
        <5> QED
          BY <1>3, <2>6, <3>6, <5>1
      <4>3. CASE k # n /\ k # n + 1
        <5>1. k \in DOMAIN stack /\ stack'[k] = stack[k]
          <6>1. k \in 1..n
            BY <1>2, <3>3, <4>3
          <6> QED
            BY <1>2, <2>3, <3>3, <4>3, <6>1
        <5> QED
          BY <1>0, <3>6, <5>1 DEF L!LoadsWhatIsNeeded
      <4> QED
        BY <4>1, <4>2, <4>3
    <3>10. ASSUME NEW o \in L!Range(loaded)'
           PROVE  \/ \E k \in DOMAIN stack' : stack'[k].obj = o
                  \/ L!Range(dependencies[o]) \subseteq L!Range(loaded)'
      <4>1. CASE o = l
        <5>1. n + 1 \in DOMAIN stack' /\ stack'[n + 1].obj = l
          BY <1>2, <3>2, <3>3
        <5> QED
          BY <4>1, <5>1
      <4>2. CASE \E k \in DOMAIN stack : stack[k].obj = o
        <5>1. PICK k \in DOMAIN stack : stack[k].obj = o
          BY <4>2
        <5>2. k \in DOMAIN stack' /\ stack'[k] = passed[k]
          BY <1>2, <3>3, <5>1
        <5>3. passed[k].obj = o
          <6>1. CASE k = n
            BY <2>3, <2>7, <5>1, <6>1
          <6>2. CASE k # n
            BY <1>2, <2>3, <5>1, <6>2
          <6> QED
            BY <6>1, <6>2
        <5> QED
          BY <5>2, <5>3
      <4>3. CASE L!Range(dependencies[o]) \subseteq L!Range(loaded)
        BY <3>6, <4>3
      <4> QED
        BY <1>0, <3>6, <4>1, <4>2, <4>3 DEF L!LoadsWhatIsNeeded
    <3>11. phase' = "load" /\ stack' # << >>
      <4>1. n + 1 \in DOMAIN stack'
        BY <1>2, <3>3
      <4> QED
        BY <1>0, <2>1, <4>1
    <3>12. L!LoadsWhatIsNeeded'
      BY <1>1, <2>8, <3>7, <3>8, <3>9, <3>10, <3>11 DEF L!LoadsWhatIsNeeded
    <3> QED
      BY <1>0, <1>1, <2>1, <3>5, <3>12, LdLoading DEF L!LdInv
  <2> QED
    BY <2>9, <2>10
<1> QED
  BY <1>4, <1>5

(* The order of relocation has every loaded object once, the program last. *)
LEMMA OrderFacts ==
  ASSUME L!TypeOK, L!LoadsWhatIsNeeded
  PROVE  /\ Len(loaded) \in Nat \ {0} /\ Len(L!Order) = Len(loaded)
         /\ L!Order[Len(loaded)] = Main
         /\ \A j \in 1..(Len(loaded) - 1) : j + 1 \in 1..Len(loaded) /\ L!Order[j] = loaded[j + 1]
         /\ \A j \in 1..Len(loaded) : L!Order[j] \in L!Objects
         /\ \A i, j \in 1..Len(loaded) : L!Order[i] = L!Order[j] => i = j
         /\ \A o : o \in L!Range(loaded) <=> \E j \in 1..Len(loaded) : L!Order[j] = o
<1> DEFINE n == Len(loaded)
           rest == SubSeq(loaded, 2, n)
<1>1. /\ loaded \in Seq(L!Objects) /\ n \in Nat \ {0} /\ DOMAIN loaded = 1..n /\ loaded[1] = Main
      /\ \A i \in 1..n : loaded[i] \in L!Objects
      /\ \A i, j \in 1..n : loaded[i] = loaded[j] => i = j
  <2>1. loaded \in Seq(L!Objects) /\ loaded # << >> /\ loaded[1] = Main /\ L!IsInjective(loaded)
    BY DEF L!TypeOK, L!LoadsWhatIsNeeded
  <2>2. n \in Nat \ {0} /\ DOMAIN loaded = 1..n /\ \A i \in 1..n : loaded[i] \in L!Objects
    BY <2>1
  <2> QED
    BY <2>1, <2>2 DEF L!IsInjective
<1>2. /\ rest \in Seq(L!Objects) /\ Len(rest) = n - 1
      /\ \A i \in 1..(n - 1) : i + 1 \in 1..n /\ rest[i] = loaded[i + 1]
  <2>1. 1 \in Nat /\ 1 <= n
    BY <1>1
  <2>2. /\ SubSeq(loaded, 1 + 1, n) \in Seq(L!Objects) /\ Len(SubSeq(loaded, 1 + 1, n)) = n - 1
        /\ \A i \in 1..(n - 1) : i + 1 \in 1..n /\ SubSeq(loaded, 1 + 1, n)[i] = loaded[i + 1]
    BY <1>1, <2>1, DropFacts
  <2> QED
    BY <2>2
<1>3. L!Order = rest \o <<Main>>
  BY DEF L!Order
<1> HIDE DEF rest, n
<1>4. /\ Len(rest \o <<Main>>) = n /\ (rest \o <<Main>>)[n] = Main
      /\ \A i \in 1..(n - 1) : (rest \o <<Main>>)[i] = rest[i]
  <2>1. /\ Len(rest \o <<Main>>) = Len(rest) + 1
        /\ \A i \in 1..(Len(rest) + 1) :
             (rest \o <<Main>>)[i] = IF i <= Len(rest) THEN rest[i] ELSE Main
    BY <1>2, LdNames
  <2> QED
    BY <1>1, <1>2, <2>1
<1>5. /\ Len(L!Order) = n /\ L!Order[n] = loaded[1]
      /\ \A j \in 1..(n - 1) : j + 1 \in 1..n /\ L!Order[j] = loaded[j + 1]
  BY <1>1, <1>2, <1>3, <1>4
<1>6. \A j \in 1..n : j = n \/ j \in 1..(n - 1)
  BY <1>1
<1>7. \A i, j \in 1..n : L!Order[i] = L!Order[j] => i = j
  <2> SUFFICES ASSUME NEW i \in 1..n, NEW j \in 1..n, L!Order[i] = L!Order[j]
               PROVE  i = j
    OBVIOUS
  <2>1. CASE i = n /\ j = n
    BY <2>1
  <2>2. CASE i = n /\ j \in 1..(n - 1)
    <3>1. loaded[1] = loaded[j + 1] /\ 1 \in 1..n /\ j + 1 \in 1..n
      <4>1. L!Order[n] = loaded[1] /\ 1 \in 1..n
        BY <1>1, <1>5
      <4>2. L!Order[j] = loaded[j + 1] /\ j + 1 \in 1..n
        BY <1>5, <2>2
      <4> QED
        BY <4>1, <4>2, <2>2
    <3>2. 1 = j + 1
      BY <1>1, <3>1
    <3> QED
      BY <2>2, <3>2
  <2>3. CASE i \in 1..(n - 1) /\ j = n
    <3>1. loaded[1] = loaded[i + 1] /\ 1 \in 1..n /\ i + 1 \in 1..n
      <4>1. L!Order[n] = loaded[1] /\ 1 \in 1..n
        BY <1>1, <1>5
      <4>2. L!Order[i] = loaded[i + 1] /\ i + 1 \in 1..n
        BY <1>5, <2>3
      <4> QED
        BY <4>1, <4>2, <2>3
    <3>2. 1 = i + 1
      BY <1>1, <3>1
    <3> QED
      BY <2>3, <3>2
  <2>4. CASE i \in 1..(n - 1) /\ j \in 1..(n - 1)
    <3>1. loaded[i + 1] = loaded[j + 1] /\ i + 1 \in 1..n /\ j + 1 \in 1..n
      BY <1>5, <2>4
    <3>2. i + 1 = j + 1
      BY <1>1, <3>1
    <3> QED
      BY <2>4, <3>2
  <2> QED
    BY <1>6, <2>1, <2>2, <2>3, <2>4
<1>8. \A o : o \in L!Range(loaded) <=> \E j \in 1..n : L!Order[j] = o
  <2>1. \A o : o \in L!Range(loaded) <=> \E i \in 1..n : loaded[i] = o
    BY LoadedFacts DEF n
  <2>2. ASSUME NEW i \in 1..n
        PROVE  \E j \in 1..n : L!Order[j] = loaded[i]
    <3>1. CASE i = 1
      BY <1>1, <1>5, <3>1
    <3>2. CASE i # 1
      <4>1. i - 1 \in 1..(n - 1) /\ i - 1 \in 1..n /\ (i - 1) + 1 = i
        BY <1>1, <3>2
      <4>2. L!Order[i - 1] = loaded[(i - 1) + 1]
        BY <1>5, <4>1
      <4> QED
        BY <4>1, <4>2
    <3> QED
      BY <3>1, <3>2
  <2>3. ASSUME NEW j \in 1..n
        PROVE  \E i \in 1..n : loaded[i] = L!Order[j]
    BY <1>1, <1>5, <1>6
  <2> QED
    BY <2>1, <2>2, <2>3
<1>9. \A j \in 1..n : L!Order[j] \in L!Objects
  BY <1>1, <1>5, <1>6
<1> QED
  BY <1>1, <1>5, <1>7, <1>8, <1>9 DEF n

(* A symbol that is found is one that a loaded object has a value for; an  *)
(* object that imports it finds the first.                                 *)
LEMMA LookupFacts ==
  ASSUME L!TypeOK, NEW o
  PROVE  /\ L!lookup_symbol(o) # "none" =>
              \E i \in 1..Len(loaded) : /\ loaded[i] = L!lookup_symbol(o)
                                        /\ loaded[i] # o /\ L!HasValue(loaded[i])
         /\ sym[o] = "und" /\ L!lookup_symbol(o) # "none" =>
              L!Values # {} /\ L!lookup_symbol(o) = loaded[L!Min(L!Values)]
<1> DEFINE hits == {i \in DOMAIN loaded : loaded[i] # o /\ L!HasValue(loaded[i])}
<1>1. L!lookup_symbol(o) = IF hits = {} THEN "none" ELSE loaded[L!Min(hits)]
  BY DEF L!lookup_symbol, L!Scope
<1>2. hits \subseteq 1..Len(loaded) /\ hits \subseteq Nat
  BY LoadedFacts
<1>3. sym[o] = "und" => hits = L!Values
  BY DEF L!Values, L!HasValue
<1>4. \A i \in hits : loaded[i] # o /\ L!HasValue(loaded[i])
  OBVIOUS
<1> HIDE DEF hits
<1>5. ASSUME hits # {}
      PROVE  L!Min(hits) \in hits
  <2>1. \E s \in hits : \A t \in hits : s <= t
    BY <1>2, <1>5, LeastElement
  <2> QED
    BY <2>1 DEF L!Min
<1> QED
  BY <1>1, <1>2, <1>3, <1>4, <1>5

LEMMA LdCopies ==
  ASSUME L!LdInv, L!relocate_copies
  PROVE  L!LdInv'
<1>0. /\ L!TypeOK /\ L!SymbolIsOne /\ L!LoadsWhatIsNeeded /\ L!RelocatesInOrder
      /\ L!CallsAreFirst /\ L!EntriesAreSet /\ L!CopyIsRelocated /\ phase = "copies"
  BY DEF L!LdInv, L!relocate_copies
<1>1. CASE L!Exit
  BY <1>0, <1>1, LdExit
<1>2. CASE ~L!Exit
  <2>1. /\ phase' = "relocate" /\ override' \in BOOLEAN
        /\ override' => sym[Main] = "copy"
        /\ sym[Main] = "copy" => override' /\ L!lookup_symbol(Main) # "none"
        /\ UNCHANGED <<dependencies, sym, stack, loaded, next, slot, copied, times>>
    <3>1. CASE sym[Main] # "copy"
      BY <1>0, <3>1 DEF L!relocate_copies, L!files, L!TypeOK, L!SymbolIsOne
    <3>2. CASE sym[Main] = "copy"
      BY <1>2, <3>2 DEF L!relocate_copies, L!files
    <3> QED
      BY <3>1, <3>2
  <2>2. L!TypeOK'
    BY <1>0, <2>1 DEF L!TypeOK
  <2>3. L!SymbolIsOne'
    BY <1>0, <2>1 DEF L!SymbolIsOne
  <2>4. L!LoadsWhatIsNeeded'
    BY <1>0, <2>1 DEF L!LoadsWhatIsNeeded, L!Closed
  <2>5. L!lookup_symbol(Main)' = L!lookup_symbol(Main) /\ L!Order' = L!Order
    BY <2>1 DEF L!lookup_symbol, L!Scope, L!HasValue, L!Order
  <2>6. L!RelocatesInOrder'
    <3>1. next' = 1 /\ \A o \in L!Objects : times'[o] = 0
      BY <1>0, <2>1 DEF L!RelocatesInOrder
    <3>2. \A j \in 1..Len(loaded) : L!Order[j] \in L!Objects
      BY <1>0, OrderFacts
    <3>3. \A j \in 1..Len(loaded) : times'[L!Order[j]] = 0 /\ ~(j < next')
      BY <3>1, <3>2
    <3> QED
      BY <2>1, <2>5, <3>3 DEF L!RelocatesInOrder
  <2>7. L!CallsAreFirst'
    BY <1>0, <2>1 DEF L!CallsAreFirst
  <2>8. L!EntriesAreSet'
    <3>1. next' = 1 /\ Len(loaded) \in Nat \ {0} /\ ~(next' > Len(loaded))
      BY <1>0, <2>1, OrderFacts DEF L!RelocatesInOrder
    <3>2. ~override' => ~override
      BY <1>0, <2>1 DEF L!SymbolIsOne
    <3>3. \A o \in L!Objects : ~L!Bound(o)'
      BY <2>1, <2>7 DEF L!CallsAreFirst, L!Bound
    <3> QED
      BY <1>0, <2>1, <3>1, <3>2, <3>3 DEF L!EntriesAreSet, L!Imports
  <2> QED
    BY <1>0, <2>1, <2>2, <2>3, <2>4, <2>6, <2>7, <2>8
    DEF L!LdInv, L!RelocatedOnce, L!OneVariable, L!CopyIsRelocated
<1> QED
  BY <1>1, <1>2

LEMMA LdRelocate ==
  ASSUME L!LdInv, L!relocate_object
  PROVE  L!LdInv'
<1>0. /\ L!TypeOK /\ L!SymbolIsOne /\ L!LoadsWhatIsNeeded /\ L!RelocatesInOrder
      /\ L!CallsAreFirst /\ L!EntriesAreSet /\ L!CopyIsRelocated /\ phase = "relocate"
  BY DEF L!LdInv, L!relocate_object
<1>1. CASE L!Exit
  BY <1>0, <1>1, LdExit
<1>2. CASE ~L!Exit
  <2> DEFINE o == L!Order[next]
             t == L!Target(o)
             x == L!lookup_symbol(o)
             new == IF sym[o] = "none" \/ t = "base" THEN slot[o] ELSE t
  <2>1. /\ slot' = [slot EXCEPT ![o] = new]
        /\ copied' = IF sym[o] = "copy" THEN <<x, times[x] > 0>> ELSE copied
        /\ times' = [times EXCEPT ![o] = times[o] + 1] /\ next' = next + 1
        /\ UNCHANGED <<dependencies, sym, phase, stack, loaded, override>>
        /\ next <= Len(L!Order)
    BY <1>2 DEF L!relocate_object, L!files
  <2>2. /\ Len(loaded) \in Nat \ {0} /\ Len(L!Order) = Len(loaded)
        /\ L!Order[Len(loaded)] = Main
        /\ \A j \in 1..(Len(loaded) - 1) : j + 1 \in 1..Len(loaded) /\ L!Order[j] = loaded[j + 1]
        /\ \A j \in 1..Len(loaded) : L!Order[j] \in L!Objects
        /\ \A i, j \in 1..Len(loaded) : L!Order[i] = L!Order[j] => i = j
        /\ \A u : u \in L!Range(loaded) <=> \E j \in 1..Len(loaded) : L!Order[j] = u
    BY <1>0, OrderFacts
  <2>3. next \in 1..Len(loaded) /\ o \in L!Objects
    BY <1>0, <2>1, <2>2 DEF L!TypeOK
  <2>4. /\ L!Order' = L!Order /\ L!lookup_symbol(Main)' = L!lookup_symbol(Main)
        /\ L!Values' = L!Values
    BY <2>1 DEF L!lookup_symbol, L!Scope, L!HasValue, L!Order, L!Values
  <2>5. new \in L!Objects \cup {"lazy", "null"}
    BY <1>0, <2>3, LdNames DEF L!Target, L!TypeOK
  <2>6. sym[o] = "und" => new = slot[o]
    BY <1>0, <2>3 DEF L!Target, L!SymbolIsOne, L!HasValue
  <2>7. override /\ sym[o] # "none" => new = Main
    BY <1>0, LdNames DEF L!Target
  <2>7a. ~override /\ L!Imports(o) => new = slot[o]
    BY DEF L!Target, L!Imports, L!HasValue
  <2>7b. sym[o] = "plt" => new = o
    <3>1. sym[o] = "plt" => t = o /\ t # "base"
      BY <1>0, <2>3, LdNames DEF L!Target, L!HasValue, L!SymbolIsOne
    <3> QED
      BY <3>1
  <2>8. times[o] = 0
    <3>1. \A j \in 1..Len(loaded) : times[L!Order[j]] = IF j < next THEN 1 ELSE 0
      BY <1>0 DEF L!RelocatesInOrder
    <3> QED
      BY <2>3, <3>1
  <2>9. sym[o] = "copy" => times[x] > 0
    <3> SUFFICES ASSUME sym[o] = "copy"
                 PROVE  times[x] > 0
      OBVIOUS
    <3>1. o = Main
      BY <1>0, <2>3, LdNames DEF L!SymbolIsOne
    <3>2. next = Len(loaded)
      BY <2>2, <2>3, <3>1
    <3>3. L!lookup_symbol(Main) # "none"
      BY <1>0, <3>1 DEF L!RelocatesInOrder
    <3>4. PICK i \in 1..Len(loaded) : loaded[i] = L!lookup_symbol(Main) /\ loaded[i] # Main
      BY <1>0, <3>3, LookupFacts
    <3>5. i # 1
      BY <1>0, <3>4 DEF L!LoadsWhatIsNeeded
    <3>6. i - 1 \in 1..(Len(loaded) - 1) /\ i - 1 \in 1..Len(loaded) /\ (i - 1) + 1 = i /\ i - 1 < next
      BY <2>2, <3>2, <3>5
    <3>7. L!Order[i - 1] = loaded[(i - 1) + 1]
      BY <2>2, <3>6
    <3>8. L!Order[i - 1] = x
      BY <3>1, <3>4, <3>6, <3>7
    <3>9. times[L!Order[i - 1]] = 1
      BY <1>0, <3>6 DEF L!RelocatesInOrder
    <3> QED
      BY <3>8, <3>9
  <2> HIDE DEF o, t, x, new
  <2>10. /\ slot' \in [L!Objects -> L!Objects \cup {"lazy", "null"}] /\ slot'[o] = new
         /\ \A u \in L!Objects : u # o => slot'[u] = slot[u]
    BY <1>0, <2>1, <2>3, <2>5 DEF L!TypeOK
  <2>11. /\ times' \in [L!Objects -> Nat] /\ times'[o] = 1
         /\ \A u \in L!Objects : u # o => times'[u] = times[u]
    BY <1>0, <2>1, <2>3, <2>8 DEF L!TypeOK
  <2>12. L!TypeOK'
    BY <1>0, <2>1, <2>10, <2>11 DEF L!TypeOK
  <2>13. L!SymbolIsOne'
    BY <1>0, <2>1 DEF L!SymbolIsOne
  <2>14. L!LoadsWhatIsNeeded'
    BY <1>0, <2>1 DEF L!LoadsWhatIsNeeded, L!Closed
  <2>15. L!RelocatesInOrder'
    <3>1. ASSUME NEW j \in 1..Len(loaded)
          PROVE  /\ times'[L!Order[j]] = IF j < next' THEN 1 ELSE 0
                 /\ j < next' /\ override /\ sym[L!Order[j]] # "none" => slot'[L!Order[j]] = Main
      <4>1. CASE j = next
        <5>1. j < next' /\ L!Order[j] = o
          BY <2>1, <2>3, <4>1 DEF o
        <5> QED
          BY <2>7, <2>10, <2>11, <5>1
      <4>2. CASE j # next
        <5>1. L!Order[j] # o /\ L!Order[j] \in L!Objects
          BY <2>2, <2>3, <4>2 DEF o
        <5>2. j < next' <=> j < next
          BY <2>1, <2>3, <4>2
        <5>3. /\ times[L!Order[j]] = IF j < next THEN 1 ELSE 0
              /\ j < next /\ override /\ sym[L!Order[j]] # "none" => slot[L!Order[j]] = Main
          BY <1>0 DEF L!RelocatesInOrder
        <5> QED
          BY <2>10, <2>11, <5>1, <5>2, <5>3
      <4> QED
        BY <4>1, <4>2
    <3>2. sym[Main] = "copy" => L!lookup_symbol(Main) # "none"
      BY <1>0 DEF L!RelocatesInOrder
    <3> QED
      BY <1>0, <2>1, <2>4, <3>1, <3>2 DEF L!RelocatesInOrder
  <2>16. L!CallsAreFirst'
    <3>1. \A u \in L!Objects : sym[u] = "und" => slot'[u] = slot[u]
      BY <2>6, <2>10
    <3> QED
      BY <1>0, <2>1, <3>1 DEF L!CallsAreFirst
  <2>17. L!CopyIsRelocated'
    <3>1. CASE sym[o] = "copy"
      <4>1. copied' = <<x, TRUE>>
        BY <2>1, <2>9, <3>1
      <4> QED
        BY <4>1 DEF L!CopyIsRelocated
    <3>2. CASE sym[o] # "copy"
      BY <1>0, <2>1, <3>2 DEF L!CopyIsRelocated
    <3> QED
      BY <3>1, <3>2
  <2>18. L!EntriesAreSet'
    <3>1. \A u \in L!Objects : ~L!Bound(u)'
      BY <1>0, <2>1, <2>16 DEF L!CallsAreFirst, L!Bound
    <3>2. ~override => \A u \in L!Objects : L!Imports(u) => slot'[u] = "null"
      BY <1>0, <2>10, <2>7a DEF L!EntriesAreSet
    <3>3. ASSUME sym[Main] = "plt", next' > Len(loaded)
          PROVE  slot'[Main] = Main
      <4>1. next = Len(loaded)
        BY <2>1, <2>2, <2>3, <3>3
      <4>2. o = Main
        BY <2>2, <4>1 DEF o
      <4> QED
        BY <2>10, <2>7b, <3>3, <4>2
    <3> QED
      BY <1>0, <2>1, <3>1, <3>2, <3>3 DEF L!EntriesAreSet, L!Imports
  <2> QED
    BY <1>0, <2>1, <2>12, <2>13, <2>14, <2>15, <2>16, <2>17, <2>18
    DEF L!LdInv, L!RelocatedOnce, L!OneVariable
<1> QED
  BY <1>1, <1>2

LEMMA LdRelocated ==
  ASSUME L!LdInv, L!relocated
  PROVE  L!LdInv'
<1>0. /\ L!TypeOK /\ L!SymbolIsOne /\ L!LoadsWhatIsNeeded /\ L!RelocatesInOrder
      /\ L!CallsAreFirst /\ L!EntriesAreSet /\ L!CopyIsRelocated
  BY DEF L!LdInv
<1>1. /\ phase = "relocate" /\ next > Len(L!Order) /\ phase' = "init" /\ next' = 1
      /\ UNCHANGED <<dependencies, sym, stack, loaded, override, slot, copied, times>>
  BY DEF L!relocated, L!files
<1>2. /\ Len(L!Order) = Len(loaded) /\ Len(loaded) \in Nat
      /\ \A u : u \in L!Range(loaded) <=> \E j \in 1..Len(loaded) : L!Order[j] = u
  BY <1>0, OrderFacts
<1>3. ASSUME NEW u \in L!Range(loaded)
      PROVE  times[u] = 1 /\ (override /\ sym[u] # "none" => slot[u] = Main)
  <2>1. PICK j \in 1..Len(loaded) : L!Order[j] = u
    BY <1>2
  <2>2. j < next
    BY <1>0, <1>1, <1>2 DEF L!TypeOK
  <2> QED
    BY <1>0, <1>1, <2>1, <2>2 DEF L!RelocatesInOrder
<1>4. L!TypeOK'
  BY <1>0, <1>1 DEF L!TypeOK
<1>5. L!SymbolIsOne' /\ L!RelocatesInOrder' /\ L!CopyIsRelocated'
  BY <1>0, <1>1 DEF L!SymbolIsOne, L!RelocatesInOrder, L!CopyIsRelocated
<1>6. L!LoadsWhatIsNeeded'
  BY <1>0, <1>1 DEF L!LoadsWhatIsNeeded, L!Closed
<1>7. L!CallsAreFirst'
  BY <1>0, <1>1 DEF L!CallsAreFirst
<1>8. L!RelocatedOnce' /\ L!OneVariable'
  <2>1. \A u : u \in L!Range(loaded) => u \in L!Objects
    BY <1>0, LoadedFacts
  <2> QED
    BY <1>0, <1>1, <1>3, <2>1 DEF L!RelocatedOnce, L!OneVariable, L!EntriesAreSet, L!Imports
<1>9. L!EntriesAreSet'
  BY <1>0, <1>1, <1>2 DEF L!EntriesAreSet, L!Bound, L!Imports
<1> QED
  BY <1>4, <1>5, <1>6, <1>7, <1>8, <1>9 DEF L!LdInv

(* Once all is relocated, only the entries of imported functions change.   *)
LEMMA LdRuns ==
  ASSUME L!LdInv, phase \in {"init", "run"}, phase' \in {"init", "run", "hung"},
         UNCHANGED <<dependencies, sym, stack, loaded, override, copied, times>>,
         next' \in Nat \ {0},
         slot' \in [L!Objects -> L!Objects \cup {"lazy", "null"}],
         \A u \in L!Objects : slot'[u] = slot[u] \/
            (/\ sym[u] = "und" /\ L!Values # {} /\ slot'[u] = loaded[L!Min(L!Values)]
             /\ phase' # "hung" => sym[slot'[u]] = "def"),
         phase' = "hung" => sym[Main] = "plt"
  PROVE  L!LdInv'
<1>0. /\ L!TypeOK /\ L!SymbolIsOne /\ L!LoadsWhatIsNeeded /\ L!RelocatesInOrder
      /\ L!CallsAreFirst /\ L!EntriesAreSet /\ L!CopyIsRelocated /\ L!RelocatedOnce /\ L!OneVariable
  BY DEF L!LdInv
<1>1. L!TypeOK'
  BY <1>0 DEF L!TypeOK
<1>2. L!SymbolIsOne' /\ L!RelocatesInOrder' /\ L!CopyIsRelocated' /\ L!RelocatedOnce'
  BY <1>0 DEF L!SymbolIsOne, L!RelocatesInOrder, L!CopyIsRelocated, L!RelocatedOnce
<1>3. L!LoadsWhatIsNeeded'
  BY <1>0 DEF L!LoadsWhatIsNeeded, L!Closed
<1>4. L!CallsAreFirst'
  <2>1. L!Values' = L!Values
    BY DEF L!Values, L!HasValue
  <2> QED
    BY <1>0, <2>1 DEF L!CallsAreFirst
<1>5. L!OneVariable'
  <2>1. \A u : u \in L!Range(loaded) => u \in L!Objects
    BY <1>0, LoadedFacts
  <2>2. override => \A u \in L!Objects : slot'[u] = slot[u]
    BY <1>0 DEF L!SymbolIsOne
  <2> QED
    BY <1>0, <2>1, <2>2 DEF L!OneVariable, L!Imports
<1>6. L!EntriesAreSet'
  <2>1. sym[Main] = "plt" => slot'[Main] = Main
    BY <1>0, LdNames DEF L!EntriesAreSet
  <2>2. ~override => \A u \in L!Objects : L!Imports(u) => slot'[u] = "null"
    BY <1>0 DEF L!EntriesAreSet, L!Imports
  <2>3. phase' # "hung" => \A u \in L!Objects : sym[u] = "und" /\ slot'[u] # "lazy" => sym[slot'[u]] = "def"
    BY <1>0 DEF L!EntriesAreSet, L!Bound
  <2> QED
    BY <2>1, <2>2, <2>3 DEF L!EntriesAreSet, L!Bound, L!Imports
<1> QED
  BY <1>1, <1>2, <1>3, <1>4, <1>5, <1>6 DEF L!LdInv

LEMMA NextLd ==
  ASSUME L!LdInv, L!Next
  PROVE  L!LdInv'
<1>0. L!TypeOK /\ L!SymbolIsOne /\ L!EntriesAreSet
  BY DEF L!LdInv
<1>1. CASE L!load_object
  BY <1>1, LdLoad
<1>2. CASE L!load_fails
  BY <1>2, LdExit DEF L!load_fails
<1>3. CASE L!relocate_copies
  BY <1>3, LdCopies
<1>4. CASE L!relocate_object
  BY <1>4, LdRelocate
<1>5. CASE L!relocated
  BY <1>5, LdRelocated
<1>6. CASE L!init_object
  <2>1. /\ phase = "init" /\ phase' \in {"init", "run"} /\ next' \in Nat \ {0}
        /\ UNCHANGED <<dependencies, sym, stack, loaded, override, slot, copied, times>>
    BY <1>0, <1>6 DEF L!init_object, L!files, L!TypeOK
  <2> QED
    BY <1>0, <2>1, LdRuns DEF L!TypeOK
<1>7. ASSUME NEW o \in L!Objects, L!resolve_symbol(o)
      PROVE  L!LdInv'
  <2>1. CASE L!lookup_symbol(o) = "none"
    BY <1>7, <2>1, LdExit DEF L!resolve_symbol
  <2>2. CASE L!lookup_symbol(o) # "none"
    <3> DEFINE t == L!lookup_symbol(o)
    <3>1. phase' = IF sym[t] = "plt" /\ slot[t] = t THEN "hung" ELSE phase
      BY <1>7, <2>2 DEF L!resolve_symbol
    <3>2. L!HasValue(t)
      BY <1>0, <2>2, LookupFacts
    <3>3. /\ sym[o] = "und" /\ phase \in {"init", "run"} /\ phase' \in {phase, "hung"}
          /\ slot' = [slot EXCEPT ![o] = t]
          /\ UNCHANGED <<dependencies, sym, stack, loaded, override, next, copied, times>>
      BY <1>7, <2>2 DEF L!resolve_symbol, L!files
    <3>4. t \in L!Objects /\ L!Values # {} /\ t = loaded[L!Min(L!Values)]
      BY <1>0, <2>2, <3>3, LookupFacts, LoadedFacts
    <3> HIDE DEF t
    <3>5. /\ slot' \in [L!Objects -> L!Objects \cup {"lazy", "null"}] /\ slot'[o] = t
          /\ \A u \in L!Objects : u # o => slot'[u] = slot[u]
      BY <1>0, <3>3, <3>4 DEF L!TypeOK
    <3>6. next' \in Nat \ {0} /\ phase' \in {"init", "run", "hung"}
      BY <1>0, <3>3 DEF L!TypeOK
    <3>7. sym[t] = "plt" => t = Main /\ slot[t] = t
      BY <1>0, <3>3, <3>4, LdNames DEF L!SymbolIsOne, L!EntriesAreSet
    <3>8. sym[t] # "copy"
      BY <1>0, <3>3, <3>4, LdNames DEF L!SymbolIsOne
    <3>9. /\ phase' # "hung" => sym[t] = "def"
          /\ phase' = "hung" => sym[Main] = "plt"
      BY <3>3, <3>1, <3>2, <3>7, <3>8 DEF L!HasValue
    <3> QED
      BY <3>3, <3>4, <3>5, <3>6, <3>9, LdRuns
  <2> QED
    BY <2>1, <2>2
<1>8. ASSUME NEW o \in L!Objects, L!Call(o)
      PROVE  L!LdInv'
  <2>1. /\ phase \in {"init", "run"} /\ phase' = "hung" /\ sym[Main] = "plt"
        /\ UNCHANGED <<dependencies, sym, stack, loaded, override, next, slot, copied, times>>
    BY <1>8 DEF L!Call, L!files
  <2> QED
    BY <1>0, <2>1, LdRuns DEF L!TypeOK
<1> QED
  BY <1>1, <1>2, <1>3, <1>4, <1>5, <1>6, <1>7, <1>8 DEF L!Next

LEMMA LdPromises ==
  ASSUME L!LdInv
  PROVE  L!LoadedOnce /\ L!RelocatedOnce /\ L!OneVariable /\ L!CopyIsRelocated /\ L!CallsAgree
<1>0. L!TypeOK /\ L!LoadsWhatIsNeeded /\ L!CallsAreFirst /\ L!EntriesAreSet
  BY DEF L!LdInv
<1>1. L!LoadedOnce
  <2>1. L!IsInjective(loaded)
    BY <1>0 DEF L!LoadsWhatIsNeeded
  <2>2. ASSUME phase \notin {"load", "exit"}
        PROVE  L!Range(loaded) = L!Reached
    <3>1. stack = << >>
      BY <1>0, <2>2 DEF L!LoadsWhatIsNeeded
    <3>2. L!Closed(L!Range(loaded))
      <4>1. DOMAIN stack = {}
        BY <3>1
      <4> QED
        BY <1>0, <4>1 DEF L!LoadsWhatIsNeeded, L!Closed
    <3>3. L!Range(loaded) \subseteq L!Objects /\ Main \in L!Range(loaded)
      <4>1. loaded # << >> /\ loaded \in Seq(L!Objects) /\ loaded[1] = Main
        BY <1>0 DEF L!LoadsWhatIsNeeded, L!TypeOK
      <4>2. 1 \in 1..Len(loaded)
        BY <4>1
      <4> QED
        BY <1>0, <4>1, <4>2, LoadedFacts
    <3>4. \A X \in SUBSET L!Objects : Main \in X /\ L!Closed(X) => L!Range(loaded) \subseteq X
      BY <1>0 DEF L!LoadsWhatIsNeeded
    <3> QED
      BY <3>2, <3>3, <3>4 DEF L!Reached
  <2> QED
    BY <2>1, <2>2 DEF L!LoadedOnce
<1>2. L!CallsAgree
  <2>1. \A u : u \in L!Range(loaded) => u \in L!Objects
    BY <1>0, LoadedFacts
  <2> QED
    BY <1>0, <2>1 DEF L!CallsAgree, L!CallsAreFirst, L!EntriesAreSet, L!Bound
<1> QED
  BY <1>1, <1>2 DEF L!LdInv

LEMMA LdAlways == Spec => [](part = "ld" => L!LdInv)
<1> DEFINE Inv == part = "ld" => L!LdInv
<1>1. Init => Inv
  BY InitLd DEF Init
<1>2. Inv /\ [Next]_vars => Inv'
  <2> SUFFICES ASSUME Inv, [Next]_vars
               PROVE  Inv'
    OBVIOUS
  <2>1. CASE part # "ld"
    BY <2>1 DEF Next, vars
  <2>2. CASE part = "ld" /\ Next
    BY <2>2, NextLd DEF Next
  <2>3. CASE part = "ld" /\ UNCHANGED vars
    <3>1. /\ UNCHANGED <<dependencies, sym, phase, stack, loaded, override, next, slot, copied, times>>
          /\ L!LdInv
      BY <2>3 DEF vars, ldVars
    <3>2. /\ L!TypeOK' /\ L!SymbolIsOne' /\ L!RelocatedOnce' /\ L!OneVariable' /\ L!CopyIsRelocated'
          /\ L!EntriesAreSet'
      <4>1. L!TypeOK' /\ L!SymbolIsOne' /\ L!RelocatedOnce' /\ L!CopyIsRelocated'
        BY <3>1 DEF L!LdInv, L!TypeOK, L!SymbolIsOne, L!RelocatedOnce, L!CopyIsRelocated
      <4>2. L!OneVariable' /\ L!EntriesAreSet'
        BY <3>1 DEF L!LdInv, L!OneVariable, L!EntriesAreSet, L!Bound, L!Imports
      <4> QED
        BY <4>1, <4>2
    <3>3. L!LoadsWhatIsNeeded'
      BY <3>1 DEF L!LdInv, L!LoadsWhatIsNeeded, L!Closed
    <3>4. L!lookup_symbol(Main)' = L!lookup_symbol(Main) /\ L!Order' = L!Order /\ L!Values' = L!Values
      BY <3>1 DEF L!lookup_symbol, L!Scope, L!HasValue, L!Order, L!Values
    <3>5. L!RelocatesInOrder' /\ L!CallsAreFirst'
      BY <3>1, <3>4 DEF L!LdInv, L!RelocatesInOrder, L!CallsAreFirst
    <3> QED
      BY <3>2, <3>3, <3>5 DEF L!LdInv
  <2> QED
    BY <2>1, <2>2, <2>3
<1> QED
  BY <1>1, <1>2, PTL DEF Spec

(* Linking is consistent, for any modules, libraries and dependencies.  A  *)
(* reference of a module to a variable stays in the file only if it comes  *)
(* before the header of the section, and no module uses what another one   *)
(* defines.  The dynamic linker loads exactly what the program needs,      *)
(* cycles or not, and relocates it once.  A variable copied into the       *)
(* program is the one all use, with a relocated value; without a copy,     *)
(* each library that imports the variable has a null entry for it.  All    *)
(* that import a function are bound to the same loaded definition, unless  *)
(* the program uses the function's address: then its entry leads to itself *)
(* and a call hangs.  The last needs to know what the entry of the program *)
(* holds from its relocation on (EntriesAreSet).                           *)
THEOREM LinkingStaysConsistent == Spec => []LinkingIsConsistent
<1>1. E!ModuleInv => E!VariablesAreMemory /\ E!ModulesAreApart
  <2> SUFFICES ASSUME E!ModuleInv
               PROVE  E!ModulesAreApart
    BY DEF E!ModuleInv
  <2>1. \A m \in Mods : refs[m] \in Seq(E!Refs \X {"kernel", "file", "memory"})
    BY DEF E!ModuleInv, E!TypeOK
  <2>2. \A m \in Mods : \A i \in DOMAIN refs[m] : refs[m][i] \in E!Refs \X {"kernel", "file", "memory"}
    BY <2>1
  <2> QED
    BY <2>2 DEF E!ModulesAreApart
<1>2. (part = "module" => E!ModuleInv) /\ (part = "ld" => L!LdInv) => LinkingIsConsistent
  BY <1>1, LdPromises DEF LinkingIsConsistent
<1> QED
  BY <1>2, ModuleAlways, LdAlways, PTL

(***************************************************************************)
(* The shell                                                               *)
(***************************************************************************)

(* What a line opens, without the streams it forgets, is what is closed at *)
(* its end.                                                                *)
LEMMA LineFiles ==
  ASSUME NEW l \in Lines
  PROVE  /\ l.outs \in Nat /\ l.ins \in Nat /\ l.ext \in BOOLEAN /\ l.bg \in BOOLEAN
         /\ Sh!Extra(l.outs) \in Int /\ Sh!Extra(l.ins) \in Int /\ Sh!Closed(l) \in Int
         /\ l.outs + l.ins = Sh!Extra(l.outs) + Sh!Extra(l.ins) + Sh!Closed(l)
<1>1. l \in [ext : BOOLEAN, bg : BOOLEAN, outs : Nat, ins : Nat]
  BY SystemAssumption DEF Sh!ShellAssumption
<1>2. l.outs \in Nat /\ l.ins \in Nat /\ l.ext \in BOOLEAN /\ l.bg \in BOOLEAN
  BY <1>1
<1> QED
  BY <1>2 DEF Sh!Extra, Sh!Closed

LEMMA InitShell == Sh!Init => Sh!ShellInv
<1> SUFFICES ASSUME Sh!Init PROVE Sh!ShellInv
  OBVIOUS
<1>1. << >> \in Seq(Lines)
  OBVIOUS
<1>2. [c \in Children |-> "none"] \in [Children -> {"none", "run", "zombie"}]
  OBVIOUS
<1>3. Sh!TypeOK
  <2>1. script \in Seq(Lines)
    BY <1>1 DEF Sh!Init
  <2>2. proc \in [Children -> {"none", "run", "zombie"}]
    BY <1>2 DEF Sh!Init
  <2>3. sh_interrupted \in BOOLEAN /\ pending \in BOOLEAN /\ hit \in BOOLEAN
    BY DEF Sh!Init
  <2>4. status = 0 /\ files = 0 /\ leaked = 0 /\ begun = 0 /\ sh_keys = 0
        /\ sh_pc = "prompt" /\ fg = "shell" /\ child = "none"
    BY DEF Sh!Init
  <2> QED
    BY <2>1, <2>2, <2>3, <2>4 DEF Sh!TypeOK
<1>4. Sh!LineIsThere /\ Sh!TerminalIsLent
  BY DEF Sh!Init, Sh!LineIsThere, Sh!TerminalIsLent
<1>5. Sh!FilesAreCounted
  BY DEF Sh!Init, Sh!FilesAreCounted
<1>6. Sh!InterruptIsKept
  BY DEF Sh!Init, Sh!InterruptIsKept
<1> QED
  BY <1>3, <1>4, <1>5, <1>6 DEF Sh!ShellInv

(* execute_line up to the fork.                                            *)
LEMMA ShellLine ==
  ASSUME Sh!ShellInv, Sh!ExecuteLine
  PROVE  Sh!ShellInv'
<1>0. Sh!TypeOK /\ Sh!LineIsThere /\ Sh!TerminalIsLent /\ Sh!FilesAreCounted /\ Sh!InterruptIsKept
  BY DEF Sh!ShellInv
<1>1. sh_pc = "line" /\ UNCHANGED <<script, sh_interrupted, pending, fg, hit, sh_keys>>
  BY DEF Sh!ExecuteLine
<1>2. CASE script = << >>
  <2>1. sh_pc' = "prompt" /\ UNCHANGED <<status, proc, child, files, leaked, begun>>
    BY <1>2 DEF Sh!ExecuteLine, Sh!fileVars
  <2> QED
    BY <1>0, <1>1, <1>2, <2>1 DEF Sh!ShellInv, Sh!TypeOK, Sh!LineIsThere, Sh!TerminalIsLent,
       Sh!FilesAreCounted, Sh!InterruptIsKept
<1>3. CASE script # << >>
  <2> DEFINE l == script[1]
  <2>1. Sh!Command(l) /\ l \in Lines
    BY <1>0, <1>3 DEF Sh!ExecuteLine, Sh!TypeOK
  <2> HIDE DEF l
  <2>2. /\ files' = files + l.outs + l.ins
        /\ leaked' = leaked + Sh!Extra(l.outs) + Sh!Extra(l.ins)
        /\ begun' = IF hit THEN begun + 1 ELSE begun
        /\ sh_pc' = (IF l.ext THEN "forked" ELSE "close") /\ status' \in {0, 1}
    BY <2>1, LineFiles DEF Sh!Command
  <2>3. /\ proc' \in [Children -> {"none", "run", "zombie"}] /\ child' \in Children \cup {"none"}
        /\ l.ext => child' \in Children
    BY <1>0, <2>1 DEF Sh!Command, Sh!TypeOK
  <2>4. files' \in Int /\ leaked' \in Int /\ files' = leaked' + Sh!Closed(l)
    <3>1. files = leaked /\ files \in Int
      BY <1>0, <1>1 DEF Sh!TypeOK, Sh!FilesAreCounted
    <3>2. /\ l.outs \in Nat /\ l.ins \in Nat
          /\ Sh!Extra(l.outs) \in Int /\ Sh!Extra(l.ins) \in Int /\ Sh!Closed(l) \in Int
          /\ l.outs + l.ins = Sh!Extra(l.outs) + Sh!Extra(l.ins) + Sh!Closed(l)
      BY <2>1, LineFiles
    <3> QED
      BY <2>2, <3>1, <3>2
  <2>5. begun' \in Nat /\ begun' <= 1 /\ (~hit => begun' = 0)
    BY <1>0, <1>1, <2>2 DEF Sh!TypeOK, Sh!InterruptIsKept
  <2>6. Sh!TypeOK'
    BY <1>0, <1>1, <2>2, <2>3, <2>4, <2>5 DEF Sh!TypeOK
  <2>7. Sh!FilesAreCounted'
    BY <1>1, <2>2, <2>4 DEF Sh!FilesAreCounted, l
  <2>8. Sh!LineIsThere' /\ Sh!TerminalIsLent'
    BY <1>0, <1>1, <1>3, <2>2, <2>3 DEF Sh!LineIsThere, Sh!TerminalIsLent
  <2>9. Sh!InterruptIsKept'
    BY <1>0, <1>1, <2>2, <2>5 DEF Sh!InterruptIsKept
  <2> QED
    BY <2>6, <2>7, <2>8, <2>9 DEF Sh!ShellInv
<1> QED
  BY <1>2, <1>3

(* Every step of the shell, its children and its terminal.                 *)
LEMMA NextShell ==
  ASSUME Sh!ShellInv, Sh!Next
  PROVE  Sh!ShellInv'
<1>0. Sh!TypeOK /\ Sh!LineIsThere /\ Sh!TerminalIsLent /\ Sh!FilesAreCounted /\ Sh!InterruptIsKept
  BY DEF Sh!ShellInv
<1>a. Children \cap {"none", "shell"} = {}
  BY SystemAssumption DEF Sh!ShellAssumption
<1>1. CASE Sh!Read
  <2>1. sh_pc = "prompt" /\ sh_pc' = "typed"
        /\ UNCHANGED <<status, sh_interrupted, pending, fg, proc, child, files, leaked, begun, hit, sh_keys>>
    BY <1>1 DEF Sh!Read, Sh!fileVars, Sh!hist
  <2>2. script' \in Seq(Lines)
    <3>1. PICK s \in UNION {[1..n -> Lines] : n \in 1..MaxLines} : script' = s
      BY <1>1 DEF Sh!Read
    <3>2. PICK n \in 1..MaxLines : s \in [1..n -> Lines]
      BY <3>1
    <3>3. n \in Nat
      BY SystemAssumption DEF Sh!ShellAssumption
    <3> QED
      BY <3>1, <3>2, <3>3
  <2> QED
    BY <1>0, <2>1, <2>2 DEF Sh!ShellInv, Sh!TypeOK, Sh!LineIsThere, Sh!TerminalIsLent,
       Sh!FilesAreCounted, Sh!InterruptIsKept
<1>2. CASE Sh!Typed
  BY <1>0, <1>2 DEF Sh!Typed, Sh!fileVars, Sh!hist, Sh!ShellInv, Sh!TypeOK, Sh!LineIsThere,
     Sh!TerminalIsLent, Sh!FilesAreCounted, Sh!InterruptIsKept
<1>3. CASE Sh!Start
  <2>1. /\ sh_pc = "start" /\ sh_pc' = "line" /\ sh_interrupted' = FALSE
        /\ begun' = 0 /\ hit' = FALSE
        /\ UNCHANGED <<script, status, pending, fg, proc, child, files, leaked, sh_keys>>
    BY <1>3 DEF Sh!Start, Sh!fileVars
  <2>2. Sh!TypeOK'
    BY <1>0, <2>1 DEF Sh!TypeOK
  <2>3. Sh!LineIsThere' /\ Sh!TerminalIsLent' /\ Sh!FilesAreCounted'
    BY <1>0, <2>1 DEF Sh!LineIsThere, Sh!TerminalIsLent, Sh!FilesAreCounted
  <2>4. Sh!InterruptIsKept'
    BY <2>1 DEF Sh!InterruptIsKept
  <2> QED
    BY <2>2, <2>3, <2>4 DEF Sh!ShellInv
<1>4. CASE Sh!Forked
  <2>1. script[1] \in Lines
    BY <1>0, <1>4 DEF Sh!Forked, Sh!TypeOK, Sh!LineIsThere
  <2> QED
    BY <1>0, <1>4, <2>1, LineFiles DEF Sh!Forked, Sh!fileVars, Sh!hist, Sh!ShellInv, Sh!TypeOK,
       Sh!LineIsThere, Sh!TerminalIsLent, Sh!FilesAreCounted, Sh!InterruptIsKept
<1>5. CASE Sh!Wait
  <2>1. /\ sh_pc = "wait" /\ sh_pc' = "back" /\ status' \in {0, 1}
        /\ proc[child] = "zombie" /\ child \in Children
        /\ proc' = [proc EXCEPT ![child] = "none"]
        /\ UNCHANGED <<script, sh_interrupted, pending, fg, child, files, leaked, begun, hit, sh_keys>>
    BY <1>0, <1>5 DEF Sh!Wait, Sh!Waited, Sh!fileVars, Sh!hist, Sh!TerminalIsLent, Sh!TypeOK
  <2>2. Sh!TypeOK' /\ proc'[child] = "none"
    BY <1>0, <2>1 DEF Sh!TypeOK
  <2> QED
    BY <1>0, <2>1, <2>2 DEF Sh!ShellInv, Sh!LineIsThere, Sh!TerminalIsLent, Sh!FilesAreCounted,
       Sh!InterruptIsKept
<1>6. CASE Sh!Back
  BY <1>0, <1>6 DEF Sh!Back, Sh!Foreground, Sh!fileVars, Sh!hist, Sh!ShellInv, Sh!TypeOK,
     Sh!LineIsThere, Sh!TerminalIsLent, Sh!FilesAreCounted, Sh!InterruptIsKept
<1>7. CASE Sh!Close
  <2>1. script[1] \in Lines
    BY <1>0, <1>7 DEF Sh!Close, Sh!TypeOK, Sh!LineIsThere
  <2>2. Sh!Closed(script[1]) \in Int
    BY <2>1, LineFiles
  <2> QED
    BY <1>0, <1>7, <2>2 DEF Sh!Close, Sh!hist, Sh!ShellInv, Sh!TypeOK,
       Sh!LineIsThere, Sh!TerminalIsLent, Sh!FilesAreCounted, Sh!InterruptIsKept
<1>8. CASE Sh!Check
  <2>1. script' \in Seq(Lines)
    <3>1. script \in Seq(Lines) /\ script # << >>
      BY <1>0, <1>8 DEF Sh!Check, Sh!TypeOK, Sh!LineIsThere
    <3>2. Tail(script) \in Seq(Lines) /\ << >> \in Seq(Lines)
      BY <3>1
    <3> QED
      BY <1>8, <3>2 DEF Sh!Check
  <2>2. /\ sh_pc = "check" /\ sh_pc' = (IF Sh!Stops THEN "prompt" ELSE "line")
        /\ UNCHANGED <<status, sh_interrupted, pending, fg, proc, child, files, leaked, begun, hit, sh_keys>>
    BY <1>8 DEF Sh!Check, Sh!fileVars, Sh!hist
  <2> QED
    BY <1>0, <2>1, <2>2 DEF Sh!Stops, Sh!ShellInv, Sh!TypeOK, Sh!LineIsThere, Sh!TerminalIsLent,
       Sh!FilesAreCounted, Sh!InterruptIsKept
<1>9. CASE Sh!Handler
  <2>1. /\ sh_pc # "wait" /\ pending' = FALSE /\ sh_interrupted' = TRUE
        /\ hit' = (hit \/ sh_pc \in {"line", "forked", "back", "close", "check"})
        /\ sh_pc' = IF sh_pc = "prompt" THEN "typed" ELSE sh_pc
        /\ script' = IF sh_pc = "prompt" THEN << >> ELSE script
        /\ UNCHANGED <<status, fg, proc, child, files, leaked, begun, sh_keys>>
    BY <1>9 DEF Sh!Handler, Sh!fileVars
  <2>2. Sh!TypeOK'
    <3>1. << >> \in Seq(Lines)
      OBVIOUS
    <3> QED
      BY <1>0, <2>1, <3>1 DEF Sh!TypeOK
  <2>3. Sh!LineIsThere' /\ Sh!TerminalIsLent' /\ Sh!FilesAreCounted'
    BY <1>0, <2>1 DEF Sh!LineIsThere, Sh!TerminalIsLent, Sh!FilesAreCounted
  <2>4. Sh!InterruptIsKept'
    BY <1>0, <2>1 DEF Sh!InterruptIsKept, Sh!TypeOK
  <2> QED
    BY <2>2, <2>3, <2>4 DEF Sh!ShellInv
<1>10. CASE Sh!Key
  <2>1. /\ sh_keys' = sh_keys + 1
        /\ UNCHANGED <<sh_pc, script, status, sh_interrupted, fg, child, files, leaked, begun, hit>>
        /\ pending' \in BOOLEAN
        /\ proc' \in [Children -> {"none", "run", "zombie"}]
        /\ \A c \in Children : proc'[c] = "run" => proc[c] = "run"
    BY <1>0, <1>10 DEF Sh!Key, Sh!fileVars, Sh!hist, Sh!TypeOK
  <2> QED
    BY <1>0, <2>1 DEF Sh!ShellInv, Sh!TypeOK, Sh!LineIsThere, Sh!TerminalIsLent,
       Sh!FilesAreCounted, Sh!InterruptIsKept
<1>11. ASSUME NEW c \in Children, Sh!Exit(c)
       PROVE  Sh!ShellInv'
  BY <1>0, <1>11 DEF Sh!Exit, Sh!fileVars, Sh!hist, Sh!ShellInv, Sh!TypeOK, Sh!LineIsThere,
     Sh!TerminalIsLent, Sh!FilesAreCounted, Sh!InterruptIsKept
<1> QED
  BY <1>1, <1>2, <1>3, <1>4, <1>5, <1>6, <1>7, <1>8, <1>9, <1>10, <1>11, ShellLine DEF Sh!Next

(* For any lines, children and keys: at its prompt the shell has the       *)
(* terminal and no redirection open that it could close; a command that    *)
(* has the terminal is waited for; after an interrupt a script begins at   *)
(* most one more line (user/scsh).  The last follows because the mark the  *)
(* handler leaves stays until the shell looks at it.                       *)
THEOREM ShellStaysInControl == Spec => []ShellIsInControl
<1> DEFINE Inv == part = "shell" => Sh!ShellInv
<1>1. Init => Inv
  BY InitShell DEF Init
<1>2. Inv /\ [Next]_vars => Inv'
  <2> SUFFICES ASSUME Inv, [Next]_vars
               PROVE  Inv'
    OBVIOUS
  <2>1. CASE part # "shell"
    BY <2>1 DEF Next, vars
  <2>2. CASE part = "shell" /\ Next
    BY <2>2, NextShell DEF Next
  <2>3. CASE part = "shell" /\ UNCHANGED vars
    BY <2>3 DEF vars, shVars, Sh!ShellInv, Sh!TypeOK, Sh!LineIsThere, Sh!TerminalIsLent,
       Sh!FilesAreCounted, Sh!InterruptIsKept
  <2> QED
    BY <2>1, <2>2, <2>3
<1>3. Inv => ShellIsInControl
  BY DEF ShellIsInControl, Sh!ShellInv, Sh!TypeOK, Sh!TerminalIsLent, Sh!FilesAreCounted,
     Sh!InterruptIsKept, Sh!AtPrompt, Sh!PromptIsForeground, Sh!ForegroundIsWaitedFor,
     Sh!InterruptStops, Sh!FilesAreClosed
<1> QED
  BY <1>1, <1>2, <1>3, PTL DEF Spec

(***************************************************************************)
(* The sleep queue                                                         *)
(***************************************************************************)
LEMMA SleepCounts == \A T : Q!Cardinality(T) = Cardinality(T) /\ (Q!IsFiniteSet(T) <=> IsFiniteSet(T))
  BY DEF Q!Cardinality, Cardinality, Q!IsFiniteSet, IsFiniteSet

LEMMA NodesAreFinite == /\ IsFiniteSet(SleepNodes) /\ Cardinality(SleepNodes) \in Nat
                        /\ Q!Steps = Cardinality(SleepNodes) + 1 /\ Q!Steps \in Nat \ {0}
                        /\ None \notin SleepNodes
<1>1. IsFiniteSet(SleepNodes) /\ None \notin SleepNodes
  BY SystemAssumption, SleepCounts DEF Q!SleepQueueAssumption
<1>2. Cardinality(SleepNodes) \in Nat
  BY <1>1, FS_CardinalityType
<1> QED
  BY <1>1, <1>2, SleepCounts DEF Q!Steps

(* One step of the walk over the nodes of the queue.                       *)
LEMMA ChainSteps ==
  \A k \in 1..Q!Steps : Q!Chain[k] = IF k = 1 THEN sleep_queue ELSE node[Q!Chain[k - 1]].next
<1> DEFINE Walk(f, m) == [k \in 1..m |-> IF k = 1 THEN sleep_queue ELSE node[f[k - 1]].next]
           X == {m \in 1..Q!Steps : ~ \E f : f = Walk(f, m)}
<1>1. \E f : f = Walk(f, Q!Steps)
  <2>1. X = {}
    <3> SUFFICES ASSUME X # {} PROVE FALSE
      OBVIOUS
    <3>1. PICK m \in X : \A t \in X : m <= t
      <4>1. X \subseteq Nat
        BY NodesAreFinite
      <4> QED
        BY <4>1, LeastElement
    <3>2. m \in 1..Q!Steps /\ m \in Nat /\ ~ \E f : f = Walk(f, m)
      BY <3>1, NodesAreFinite
    <3>3. CASE m = 1
      <4> DEFINE f == [k \in 1..1 |-> sleep_queue]
      <4>1. f = Walk(f, 1)
        OBVIOUS
      <4> QED
        BY <3>2, <3>3, <4>1
    <3>4. CASE m # 1
      <4>a. m - 1 \in 1..Q!Steps /\ ~(m <= m - 1)
        BY <3>2, <3>4, NodesAreFinite
      <4>b. m - 1 \notin X
        <5> HIDE DEF X
        <5> QED
          BY <3>1, <4>a
      <4>1. m - 1 \in 1..Q!Steps /\ m - 1 \notin X
        BY <4>a, <4>b
      <4>2. PICK g : g = Walk(g, m - 1)
        BY <4>1
      <4> DEFINE f == Walk(g, m)
      <4>3. \A k \in 1..(m - 1) : g[k] = IF k = 1 THEN sleep_queue ELSE node[g[k - 1]].next
        BY <4>2
      <4>4. \A k \in 1..m : f[k] = IF k = 1 THEN sleep_queue ELSE node[g[k - 1]].next
        OBVIOUS
      <4>5. \A k \in 1..(m - 1) : f[k] = g[k]
        BY <3>2, <4>3, <4>4
      <4>6. \A k \in 1..m : k # 1 => f[k - 1] = g[k - 1]
        <5> HIDE DEF f
        <5>1. \A k \in 1..m : k # 1 => k - 1 \in 1..(m - 1)
          BY <3>2
        <5> QED
          BY <4>5, <5>1
      <4>7. f = Walk(f, m)
        <5>1. f = [k \in 1..m |-> IF k = 1 THEN sleep_queue ELSE node[g[k - 1]].next]
          OBVIOUS
        <5> HIDE DEF f
        <5>2. \A k \in 1..m : (IF k = 1 THEN sleep_queue ELSE node[g[k - 1]].next)
                              = (IF k = 1 THEN sleep_queue ELSE node[f[k - 1]].next)
          BY <4>6
        <5> QED
          BY <5>1, <5>2
      <4> QED
        BY <3>2, <4>7
    <3> QED
      BY <3>3, <3>4
  <2>2. Q!Steps \in 1..Q!Steps
    BY NodesAreFinite
  <2> QED
    BY <2>1, <2>2
<1>2. Q!Chain = Walk(Q!Chain, Q!Steps)
  BY <1>1 DEF Q!Chain
<1> HIDE DEF Walk
<1>3. \A f : \A k \in 1..Q!Steps : Walk(f, Q!Steps)[k] = IF k = 1 THEN sleep_queue ELSE node[f[k - 1]].next
  BY DEF Walk
<1> QED
  BY <1>2, <1>3

(* There are no more nodes in a list than nodes.                           *)
LEMMA ListFits ==
  ASSUME NEW n \in Nat, NEW q \in [1..n -> SleepNodes],
         \A i, j \in 1..n : q[i] = q[j] => i = j
  PROVE  n \in 0..Cardinality(SleepNodes)
<1>1. q \in Injection(1..n, SleepNodes)
  BY DEF Injection, IsInjective
<1>2. Cardinality(1..n) = n
  BY FS_Interval
<1>3. Cardinality(1..n) <= Cardinality(SleepNodes)
  BY <1>1, NodesAreFinite, FS_Injection
<1> QED
  BY <1>2, <1>3, NodesAreFinite

(* A walk over a list meets its nodes and then Null.                       *)
LEMMA ChainIsList ==
  ASSUME NEW n \in 0..Cardinality(SleepNodes), NEW q \in [1..n -> SleepNodes], Q!Linked(n, q)
  PROVE  /\ n + 1 \in 1..Q!Steps
         /\ \A k \in 1..n : k \in 1..Q!Steps /\ Q!Chain[k] = q[k]
         /\ Q!Chain[n + 1] = None
<1>1. n \in Nat /\ n + 1 \in 1..Q!Steps /\ \A k \in 1..n : k \in 1..Q!Steps
  BY NodesAreFinite
<1>2. /\ sleep_queue = IF n = 0 THEN None ELSE q[1]
      /\ \A i \in 1..n : node[q[i]].next = IF i = n THEN None ELSE q[i + 1]
  BY DEF Q!Linked
<1> DEFINE X == {k \in 1..n : Q!Chain[k] # q[k]}
<1>3. X = {}
  <2> SUFFICES ASSUME X # {} PROVE FALSE
    OBVIOUS
  <2>1. PICK k \in X : \A t \in X : k <= t
    <3>1. X \subseteq Nat
      BY <1>1
    <3> QED
      BY <3>1, LeastElement
  <2>2. k \in 1..n /\ k \in 1..Q!Steps /\ Q!Chain[k] # q[k]
    BY <1>1, <2>1
  <2>3. CASE k = 1
    <3>1. Q!Chain[1] = sleep_queue
      BY <2>2, <2>3, ChainSteps
    <3> QED
      BY <1>1, <1>2, <2>2, <2>3, <3>1
  <2>4. CASE k # 1
    <3>1. k - 1 \in 1..n /\ k - 1 \notin X
      BY <1>1, <2>1, <2>2, <2>4
    <3>2. Q!Chain[k - 1] = q[k - 1]
      BY <3>1
    <3>3. Q!Chain[k] = node[q[k - 1]].next
      BY <2>2, <2>4, <3>2, ChainSteps
    <3>4. node[q[k - 1]].next = q[k]
      <4>1. k - 1 # n /\ (k - 1) + 1 = k
        BY <1>1, <2>2
      <4> QED
        BY <1>2, <3>1, <4>1
    <3> QED
      BY <2>2, <3>3, <3>4
  <2> QED
    BY <2>3, <2>4
<1>4. \A k \in 1..n : Q!Chain[k] = q[k]
  BY <1>3
<1>5. Q!Chain[n + 1] = None
  <2>1. CASE n = 0
    BY <1>1, <1>2, <2>1, ChainSteps
  <2>2. CASE n # 0
    <3>1. n \in 1..n /\ n + 1 # 1 /\ (n + 1) - 1 = n
      BY <1>1, <2>2
    <3>2. Q!Chain[n + 1] = node[Q!Chain[n]].next
      BY <1>1, <3>1, ChainSteps
    <3> QED
      BY <1>2, <1>4, <3>1, <3>2
  <2> QED
    BY <2>1, <2>2
<1> QED
  BY <1>1, <1>4, <1>5

(* Where a walk stops that may stop at the places `ends'.                  *)
LEMMA WalkStops ==
  ASSUME NEW n \in Nat, NEW ends, ends \subseteq 1..Q!Steps, n + 1 \in ends
  PROVE  LET k == IF ends = {} THEN 0 ELSE CHOOSE k \in ends : \A j \in ends : k <= j
         IN  /\ k \in 1..(n + 1) /\ k \in ends
             /\ \A j \in 1..(n + 1) : j < k => j \notin ends
<1> DEFINE k == CHOOSE k \in ends : \A j \in ends : k <= j
<1>1. ends \subseteq Nat
  BY NodesAreFinite
<1>2. \E m \in ends : \A j \in ends : m <= j
  BY <1>1, LeastElement
<1>3. k \in ends /\ \A j \in ends : k <= j
  BY <1>2
<1> HIDE DEF k
<1>4. k \in 1..(n + 1)
  BY <1>3, NodesAreFinite
<1>5. \A j \in 1..(n + 1) : j < k => j \notin ends
  BY <1>3, <1>4
<1>6. ends # {}
  OBVIOUS
<1> QED
  BY <1>3, <1>4, <1>5, <1>6 DEF k

LEMMA InitSleep == Q!Init => Q!SleepInv
<1> SUFFICES ASSUME Q!Init PROVE Q!SleepInv
  OBVIOUS
<1>1. /\ now = 0 /\ sleep_queue = None /\ live = {} /\ sleep_hung = FALSE /\ ticked = FALSE
      /\ node = [n \in SleepNodes \cup {None} |-> [proc |-> None, due |-> 0, next |-> None]]
      /\ timer = [p \in Sleepers |-> None]
  BY DEF Q!Init
<1>2. Q!TypeOK
  BY <1>1 DEF Q!TypeOK
<1> DEFINE q == [i \in 1..0 |-> None]
<1>3. q \in [1..0 -> SleepNodes] /\ 0 \in 0..Cardinality(SleepNodes)
  BY NodesAreFinite
<1>4. Q!Linked(0, q) /\ Q!Sleeping(0, q)
  BY <1>1 DEF Q!Linked, Q!Sleeping
<1> HIDE DEF q
<1> QED
  BY <1>1, <1>2, <1>3, <1>4, SleepCounts DEF Q!SleepInv

(* k_proc_process_sleep: the new node is linked in behind those that are   *)
(* due later.                                                              *)
LEMMA SleepInserts ==
  ASSUME Q!SleepInv, NEW p \in Sleepers, NEW d \in Delays, NEW x \in SleepNodes, Q!sleep(p, d, x)
  PROVE  Q!SleepInv'
<1> SUFFICES ASSUME ~later' PROVE Q!TypeOK' /\ ~sleep_hung' /\
      \E n \in 0..Cardinality(SleepNodes) : \E q \in [1..n -> SleepNodes] :
         Q!Linked(n, q)' /\ Q!Sleeping(n, q)'
  BY SleepCounts DEF Q!SleepInv
<1> DEFINE due == now + d
           ends == {k \in 1..Q!Steps : Q!Chain[k] = None \/ ~(node[Q!Chain[k]].due > due)}
           k == IF ends = {} THEN 0 ELSE CHOOSE k \in ends : \A j \in ends : k <= j
           new(nx) == [proc |-> p, due |-> due, next |-> nx]
           prev == IF k = 1 THEN sleep_queue ELSE Q!Chain[k - 1]
<1>1. /\ ~sleep_hung /\ timer[p] = None /\ x \notin live /\ ticked' = FALSE /\ now' = now
      /\ IF k = 0 THEN sleep_hung' = TRUE /\ UNCHANGED <<sleep_queue, node, live, timer, later>>
         ELSE /\ live' = live \cup {x} /\ timer' = [timer EXCEPT ![p] = x]
              /\ later' = (later \/ (sleep_queue # None /\ node[sleep_queue].due <= due))
              /\ IF sleep_queue = None
                 THEN sleep_queue' = x /\ node' = [node EXCEPT ![x] = new(None)]
                 ELSE node' = [node EXCEPT ![x] = new(Q!Chain[k]), ![prev].next = x] /\ UNCHANGED sleep_queue
              /\ UNCHANGED sleep_hung
  BY DEF Q!sleep, Q!Stop, Q!Past
<1>2. ~later
  BY <1>1
<1>3. Q!TypeOK
  BY <1>2 DEF Q!SleepInv
<1>4. PICK n \in 0..Cardinality(SleepNodes) : \E q \in [1..n -> SleepNodes] :
         Q!Linked(n, q) /\ Q!Sleeping(n, q)
  BY <1>2, SleepCounts DEF Q!SleepInv
<1>5. PICK q \in [1..n -> SleepNodes] : Q!Linked(n, q) /\ Q!Sleeping(n, q)
  BY <1>4
<1>6. /\ n + 1 \in 1..Q!Steps /\ n \in Nat
      /\ \A i \in 1..n : i \in 1..Q!Steps /\ Q!Chain[i] = q[i]
      /\ Q!Chain[n + 1] = None
  BY <1>5, ChainIsList, NodesAreFinite
<1>7. k \in 1..(n + 1) /\ k \in ends /\ \A j \in 1..(n + 1) : j < k => j \notin ends
  <2>1. ends \subseteq 1..Q!Steps /\ n + 1 \in ends
    BY <1>6
  <2> HIDE DEF ends
  <2> QED
    BY <1>6, <2>1, WalkStops
<1>8. due \in Nat /\ d \in Nat
  BY <1>3, SystemAssumption DEF Q!TypeOK, Q!SleepQueueAssumption
<1>9. /\ \A j \in 1..n : j < k => node[q[j]].due > due
      /\ k # n + 1 => k \in 1..n /\ node[q[k]].due <= due
  <2>0. \A j \in 1..n : q[j] \in SleepNodes /\ node[q[j]].due \in Nat /\ q[j] # None
    BY <1>3, NodesAreFinite DEF Q!TypeOK
  <2>1. \A j \in 1..n : j < k => ~(Q!Chain[j] = None \/ ~(node[Q!Chain[j]].due > due))
    BY <1>6, <1>7
  <2>2. Q!Chain[k] = None \/ ~(node[Q!Chain[k]].due > due)
    BY <1>7
  <2> HIDE DEF k, ends, due
  <2>3. k # n + 1 => k \in 1..n
    BY <1>6, <1>7
  <2> QED
    BY <1>6, <1>8, <2>0, <2>1, <2>2, <2>3
<1>10. /\ live' = live \cup {x} /\ timer' = [timer EXCEPT ![p] = x] /\ UNCHANGED sleep_hung
       /\ sleep_queue # None => node[sleep_queue].due > due
       /\ IF sleep_queue = None
          THEN sleep_queue' = x /\ node' = [node EXCEPT ![x] = new(None)]
          ELSE node' = [node EXCEPT ![x] = new(Q!Chain[k]), ![prev].next = x] /\ UNCHANGED sleep_queue
  <2>1. k # 0
    <3> HIDE DEF k
    <3> QED  BY <1>6, <1>7
  <2>2. sleep_queue # None => sleep_queue \in SleepNodes
    <3>1. n # 0 => q[1] \in SleepNodes
      BY <1>6
    <3>2. sleep_queue = IF n = 0 THEN None ELSE q[1]
      BY <1>5 DEF Q!Linked
    <3> QED
      BY <3>1, <3>2
  <2>3. sleep_queue # None => node[sleep_queue].due \in Int
    BY <1>3, <2>2 DEF Q!TypeOK
  <2> HIDE DEF k, due, new, prev
  <2>4. /\ live' = live \cup {x} /\ timer' = [timer EXCEPT ![p] = x] /\ UNCHANGED sleep_hung
        /\ later' = (later \/ (sleep_queue # None /\ node[sleep_queue].due <= due))
        /\ IF sleep_queue = None
           THEN sleep_queue' = x /\ node' = [node EXCEPT ![x] = new(None)]
           ELSE node' = [node EXCEPT ![x] = new(Q!Chain[k]), ![prev].next = x] /\ UNCHANGED sleep_queue
    BY <1>1, <2>1
  <2>5. ~(sleep_queue # None /\ node[sleep_queue].due <= due)
    BY <2>4
  <2>6. due \in Int
    BY <1>8
  <2>7. sleep_queue # None => node[sleep_queue].due > due
    BY <2>3, <2>5, <2>6
  <2> QED
    BY <2>4, <2>7
<1> HIDE DEF k, ends, due
<1>11. \A i \in 1..n : q[i] \in SleepNodes /\ q[i] # None /\ q[i] # x /\ node[q[i]].due \in Nat
  BY <1>1, <1>3, <1>5, NodesAreFinite DEF Q!TypeOK, Q!Sleeping
<1>12. /\ sleep_queue = IF n = 0 THEN None ELSE q[1]
       /\ \A i \in 1..n : node[q[i]].next = IF i = n THEN None ELSE q[i + 1]
       /\ \A i, j \in 1..n : q[i] = q[j] => i = j
  BY <1>5 DEF Q!Linked
<1>13. n # 0 => k - 1 \in 1..n /\ sleep_queue # None /\ node[q[1]].due > due
  <2> SUFFICES ASSUME n # 0 PROVE k - 1 \in 1..n /\ sleep_queue # None /\ node[q[1]].due > due
    OBVIOUS
  <2>1. 1 \in 1..n /\ sleep_queue = q[1] /\ q[1] # None
    BY <1>6, <1>11, <1>12
  <2>2. node[q[1]].due > due
    BY <1>10, <2>1
  <2>3. k # 1
    <3> SUFFICES ASSUME k = 1 PROVE FALSE
      OBVIOUS
    <3>1. k # n + 1
      BY <1>6
    <3>2. node[q[1]].due <= due
      BY <1>9, <3>1
    <3> QED
      BY <1>8, <1>11, <2>1, <2>2, <3>2
  <2> QED
    BY <1>6, <1>7, <2>1, <2>2, <2>3
<1>14. n = 0 => k = 1 /\ sleep_queue = None
  BY <1>7, <1>12
<1>15. Q!Chain[k] = IF k = n + 1 THEN None ELSE q[k]
  BY <1>6, <1>9
<1>16. x \in SleepNodes \cup {None} /\ Q!Chain[k] \in SleepNodes \cup {None}
  BY <1>9, <1>15
<1> DEFINE Rec == [proc : Sleepers \cup {None}, due : Nat, next : SleepNodes \cup {None}]
<1>17. /\ node' \in [SleepNodes \cup {None} -> Rec]
       /\ \A m \in SleepNodes \cup {None} :
            /\ node'[m].proc = IF m = x THEN p ELSE node[m].proc
            /\ node'[m].due = IF m = x THEN due ELSE node[m].due
            /\ node'[m].next = IF m = x THEN Q!Chain[k]
                               ELSE IF n # 0 /\ m = q[k - 1] THEN x ELSE node[m].next
  <2>0. node \in [SleepNodes \cup {None} -> Rec]
    BY <1>3 DEF Q!TypeOK
  <2>1. CASE n = 0
    <3>1. node' = [node EXCEPT ![x] = [proc |-> p, due |-> due, next |-> None]] /\ Q!Chain[k] = None
      BY <1>10, <1>14, <1>15, <2>1
    <3>2. [proc |-> p, due |-> due, next |-> None] \in Rec
      BY <1>8
    <3> QED
      BY <2>0, <2>1, <3>1, <3>2
  <2>2. CASE n # 0
    <3> DEFINE new1 == [proc |-> p, due |-> due, next |-> Q!Chain[k]]
               y == q[k - 1]
    <3>1. k # 1 /\ k - 1 \in 1..n /\ Q!Chain[k - 1] = y /\ y \in SleepNodes /\ y # x
      BY <1>6, <1>11, <1>13, <1>7, <2>2
    <3>2. node' = [node EXCEPT ![x] = new1, ![y].next = x]
      BY <1>10, <1>13, <2>2, <3>1
    <3>3. new1 \in Rec
      BY <1>8, <1>16
    <3> HIDE DEF y, new1
    <3>4. \A m \in SleepNodes \cup {None} :
            node'[m] = IF m = x THEN new1 ELSE IF m = y THEN [node[m] EXCEPT !.next = x] ELSE node[m]
      BY <2>0, <3>1, <3>2
    <3>5. \A m \in SleepNodes \cup {None} : [node[m] EXCEPT !.next = x] \in Rec
      BY <2>0
    <3>6. node' \in [SleepNodes \cup {None} -> Rec]
      <4> HIDE DEF Rec
      <4>1. \A m \in SleepNodes \cup {None} : node'[m] \in Rec
        BY <2>0, <3>3, <3>4, <3>5
      <4>2. node' = [m \in SleepNodes \cup {None} |-> node'[m]]
        BY <2>0, <3>2
      <4> QED
        BY <4>1, <4>2
    <3>7. \A m \in SleepNodes \cup {None} :
            /\ [node[m] EXCEPT !.next = x].proc = node[m].proc
            /\ [node[m] EXCEPT !.next = x].due = node[m].due
            /\ [node[m] EXCEPT !.next = x].next = x
      BY <2>0
    <3>8. new1.proc = p /\ new1.due = due /\ new1.next = Q!Chain[k]
      BY DEF new1
    <3> QED
      BY <2>2, <3>1, <3>4, <3>6, <3>7, <3>8 DEF y
  <2> QED
    BY <2>1, <2>2
<1>18. Q!TypeOK'
  <2>1. now' \in Nat /\ live' \subseteq SleepNodes /\ ticked' \in BOOLEAN
        /\ timer' \in [Sleepers -> SleepNodes \cup {None}]
    BY <1>1, <1>3, <1>10 DEF Q!TypeOK
  <2> QED
    BY <1>17, <2>1 DEF Q!TypeOK
<1> DEFINE q1 == [j \in 1..(n + 1) |-> IF j < k THEN q[j] ELSE IF j = k THEN x ELSE q[j - 1]]
           src(j) == IF j < k THEN j ELSE j - 1
<1>19. /\ \A j \in 1..(n + 1) : j # k => src(j) \in 1..n
       /\ \A j \in 1..(n + 1) : q1[j] = IF j = k THEN x ELSE q[src(j)]
       /\ q1[k] = x
  BY <1>6, <1>7
<1>20. q1 \in [1..(n + 1) -> SleepNodes]
  BY <1>11, <1>19
<1>21. \A i, j \in 1..(n + 1) : q1[i] = q1[j] => i = j
  <2> SUFFICES ASSUME NEW i \in 1..(n + 1), NEW j \in 1..(n + 1), q1[i] = q1[j] PROVE i = j
    OBVIOUS
  <2>1. CASE i = k \/ j = k
    BY <1>11, <1>19, <2>1
  <2>2. CASE i # k /\ j # k
    <3>1. src(i) = src(j)
      BY <1>12, <1>19, <2>2
    <3> QED
      BY <1>6, <1>7, <2>2, <3>1
  <2> QED
    BY <2>1, <2>2
<1>22. n + 1 \in 0..Cardinality(SleepNodes)
  <2> HIDE DEF q1
  <2> QED  BY <1>6, <1>20, <1>21, ListFits
<1> HIDE DEF q1
<1>23. PICK z \in [1..(n + 1) -> SleepNodes] : z = q1
  BY <1>20
<1>25. /\ \A j \in 1..(n + 1) : j # k => src(j) \in 1..n
       /\ \A j \in 1..(n + 1) : z[j] = IF j = k THEN x ELSE q[src(j)]
       /\ z[k] = x
  BY <1>19, <1>23
<1>26. \A i, j \in 1..(n + 1) : z[i] = z[j] => i = j
  BY <1>21, <1>23
<1>27. Q!Linked(n + 1, z)'
  <2>1. sleep_queue' = z[1]
    <3>1. CASE n = 0
      BY <1>10, <1>14, <1>25, <3>1
    <3>2. CASE n # 0
      <4>1. 1 \in 1..(n + 1) /\ 1 < k /\ sleep_queue' = q[1]
        BY <1>6, <1>7, <1>10, <1>12, <1>13, <3>2
      <4> QED
        BY <1>25, <4>1
    <3> QED
      BY <3>1, <3>2
  <2>2. ASSUME NEW i \in 1..(n + 1)
        PROVE  node'[z[i]].next = IF i = n + 1 THEN None ELSE z[i + 1]
    <3>1. CASE i = k
      <4>1. node'[z[i]].next = Q!Chain[k]
        BY <1>17, <1>25, <3>1
      <4>2. k # n + 1 => k + 1 \in 1..(n + 1) /\ src(k + 1) = k /\ k + 1 # k
        BY <1>6, <1>7
      <4> QED
        BY <1>15, <1>25, <3>1, <4>1, <4>2
    <3>2. CASE i # k
      <4>1. src(i) \in 1..n /\ z[i] = q[src(i)] /\ q[src(i)] # x /\ q[src(i)] \in SleepNodes
        BY <1>11, <1>25, <3>2
      <4>2. CASE i = k - 1
        <5>1. n # 0 /\ i + 1 = k /\ i # n + 1 /\ src(i) = k - 1
          BY <1>6, <1>7, <4>1, <4>2
        <5> QED
          BY <1>17, <1>25, <4>1, <5>1
      <4>3. CASE i # k - 1
        <5>1. src(i) # k - 1 /\ (n # 0 => q[src(i)] # q[k - 1])
          <6>1. src(i) # k - 1
            BY <1>6, <1>7, <3>2, <4>3
          <6> QED
            BY <1>12, <1>13, <4>1, <6>1
        <5>2. node'[z[i]].next = IF src(i) = n THEN None ELSE q[src(i) + 1]
          <6>1. node'[q[src(i)]].next = node[q[src(i)]].next
            BY <1>17, <4>1, <5>1
          <6> QED
            BY <1>12, <4>1, <6>1
        <5>3. src(i) = n <=> i = n + 1
          BY <1>6, <1>7, <3>2, <4>3
        <5>4. i # n + 1 => i + 1 \in 1..(n + 1) /\ i + 1 # k /\ src(i + 1) = src(i) + 1
          BY <1>6, <1>7, <3>2, <4>3
        <5> QED
          BY <1>25, <5>2, <5>3, <5>4
      <4> QED
        BY <4>2, <4>3
    <3> QED
      BY <3>1, <3>2
  <2>3. n + 1 # 0
    BY <1>6
  <2> QED
    BY <1>26, <2>1, <2>2, <2>3 DEF Q!Linked
<1>28. Q!Sleeping(n + 1, z)'
  <2>0. /\ \A i \in 1..n : q[i] \in live /\ node[q[i]].proc \in Sleepers /\ timer[node[q[i]].proc] = q[i]
        /\ \A r \in Sleepers : timer[r] # None => node[timer[r]].proc = r /\ \E i \in 1..n : q[i] = timer[r]
        /\ \A i, j \in 1..n : i <= j => node[q[i]].due >= node[q[j]].due
    BY <1>5 DEF Q!Sleeping
  <2>1. \A r \in Sleepers : timer'[r] = IF r = p THEN x ELSE timer[r]
    BY <1>3, <1>10 DEF Q!TypeOK
  <2>2. \A i \in 1..n : node'[q[i]].proc = node[q[i]].proc /\ node'[q[i]].due = node[q[i]].due
    BY <1>11, <1>17
  <2>3. node'[x].proc = p /\ node'[x].due = due
    BY <1>16, <1>17
  <2>4. ASSUME NEW i \in 1..(n + 1)
        PROVE  z[i] \in live' /\ node'[z[i]].proc \in Sleepers /\ timer'[node'[z[i]].proc] = z[i]
    <3>1. CASE i = k
      BY <1>10, <1>25, <2>1, <2>3, <3>1
    <3>2. CASE i # k
      <4>1. src(i) \in 1..n /\ z[i] = q[src(i)]
        BY <1>25, <3>2
      <4>2. node[q[src(i)]].proc # p
        BY <1>1, <1>11, <2>0, <4>1
      <4> QED
        BY <1>10, <2>0, <2>1, <2>2, <4>1, <4>2
    <3> QED
      BY <3>1, <3>2
  <2>5. ASSUME NEW r \in Sleepers, timer'[r] # None
        PROVE  node'[timer'[r]].proc = r /\ \E i \in 1..(n + 1) : z[i] = timer'[r]
    <3>1. CASE r = p
      BY <1>7, <1>25, <2>1, <2>3, <3>1
    <3>2. CASE r # p
      <4>1. PICK i \in 1..n : q[i] = timer[r]
        BY <2>0, <2>1, <2>5, <3>2
      <4> DEFINE j == IF i < k THEN i ELSE i + 1
      <4>2. j \in 1..(n + 1) /\ j # k /\ src(j) = i
        BY <1>6, <1>7
      <4>3. z[j] = q[i]
        BY <1>25, <4>2
      <4> QED
        BY <2>0, <2>1, <2>2, <2>5, <3>2, <4>1, <4>2, <4>3
    <3> QED
      BY <3>1, <3>2
  <2>6. ASSUME NEW i \in 1..(n + 1), NEW j \in 1..(n + 1), i <= j
        PROVE  node'[z[i]].due >= node'[z[j]].due
    <3>1. CASE i = k /\ j = k
      BY <1>8, <1>25, <2>3, <3>1
    <3>2. CASE i = k /\ j # k
      <4>1. src(j) \in 1..n /\ k \in 1..n /\ k <= src(j)
        BY <1>6, <1>7, <2>6, <3>2
      <4>2. k # n + 1
        BY <1>6, <4>1
      <4>3. node[q[k]].due >= node[q[src(j)]].due /\ node[q[k]].due <= due
        BY <1>9, <2>0, <4>1, <4>2
      <4>4. node'[z[i]].due = due /\ node'[z[j]].due = node[q[src(j)]].due
        BY <1>25, <2>2, <2>3, <3>2, <4>1
      <4>5. node[q[k]].due \in Nat /\ node[q[src(j)]].due \in Nat
        BY <1>11, <4>1
      <4> QED
        BY <1>8, <4>3, <4>4, <4>5
    <3>3. CASE i # k /\ j = k
      <4>1. src(i) \in 1..n /\ src(i) < k
        BY <1>6, <1>7, <1>25, <2>6, <3>3
      <4>2. node'[z[i]].due = node[q[src(i)]].due /\ node'[z[j]].due = due
        BY <1>25, <2>2, <2>3, <3>3, <4>1
      <4>3. node[q[src(i)]].due > due /\ node[q[src(i)]].due \in Nat
        BY <1>9, <1>11, <4>1
      <4> QED
        BY <1>8, <4>2, <4>3
    <3>4. CASE i # k /\ j # k
      <4>1. src(i) \in 1..n /\ src(j) \in 1..n /\ src(i) <= src(j)
        BY <1>6, <1>7, <1>25, <2>6, <3>4
      <4> QED
        BY <1>25, <2>0, <2>2, <3>4, <4>1
    <3> QED
      BY <3>1, <3>2, <3>3, <3>4
  <2>7. ~ticked'
    BY <1>1
  <2> QED
    BY <2>4, <2>5, <2>6, <2>7 DEF Q!Sleeping
<1>29. ~sleep_hung'
  BY <1>1, <1>10
<1> QED
  BY <1>18, <1>22, <1>27, <1>28, <1>29

(* __k_proc_process_remove_from_sleep_queue takes out the node of p alone.  *)
LEMMA SleepRemoves ==
  ASSUME Q!SleepInv, NEW p \in Sleepers, Q!wakeup(p)
  PROVE  Q!SleepInv'
<1> SUFFICES ASSUME ~later' PROVE Q!TypeOK' /\ ~sleep_hung' /\
      \E n \in 0..Cardinality(SleepNodes) : \E q \in [1..n -> SleepNodes] :
         Q!Linked(n, q)' /\ Q!Sleeping(n, q)'
  BY SleepCounts DEF Q!SleepInv
<1> DEFINE t == timer[p]
           ends == {k \in 1..Q!Steps : Q!Chain[k] = None \/ ~(Q!Chain[k] # t)}
           stop == IF ends = {} THEN 0 ELSE CHOOSE k \in ends : \A j \in ends : k <= j
<1>1. /\ ~sleep_hung /\ t # None /\ ticked' = FALSE /\ now' = now /\ later' = later
      /\ IF stop = 0 THEN sleep_hung' = TRUE /\ UNCHANGED <<sleep_queue, node, live, timer>>
         ELSE /\ live' = live \ {t} /\ timer' = [timer EXCEPT ![p] = None]
              /\ IF Q!Chain[stop] = None THEN UNCHANGED <<sleep_queue, node>>
                 ELSE IF stop = 1 THEN sleep_queue' = node[t].next /\ UNCHANGED node
                 ELSE node' = [node EXCEPT ![Q!Chain[stop - 1]].next = node[t].next] /\ UNCHANGED sleep_queue
              /\ UNCHANGED sleep_hung
  BY DEF Q!wakeup, Q!Stop
<1>2. ~later
  BY <1>1
<1>3. Q!TypeOK
  BY <1>2 DEF Q!SleepInv
<1>4. PICK n \in 0..Cardinality(SleepNodes) : \E q \in [1..n -> SleepNodes] :
         Q!Linked(n, q) /\ Q!Sleeping(n, q)
  BY <1>2, SleepCounts DEF Q!SleepInv
<1>5. PICK q \in [1..n -> SleepNodes] : Q!Linked(n, q) /\ Q!Sleeping(n, q)
  BY <1>4
<1>6. /\ n + 1 \in 1..Q!Steps /\ n \in Nat
      /\ \A i \in 1..n : i \in 1..Q!Steps /\ Q!Chain[i] = q[i]
      /\ Q!Chain[n + 1] = None
  BY <1>5, ChainIsList, NodesAreFinite
<1>7. stop \in 1..(n + 1) /\ stop \in ends /\ \A j \in 1..(n + 1) : j < stop => j \notin ends
  <2>1. ends \subseteq 1..Q!Steps /\ n + 1 \in ends
    BY <1>6
  <2> HIDE DEF ends
  <2> QED
    BY <1>6, <2>1, WalkStops
<1>8. PICK k \in 1..(n + 1) : k = stop
  <2> HIDE DEF stop, ends
  <2> QED  BY <1>7
<1>9. /\ sleep_queue = IF n = 0 THEN None ELSE q[1]
      /\ \A i \in 1..n : node[q[i]].next = IF i = n THEN None ELSE q[i + 1]
      /\ \A i, j \in 1..n : q[i] = q[j] => i = j
  BY <1>5 DEF Q!Linked
<1>10. /\ \A i \in 1..n : q[i] \in live /\ node[q[i]].proc \in Sleepers /\ timer[node[q[i]].proc] = q[i]
       /\ \A r \in Sleepers : timer[r] # None => node[timer[r]].proc = r /\ \E i \in 1..n : q[i] = timer[r]
       /\ \A i, j \in 1..n : i <= j => node[q[i]].due >= node[q[j]].due
  BY <1>5 DEF Q!Sleeping
<1>11. \A i \in 1..n : q[i] \in SleepNodes /\ q[i] # None
  BY NodesAreFinite
<1>12. k \in 1..n /\ q[k] = t
  <2>1. PICK i \in 1..n : q[i] = t
    BY <1>1, <1>10
  <2>2. i \in ends
    BY <1>6, <2>1
  <2>3. ~(i < k) /\ k \in ends
    <3> HIDE DEF ends, stop
    <3>1. i \in 1..(n + 1)
      BY <1>6
    <3> QED  BY <1>7, <1>8, <2>2, <3>1
  <2>4. k \in 1..n
    BY <1>6, <2>1, <2>3
  <2>5. Q!Chain[k] = None \/ ~(Q!Chain[k] # t)
    BY <2>3
  <2> QED
    BY <1>6, <1>11, <2>4, <2>5
<1> HIDE DEF stop, ends, t
<1>13. /\ live' = live \ {t} /\ timer' = [timer EXCEPT ![p] = None] /\ UNCHANGED sleep_hung
       /\ IF k = 1 THEN sleep_queue' = node[q[k]].next /\ UNCHANGED node
          ELSE node' = [node EXCEPT ![q[k - 1]].next = node[q[k]].next] /\ UNCHANGED sleep_queue
  <2>1. k # 0 /\ Q!Chain[k] # None /\ (k # 1 => k - 1 \in 1..n)
    BY <1>6, <1>11, <1>12
  <2>2. k # 1 => Q!Chain[k - 1] = q[k - 1]
    BY <1>6, <2>1
  <2> QED
    BY <1>1, <1>8, <1>12, <2>1, <2>2
<1> DEFINE Rec == [proc : Sleepers \cup {None}, due : Nat, next : SleepNodes \cup {None}]
<1>14. node[q[k]].next = (IF k = n THEN None ELSE q[k + 1]) /\ node[q[k]].next \in SleepNodes \cup {None}
  BY <1>3, <1>9, <1>11, <1>12 DEF Q!TypeOK
<1>15. /\ node' \in [SleepNodes \cup {None} -> Rec]
       /\ \A m \in SleepNodes \cup {None} :
            /\ node'[m].proc = node[m].proc /\ node'[m].due = node[m].due
            /\ node'[m].next = IF k # 1 /\ m = q[k - 1] THEN node[q[k]].next ELSE node[m].next
  <2>0. node \in [SleepNodes \cup {None} -> Rec]
    BY <1>3 DEF Q!TypeOK
  <2>1. CASE k = 1
    BY <1>13, <2>0, <2>1
  <2>2. CASE k # 1
    <3> DEFINE y == q[k - 1]
               s == node[q[k]].next
    <3>1. y \in SleepNodes /\ s \in SleepNodes \cup {None} /\ node' = [node EXCEPT ![y].next = s]
      BY <1>11, <1>12, <1>13, <1>14, <2>2
    <3> HIDE DEF y, s
    <3>2. \A m \in SleepNodes \cup {None} :
            node'[m] = IF m = y THEN [node[m] EXCEPT !.next = s] ELSE node[m]
      BY <2>0, <3>1
    <3>3. \A m \in SleepNodes \cup {None} :
            /\ [node[m] EXCEPT !.next = s] \in Rec
            /\ [node[m] EXCEPT !.next = s].proc = node[m].proc
            /\ [node[m] EXCEPT !.next = s].due = node[m].due
            /\ [node[m] EXCEPT !.next = s].next = s
      BY <2>0, <3>1
    <3>4. node' \in [SleepNodes \cup {None} -> Rec]
      <4> HIDE DEF Rec
      <4>1. \A m \in SleepNodes \cup {None} : node'[m] \in Rec
        BY <2>0, <3>2, <3>3
      <4>2. node' = [m \in SleepNodes \cup {None} |-> node'[m]]
        BY <2>0, <3>1
      <4> QED
        BY <4>1, <4>2
    <3> QED
      BY <2>2, <3>2, <3>3, <3>4 DEF y, s
  <2> QED
    BY <2>1, <2>2
<1>16. Q!TypeOK'
  <2>1. now' \in Nat /\ live' \subseteq SleepNodes /\ ticked' \in BOOLEAN
        /\ timer' \in [Sleepers -> SleepNodes \cup {None}]
    BY <1>1, <1>3, <1>13 DEF Q!TypeOK
  <2> QED
    BY <1>15, <2>1 DEF Q!TypeOK
<1> DEFINE src(j) == IF j < k THEN j ELSE j + 1
           q1 == [j \in 1..(n - 1) |-> q[src(j)]]
<1>17. \A j \in 1..(n - 1) : src(j) \in 1..n /\ src(j) # k
  BY <1>6, <1>12
<1>18. q1 \in [1..(n - 1) -> SleepNodes] /\ \A j \in 1..(n - 1) : q1[j] = q[src(j)]
  BY <1>11, <1>17
<1> HIDE DEF q1
<1>19. PICK z \in [1..(n - 1) -> SleepNodes] : \A j \in 1..(n - 1) : z[j] = q[src(j)]
  BY <1>18
<1>20. \A i, j \in 1..(n - 1) : z[i] = z[j] => i = j
  <2> SUFFICES ASSUME NEW i \in 1..(n - 1), NEW j \in 1..(n - 1), z[i] = z[j] PROVE i = j
    OBVIOUS
  <2>1. src(i) = src(j)
    BY <1>9, <1>17, <1>19
  <2> QED
    BY <1>6, <1>12, <2>1
<1>21. n - 1 \in 0..Cardinality(SleepNodes)
  BY <1>6, <1>12, NodesAreFinite
<1>22. Q!Linked(n - 1, z)'
  <2>1. sleep_queue' = IF n - 1 = 0 THEN None ELSE z[1]
    <3>1. CASE k = 1
      <4>1. sleep_queue' = IF n = 1 THEN None ELSE q[2]
        BY <1>13, <1>14, <3>1
      <4>2. n # 1 => 1 \in 1..(n - 1) /\ src(1) = 2
        BY <1>6, <1>12, <3>1
      <4> QED
        BY <1>6, <1>19, <4>1, <4>2
    <3>2. CASE k # 1
      <4>1. 1 \in 1..(n - 1) /\ src(1) = 1 /\ n # 0 /\ n - 1 # 0
        BY <1>6, <1>12, <3>2
      <4> QED
        BY <1>9, <1>13, <1>19, <3>2, <4>1
    <3> QED
      BY <3>1, <3>2
  <2>2. ASSUME NEW i \in 1..(n - 1)
        PROVE  node'[z[i]].next = IF i = n - 1 THEN None ELSE z[i + 1]
    <3>1. src(i) \in 1..n /\ z[i] = q[src(i)] /\ q[src(i)] \in SleepNodes
      BY <1>11, <1>17, <1>19
    <3>2. i # n - 1 => i + 1 \in 1..(n - 1)
      BY <1>6
    <3>3. CASE i = k - 1
      <4>1. k # 1 /\ src(i) = k - 1 /\ (k = n <=> i = n - 1) /\ (i # n - 1 => src(i + 1) = k + 1)
        BY <1>6, <1>12, <3>3
      <4>2. node'[z[i]].next = node[q[k]].next
        BY <1>15, <3>1, <4>1
      <4> QED
        BY <1>14, <1>19, <3>2, <4>1, <4>2
    <3>4. CASE i # k - 1
      <4>1. src(i) # k - 1 /\ (src(i) = n <=> i = n - 1) /\ (i # n - 1 => src(i + 1) = src(i) + 1)
        BY <1>6, <1>12, <3>4
      <4>2. k # 1 => q[src(i)] # q[k - 1]
        <5>1. k # 1 => k - 1 \in 1..n
          BY <1>12
        <5> QED
          BY <1>9, <3>1, <4>1, <5>1
      <4>3. node'[z[i]].next = node[q[src(i)]].next
        BY <1>15, <3>1, <4>2
      <4> QED
        BY <1>9, <1>19, <3>1, <3>2, <4>1, <4>3
    <3> QED
      BY <3>3, <3>4
  <2> QED
    BY <1>20, <2>1, <2>2 DEF Q!Linked
<1>23. Q!Sleeping(n - 1, z)'
  <2>1. \A r \in Sleepers : timer'[r] = IF r = p THEN None ELSE timer[r]
    BY <1>3, <1>13 DEF Q!TypeOK
  <2>2. \A i \in 1..n : node'[q[i]].proc = node[q[i]].proc /\ node'[q[i]].due = node[q[i]].due
    BY <1>11, <1>15
  <2>3. ASSUME NEW i \in 1..(n - 1)
        PROVE  z[i] \in live' /\ node'[z[i]].proc \in Sleepers /\ timer'[node'[z[i]].proc] = z[i]
    <3>1. src(i) \in 1..n /\ src(i) # k /\ z[i] = q[src(i)]
      BY <1>17, <1>19
    <3>2. q[src(i)] # t
      BY <1>9, <1>12, <3>1
    <3>3. node[q[src(i)]].proc # p
      BY <1>10, <3>1, <3>2 DEF t
    <3> QED
      BY <1>10, <1>13, <2>1, <2>2, <3>1, <3>2, <3>3
  <2>4. ASSUME NEW r \in Sleepers, timer'[r] # None
        PROVE  node'[timer'[r]].proc = r /\ \E i \in 1..(n - 1) : z[i] = timer'[r]
    <3>1. r # p /\ timer'[r] = timer[r] /\ timer[r] # None
      BY <2>1, <2>4
    <3>2. PICK i \in 1..n : q[i] = timer[r]
      BY <1>10, <3>1
    <3>3. i # k
      BY <1>1, <1>10, <1>12, <3>1, <3>2 DEF t
    <3> DEFINE j == IF i < k THEN i ELSE i - 1
    <3>4. j \in 1..(n - 1) /\ src(j) = i
      BY <1>6, <1>12, <3>3
    <3>5. z[j] = timer'[r]
      BY <1>19, <3>1, <3>2, <3>4
    <3> QED
      BY <1>10, <2>2, <3>1, <3>2, <3>4, <3>5
  <2>5. ASSUME NEW i \in 1..(n - 1), NEW j \in 1..(n - 1), i <= j
        PROVE  node'[z[i]].due >= node'[z[j]].due
    <3>1. src(i) \in 1..n /\ src(j) \in 1..n /\ src(i) <= src(j)
      BY <1>6, <1>12, <1>17, <2>5
    <3> QED
      BY <1>10, <1>19, <2>2, <3>1
  <2>6. ~ticked'
    BY <1>1
  <2> QED
    BY <2>3, <2>4, <2>5, <2>6 DEF Q!Sleeping
<1>24. ~sleep_hung'
  BY <1>1, <1>13
<1> QED
  BY <1>16, <1>21, <1>22, <1>23, <1>24

(* The timer takes the nodes that are due from the front of the queue.      *)
LEMMA SleepExpires ==
  ASSUME Q!SleepInv, Q!tick
  PROVE  Q!SleepInv'
<1> SUFFICES ASSUME ~later' PROVE Q!TypeOK' /\ ~sleep_hung' /\
      \E n \in 0..Cardinality(SleepNodes) : \E q \in [1..n -> SleepNodes] :
         Q!Linked(n, q)' /\ Q!Sleeping(n, q)'
  BY SleepCounts DEF Q!SleepInv
<1> DEFINE ends == {k \in 1..Q!Steps : Q!Chain[k] = None \/ ~(node[Q!Chain[k]].due <= now')}
           stop == IF ends = {} THEN 0 ELSE CHOOSE k \in ends : \A j \in ends : k <= j
           pops == {Q!Chain[j] : j \in 1..(stop - 1)}
<1>1. /\ ~sleep_hung /\ now' = now + 1 /\ ticked' = TRUE /\ node' = node /\ later' = later
      /\ IF stop = 0 THEN sleep_hung' = TRUE /\ UNCHANGED <<sleep_queue, live, timer>>
         ELSE /\ sleep_queue' = Q!Chain[stop] /\ live' = live \ pops
              /\ timer' = [p \in Sleepers |-> IF p \in {node[m].proc : m \in pops} THEN None ELSE timer[p]]
              /\ UNCHANGED sleep_hung
  BY DEF Q!tick, Q!Stop, Q!Expired
<1>2. ~later
  BY <1>1
<1>3. Q!TypeOK
  BY <1>2 DEF Q!SleepInv
<1>4. PICK n \in 0..Cardinality(SleepNodes) : \E q \in [1..n -> SleepNodes] :
         Q!Linked(n, q) /\ Q!Sleeping(n, q)
  BY <1>2, SleepCounts DEF Q!SleepInv
<1>5. PICK q \in [1..n -> SleepNodes] : Q!Linked(n, q) /\ Q!Sleeping(n, q)
  BY <1>4
<1>6. /\ n + 1 \in 1..Q!Steps /\ n \in Nat
      /\ \A i \in 1..n : i \in 1..Q!Steps /\ Q!Chain[i] = q[i]
      /\ Q!Chain[n + 1] = None
  BY <1>5, ChainIsList, NodesAreFinite
<1>7. stop \in 1..(n + 1) /\ stop \in ends /\ \A j \in 1..(n + 1) : j < stop => j \notin ends
  <2>1. ends \subseteq 1..Q!Steps /\ n + 1 \in ends
    BY <1>6
  <2> HIDE DEF ends
  <2> QED
    BY <1>6, <2>1, WalkStops
<1>8. PICK k \in 1..(n + 1) : k = stop
  <2> HIDE DEF stop, ends
  <2> QED  BY <1>7
<1>9. /\ sleep_queue = IF n = 0 THEN None ELSE q[1]
      /\ \A i \in 1..n : node[q[i]].next = IF i = n THEN None ELSE q[i + 1]
      /\ \A i, j \in 1..n : q[i] = q[j] => i = j
  BY <1>5 DEF Q!Linked
<1>10. /\ \A i \in 1..n : q[i] \in live /\ node[q[i]].proc \in Sleepers /\ timer[node[q[i]].proc] = q[i]
       /\ \A r \in Sleepers : timer[r] # None => node[timer[r]].proc = r /\ \E i \in 1..n : q[i] = timer[r]
       /\ \A i, j \in 1..n : i <= j => node[q[i]].due >= node[q[j]].due
  BY <1>5 DEF Q!Sleeping
<1>11. \A i \in 1..n : q[i] \in SleepNodes /\ q[i] # None /\ node[q[i]].due \in Nat
  BY <1>3, NodesAreFinite DEF Q!TypeOK
<1>12. Q!Chain[k] = IF k = n + 1 THEN None ELSE q[k]
  BY <1>6
<1>13. k # n + 1 => node[q[k]].due > now + 1
  <2> SUFFICES ASSUME k # n + 1 PROVE node[q[k]].due > now + 1
    OBVIOUS
  <2>1. k \in 1..n /\ k \in ends
    <3> HIDE DEF stop, ends
    <3> QED  BY <1>6, <1>7, <1>8
  <2>2. ~(node[q[k]].due <= now')
    BY <1>6, <1>11, <2>1
  <2>3. now \in Nat /\ node[q[k]].due \in Nat
    BY <1>3, <1>11, <2>1 DEF Q!TypeOK
  <2> QED
    BY <1>1, <2>2, <2>3
<1> DEFINE gone == {q[j] : j \in 1..(k - 1)}
<1>14. /\ sleep_queue' = Q!Chain[k] /\ live' = live \ gone /\ UNCHANGED sleep_hung
       /\ timer' = [p \in Sleepers |-> IF p \in {node[m].proc : m \in gone} THEN None ELSE timer[p]]
  <2> HIDE DEF stop
  <2>1. stop # 0 /\ \A j \in 1..(k - 1) : Q!Chain[j] = q[j]
    BY <1>6, <1>8
  <2>2. pops = gone
    BY <1>8, <2>1
  <2> HIDE DEF pops, gone
  <2> QED
    BY <1>1, <1>8, <2>1, <2>2
<1> HIDE DEF stop, ends, pops
<1>15. \A i \in 1..n : q[i] \in gone <=> i < k
  <2> SUFFICES ASSUME NEW i \in 1..n PROVE q[i] \in gone <=> i < k
    OBVIOUS
  <2>1. i < k => i \in 1..(k - 1)
    BY <1>6
  <2>2. \A j \in 1..(k - 1) : j \in 1..n /\ j < k
    BY <1>6
  <2> QED
    BY <1>9, <2>1, <2>2
<1>16. \A m \in gone : \E j \in 1..n : j < k /\ m = q[j]
  BY <1>6
<1> HIDE DEF gone
<1>17. \A i \in 1..n : node[q[i]].proc \in {node[m].proc : m \in gone} <=> i < k
  <2> SUFFICES ASSUME NEW i \in 1..n
               PROVE  node[q[i]].proc \in {node[m].proc : m \in gone} <=> i < k
    OBVIOUS
  <2>1. i < k => node[q[i]].proc \in {node[m].proc : m \in gone}
    BY <1>15
  <2>2. ASSUME node[q[i]].proc \in {node[m].proc : m \in gone} PROVE i < k
    <3>1. PICK m \in gone : node[q[i]].proc = node[m].proc
      BY <2>2
    <3>2. PICK j \in 1..n : j < k /\ m = q[j]
      BY <1>16
    <3>3. q[i] = q[j]
      BY <1>10, <3>1, <3>2
    <3> QED
      BY <1>9, <3>2, <3>3
  <2> QED
    BY <2>1, <2>2
<1>18. Q!TypeOK'
  <2>1. now' \in Nat
    BY <1>1, <1>3 DEF Q!TypeOK
  <2>2. live' \subseteq SleepNodes
    BY <1>3, <1>14 DEF Q!TypeOK
  <2>3. timer' \in [Sleepers -> SleepNodes \cup {None}]
    BY <1>3, <1>14 DEF Q!TypeOK
  <2> QED
    BY <1>1, <1>3, <2>1, <2>2, <2>3 DEF Q!TypeOK
<1> DEFINE l == n - k + 1
           src(j) == j + k - 1
           q1 == [j \in 1..l |-> q[src(j)]]
<1>19. l \in 0..n /\ l \in Nat /\ (l = 0 <=> k = n + 1) /\ \A j \in 1..l : src(j) \in 1..n /\ src(j) >= k
  BY <1>6
<1>20. q1 \in [1..l -> SleepNodes] /\ \A j \in 1..l : q1[j] = q[src(j)]
  BY <1>11, <1>19
<1> HIDE DEF q1
<1>21. PICK z \in [1..l -> SleepNodes] : \A j \in 1..l : z[j] = q[src(j)]
  BY <1>20
<1>22. l \in 0..Cardinality(SleepNodes)
  BY <1>6, <1>19, NodesAreFinite
<1>23. Q!Linked(l, z)'
  <2>1. sleep_queue' = IF l = 0 THEN None ELSE z[1]
    <3>1. l # 0 => 1 \in 1..l /\ src(1) = k
      BY <1>6, <1>19
    <3> QED
      BY <1>12, <1>14, <1>19, <1>21, <3>1
  <2>2. ASSUME NEW i \in 1..l
        PROVE  node'[z[i]].next = IF i = l THEN None ELSE z[i + 1]
    <3>1. (src(i) = n <=> i = l) /\ (i # l => i + 1 \in 1..l /\ src(i + 1) = src(i) + 1)
      BY <1>6, <1>19
    <3> QED
      BY <1>1, <1>9, <1>19, <1>21, <3>1
  <2>3. ASSUME NEW i \in 1..l, NEW j \in 1..l, z[i] = z[j]
        PROVE  i = j
    <3>1. src(i) = src(j)
      BY <1>9, <1>19, <1>21, <2>3
    <3> QED
      BY <1>6, <1>19, <3>1
  <2> QED
    BY <2>1, <2>2, <2>3 DEF Q!Linked
<1>24. Q!Sleeping(l, z)'
  <2>1. \A r \in Sleepers : timer'[r] = IF r \in {node[m].proc : m \in gone} THEN None ELSE timer[r]
    BY <1>14
  <2>2. ASSUME NEW i \in 1..l
        PROVE  z[i] \in live' /\ node'[z[i]].proc \in Sleepers /\ timer'[node'[z[i]].proc] = z[i]
    <3>1. src(i) \in 1..n /\ ~(src(i) < k) /\ z[i] = q[src(i)]
      BY <1>6, <1>19, <1>21
    <3>2. z[i] \notin gone /\ node[z[i]].proc \notin {node[m].proc : m \in gone}
      BY <1>15, <1>17, <3>1
    <3> QED
      BY <1>1, <1>10, <1>14, <2>1, <3>1, <3>2
  <2>3. ASSUME NEW r \in Sleepers, timer'[r] # None
        PROVE  node'[timer'[r]].proc = r /\ \E i \in 1..l : z[i] = timer'[r]
    <3>1. r \notin {node[m].proc : m \in gone} /\ timer'[r] = timer[r] /\ timer[r] # None
      BY <2>1, <2>3
    <3>2. PICK i \in 1..n : q[i] = timer[r]
      BY <1>10, <3>1
    <3>3. ~(i < k) /\ node[q[i]].proc = r
      BY <1>10, <1>17, <3>1, <3>2
    <3>4. i - k + 1 \in 1..l /\ src(i - k + 1) = i
      BY <1>6, <3>3
    <3> QED
      BY <1>1, <1>21, <3>1, <3>2, <3>3, <3>4
  <2>4. ASSUME NEW i \in 1..l, NEW j \in 1..l, i <= j
        PROVE  node'[z[i]].due >= node'[z[j]].due
    <3>1. src(i) <= src(j)
      BY <1>6, <1>19, <2>4
    <3> QED
      BY <1>1, <1>10, <1>19, <1>21, <3>1
  <2>5. l # 0 => node'[z[1]].due > now'
    <3>1. l # 0 => 1 \in 1..l /\ src(1) = k
      BY <1>6, <1>19
    <3> QED
      BY <1>1, <1>13, <1>19, <1>21, <3>1
  <2> HIDE DEF l
  <2> QED
    BY <2>2, <2>3, <2>4, <2>5 DEF Q!Sleeping
<1>25. ~sleep_hung'
  BY <1>1, <1>14
<1> QED
  BY <1>18, <1>22, <1>23, <1>24, <1>25

LEMMA NextSleep ==
  ASSUME Q!SleepInv, Q!Next
  PROVE  Q!SleepInv'
BY SleepInserts, SleepRemoves, SleepExpires DEF Q!Next

(* What the invariant says of the queue.                                   *)
LEMMA SleepPromises ==
  ASSUME Q!SleepInv
  PROVE  Q!QueueIsExact /\ Q!NobodySleepsPastAll
<1> SUFFICES ASSUME ~later PROVE Q!QueueIsExact /\ Q!NobodySleepsPastAll
  BY DEF Q!QueueIsExact, Q!NobodySleepsPastAll
<1>1. Q!TypeOK /\ ~sleep_hung
  BY DEF Q!SleepInv
<1>2. PICK n \in 0..Cardinality(SleepNodes) : \E q \in [1..n -> SleepNodes] :
         Q!Linked(n, q) /\ Q!Sleeping(n, q)
  BY SleepCounts DEF Q!SleepInv
<1>3. PICK q \in [1..n -> SleepNodes] : Q!Linked(n, q) /\ Q!Sleeping(n, q)
  BY <1>2
<1>4. /\ n + 1 \in 1..Q!Steps /\ n \in Nat
      /\ \A i \in 1..n : i \in 1..Q!Steps /\ Q!Chain[i] = q[i]
      /\ Q!Chain[n + 1] = None
  BY <1>3, ChainIsList, NodesAreFinite
<1>5. /\ \A i \in 1..n : q[i] \in live /\ node[q[i]].proc \in Sleepers /\ timer[node[q[i]].proc] = q[i]
      /\ \A r \in Sleepers : timer[r] # None => node[timer[r]].proc = r /\ \E i \in 1..n : q[i] = timer[r]
      /\ \A i, j \in 1..n : i <= j => node[q[i]].due >= node[q[j]].due
      /\ ticked /\ n # 0 => node[q[1]].due > now
  BY <1>3 DEF Q!Sleeping
<1>6. \A i \in 1..n : q[i] \in SleepNodes /\ q[i] # None /\ node[q[i]].due \in Nat
  BY <1>1, NodesAreFinite DEF Q!TypeOK
<1>7. \A i, j \in 1..n : q[i] = q[j] => i = j
  BY <1>3 DEF Q!Linked
<1>8. Q!Length = n
  <2> DEFINE ends == {k \in 1..Q!Steps : Q!Chain[k] = None \/ ~TRUE}
             stop == IF ends = {} THEN 0 ELSE CHOOSE k \in ends : \A j \in ends : k <= j
  <2>1. Q!Length = stop - 1
    BY DEF Q!Length, Q!Stop
  <2>2. ends \subseteq 1..Q!Steps /\ n + 1 \in ends /\ \A j \in 1..n : j \notin ends
    BY <1>4, <1>6
  <2> HIDE DEF ends
  <2>3. stop \in 1..(n + 1) /\ stop \in ends
    BY <1>4, <2>2, WalkStops
  <2> HIDE DEF stop
  <2>4. stop = n + 1
    BY <1>4, <2>2, <2>3
  <2> QED
    BY <1>4, <2>1, <2>4
<1>9. \A p : p \in Q!Asleep <=> p \in Sleepers /\ timer[p] # None
  BY DEF Q!Asleep
<1>10. Cardinality(Q!Asleep) = n
  <2> DEFINE f == [i \in 1..n |-> node[q[i]].proc]
  <2>1. \A i \in 1..n : f[i] \in Q!Asleep
    BY <1>5, <1>6, <1>9
  <2>2. \A i, j \in 1..n : f[i] = f[j] => i = j
    BY <1>5, <1>7
  <2>3. \A p \in Q!Asleep : \E i \in 1..n : f[i] = p
    BY <1>5, <1>9
  <2>4. f \in [1..n -> Q!Asleep]
    BY <2>1
  <2> HIDE DEF f
  <2>5. f \in Bijection(1..n, Q!Asleep)
    BY <2>2, <2>3, <2>4 DEF Bijection, Injection, Surjection, IsInjective
  <2>6. IsFiniteSet(1..n) /\ Cardinality(1..n) = n
    BY <1>4, FS_Interval
  <2> QED
    BY <2>5, <2>6, FS_Bijection DEF ExistsBijection
<1>11. {Q!Chain[k] : k \in 1..n} = {timer[p] : p \in Q!Asleep}
  <2>1. \A k \in 1..n : node[q[k]].proc \in Q!Asleep /\ q[k] = timer[node[q[k]].proc]
    BY <1>5, <1>6, <1>9
  <2>2. \A p \in Q!Asleep : \E k \in 1..n : timer[p] = q[k]
    BY <1>5, <1>9
  <2>3. \A k \in 1..n : Q!Chain[k] = q[k]
    BY <1>4
  <2> QED
    BY <2>1, <2>2, <2>3
<1>12. \A p \in Q!Asleep : timer[p] \in live /\ node[timer[p]].proc = p
  BY <1>5, <1>9
<1>13. \A k \in 2..n : node[Q!Chain[k - 1]].due >= node[Q!Chain[k]].due
  <2> SUFFICES ASSUME NEW k \in 2..n
               PROVE  node[Q!Chain[k - 1]].due >= node[Q!Chain[k]].due
    OBVIOUS
  <2>1. k - 1 \in 1..n /\ k \in 1..n /\ k - 1 <= k
    BY <1>4
  <2> QED
    BY <1>4, <1>5, <2>1
<1>14. Q!QueueIsExact
  BY <1>1, <1>8, <1>10, <1>11, <1>12, <1>13, SleepCounts DEF Q!QueueIsExact
<1>15. Q!NobodySleepsPastAll
  <2> SUFFICES ASSUME ticked, \A p \in Q!Asleep : node[timer[p]].due <= now, Q!Asleep # {}
               PROVE  FALSE
    BY DEF Q!NobodySleepsPastAll
  <2>1. PICK p \in Sleepers : timer[p] # None
    BY <1>9
  <2>2. PICK i \in 1..n : q[i] = timer[p]
    BY <1>5, <2>1
  <2>3. n # 0 /\ 1 \in 1..n
    BY <1>4, <2>2
  <2>4. node[q[1]].proc \in Q!Asleep /\ timer[node[q[1]].proc] = q[1]
    BY <1>5, <1>6, <1>9, <2>3
  <2>5. node[q[1]].due <= now /\ node[q[1]].due > now
    BY <1>5, <2>3, <2>4
  <2>6. node[q[1]].due \in Nat /\ now \in Nat
    BY <1>1, <1>6, <2>3 DEF Q!TypeOK
  <2> QED
    BY <2>5, <2>6
<1> QED
  BY <1>14, <1>15

(* For any number of processes, nodes and delays: as long as no sleep is   *)
(* due later than all the others, the nodes that the pointers link are     *)
(* those of the sleeping processes, each once, none freed, the latest      *)
(* first, and nobody sleeps past the last deadline of all                  *)
(* (k_proc_process_sleep, __k_proc_process_wakeup_timing).                 *)
THEOREM SleepersStayQueued == Spec => []SleepersAreQueued
<1> DEFINE Inv == part = "sleep" => Q!SleepInv
<1>1. Init => Inv
  BY InitSleep DEF Init
<1>2. Inv /\ [Next]_vars => Inv'
  <2> SUFFICES ASSUME Inv, [Next]_vars
               PROVE  Inv'
    OBVIOUS
  <2>1. CASE part # "sleep"
    BY <2>1 DEF Next, vars
  <2>2. CASE part = "sleep" /\ Next
    BY <2>2, NextSleep DEF Next
  <2>3. CASE part = "sleep" /\ UNCHANGED vars
    BY <2>3 DEF vars, sleepVars, Q!SleepInv, Q!TypeOK, Q!Linked, Q!Sleeping
  <2> QED
    BY <2>1, <2>2, <2>3
<1>3. Inv => SleepersAreQueued
  BY SleepPromises DEF SleepersAreQueued
<1> QED
  BY <1>1, <1>2, <1>3, PTL DEF Spec

(***************************************************************************)
(* The window manager                                                      *)
(***************************************************************************)
LEMMA InitScwm ==
  ASSUME M!Init
  PROVE  M!ScwmInv
<1>1. props \in M!Rectangles /\ start \in M!Rectangles
  BY DEF M!Init, M!Rectangles
<1>2. DOMAIN geo = {} /\ geo \in [DOMAIN geo -> M!Rectangles]
  BY DEF M!Init
<1>3. mov = None /\ res = None /\ overlay = {}
      /\ mod = FALSE /\ right = FALSE /\ low = FALSE /\ least = FALSE /\ cut = FALSE /\ switched = FALSE
  BY DEF M!Init
<1>4. M!TypeOK
  BY <1>1, <1>2, <1>3 DEF M!TypeOK
<1> QED
  BY <1>3, <1>4 DEF M!ScwmInv, M!OneDrag, M!MovedIsTracked, M!OppositeEdge, M!OverlayIsCurrent

(* What the invariant says of the geometry of a window.                    *)
LEMMA ScwmTypes ==
  ASSUME M!TypeOK
  PROVE  /\ props \in M!Rectangles /\ start \in M!Rectangles
         /\ \A w \in DOMAIN geo : geo[w] \in M!Rectangles
         /\ None \notin DOMAIN geo
  BY SystemAssumption DEF M!TypeOK, M!ScwmAssumption

(* A window that appears, or whose program changes it: it is not the one   *)
(* that is dragged.                                                        *)
LEMMA ScwmOthers ==
  ASSUME M!ScwmInv, NEW w \in Windows, M!win(w) \/ M!client(w)
  PROVE  M!ScwmInv' /\ M!ResizeIsApplied
<1>0. M!TypeOK /\ M!OneDrag /\ M!MovedIsTracked /\ M!OppositeEdge /\ M!OverlayIsCurrent
  BY DEF M!ScwmInv
<1>1. UNCHANGED <<mod, mov, res, right, low, props, overlay, start, least, cut, switched>>
  BY DEF M!win, M!client
<1>2. PICK g \in M!Rectangles : geo' = [v \in DOMAIN geo \cup {w} |-> IF v = w THEN g ELSE geo[v]]
  <2>1. CASE M!win(w)
    <3>1. [x |-> 0, y |-> 0, w |-> Screen.w, h |-> Screen.h] \in M!Rectangles
      BY SystemAssumption DEF M!ScwmAssumption, M!Rectangles
    <3> QED
      BY <2>1, <3>1 DEF M!win
  <2>2. CASE M!client(w)
    <3>1. Opened \in M!Rectangles /\ w \in DOMAIN geo
      BY <2>2, SystemAssumption DEF M!ScwmAssumption, M!Rectangles, M!client
    <3>2. geo' = [v \in DOMAIN geo |-> IF v = w THEN Opened ELSE geo[v]]
      BY <2>2 DEF M!client
    <3>3. DOMAIN geo \cup {w} = DOMAIN geo
      BY <3>1
    <3> QED
      BY <3>1, <3>2, <3>3
  <2> QED
    BY <2>1, <2>2
<1>3. w # mov /\ w # res
  BY <1>0, SystemAssumption DEF M!win, M!client, M!TypeOK, M!ScwmAssumption
<1>4. DOMAIN geo' = DOMAIN geo \cup {w} /\ \A v \in DOMAIN geo : v # w => geo'[v] = geo[v]
  BY <1>2
<1>5. \A v \in DOMAIN geo' : geo'[v] \in M!Rectangles
  BY <1>0, <1>2, ScwmTypes
<1>6. M!TypeOK'
  <2>1. geo' \in [DOMAIN geo' -> M!Rectangles]
    BY <1>2, <1>5
  <2> QED
    BY <1>0, <1>1, <1>4, <2>1 DEF M!TypeOK, M!Rectangles
<1>7. M!MovedIsTracked'
  BY <1>0, <1>1, <1>3, <1>4 DEF M!MovedIsTracked, M!TypeOK
<1> QED
  BY <1>0, <1>1, <1>6, <1>7 DEF M!ScwmInv, M!OneDrag, M!OppositeEdge, M!OverlayIsCurrent,
     M!ResizeIsApplied

(* The end of a drag, by a release of meta or a press of a button other    *)
(* than the right one: the window that was resized has the rectangle, and  *)
(* nothing is left on the overlay.                                         *)
LEMMA ScwmEnds ==
  ASSUME M!ScwmInv, M!Ended, overlay' = M!Cleared, res' = None, switched' = switched
  PROVE  /\ DOMAIN geo' = DOMAIN geo /\ geo' \in [DOMAIN geo' -> M!Rectangles]
         /\ \A v \in DOMAIN geo : v # res => geo'[v] = geo[v]
         /\ M!OverlayIsCurrent' /\ M!ResizeIsApplied
<1>0. M!TypeOK /\ M!OverlayIsCurrent /\ (res = None \/ res \in DOMAIN geo)
  BY DEF M!ScwmInv, M!TypeOK
<1>1. geo' = IF res = None THEN geo ELSE [geo EXCEPT ![res] = props]
  BY DEF M!Ended
<1>2. /\ DOMAIN geo' = DOMAIN geo /\ \A v \in DOMAIN geo : v # res => geo'[v] = geo[v]
      /\ res # None => geo'[res] = props
  BY <1>0, <1>1
<1>3. geo' \in [DOMAIN geo' -> M!Rectangles]
  BY <1>0, <1>1, ScwmTypes DEF M!TypeOK
<1>4. M!OverlayIsCurrent'
  BY <1>0 DEF M!OverlayIsCurrent, M!Cleared
<1>5. M!ResizeIsApplied
  <2> SUFFICES ASSUME NEW v \in Windows, res = v, overlay # {}, ~switched
               PROVE  geo'[v] \in overlay
    BY DEF M!ResizeIsApplied
  <2>1. res # None
    BY SystemAssumption DEF M!ScwmAssumption
  <2>2. overlay = {props}
    BY <1>0, <2>1 DEF M!OverlayIsCurrent
  <2> QED
    BY <1>2, <2>1, <2>2
<1> QED
  BY <1>2, <1>3, <1>4, <1>5

LEMMA ScwmMeta ==
  ASSUME M!ScwmInv, NEW down \in BOOLEAN, M!meta(down)
  PROVE  M!ScwmInv' /\ M!ResizeIsApplied
<1>0. M!TypeOK /\ M!OneDrag /\ M!MovedIsTracked /\ M!OppositeEdge /\ M!OverlayIsCurrent
  BY DEF M!ScwmInv
<1>1. mod' = down /\ UNCHANGED <<right, low, props, start, least, cut, switched>>
  BY DEF M!meta
<1>2. CASE down
  <2>1. UNCHANGED <<geo, mov, res, overlay>>
    BY <1>2 DEF M!meta
  <2>2. M!TypeOK'
    BY <1>0, <1>1, <2>1 DEF M!TypeOK, M!Rectangles
  <2> QED
    BY <1>0, <1>1, <2>1, <2>2 DEF M!ScwmInv, M!OneDrag, M!MovedIsTracked, M!OppositeEdge,
       M!OverlayIsCurrent, M!ResizeIsApplied
<1>3. CASE ~down
  <2>1. mov' = None /\ res' = None /\ M!Ended /\ overlay' = M!Cleared
    BY <1>3 DEF M!meta
  <2>2. /\ DOMAIN geo' = DOMAIN geo /\ geo' \in [DOMAIN geo' -> M!Rectangles]
        /\ M!OverlayIsCurrent' /\ M!ResizeIsApplied
    BY <1>1, <2>1, ScwmEnds
  <2>3. M!TypeOK'
    BY <1>0, <1>1, <2>1, <2>2 DEF M!TypeOK, M!Rectangles
  <2> QED
    BY <2>1, <2>2, <2>3 DEF M!ScwmInv, M!OneDrag, M!MovedIsTracked, M!OppositeEdge
<1> QED
  BY <1>2, <1>3

(* A press of a button asks for the geometry before a resize is ended by   *)
(* it, which is what cut remembers.                                        *)
LEMMA ScwmButton ==
  ASSUME M!ScwmInv, NEW w \in Windows, NEW b \in {"left", "right", "none"},
         NEW near \in [right : BOOLEAN, low : BOOLEAN], M!button(w, b, near)
  PROVE  M!ScwmInv' /\ M!ResizeIsApplied
<1>0. /\ M!TypeOK /\ M!OneDrag /\ M!MovedIsTracked /\ M!OppositeEdge /\ M!OverlayIsCurrent
      /\ w \in DOMAIN geo /\ geo[w] \in M!Rectangles /\ w # None
  BY ScwmTypes DEF M!ScwmInv, M!button
<1>1. CASE ~mod
  <2>1. UNCHANGED <<geo, mod, mov, res, right, low, props, overlay, start, least, cut, switched>>
    BY <1>1 DEF M!button
  <2>2. M!TypeOK'
    BY <1>0, <2>1 DEF M!TypeOK, M!Rectangles
  <2> QED
    BY <1>0, <2>1, <2>2 DEF M!ScwmInv, M!OneDrag, M!MovedIsTracked, M!OppositeEdge,
       M!OverlayIsCurrent, M!ResizeIsApplied
<1>2. CASE mod /\ b = "right"
  <2>1. /\ props' = geo[w] /\ start' = geo[w] /\ mov' = None /\ res' = w /\ cut' = FALSE
        /\ right' = near.right /\ low' = near.low /\ least' = FALSE
        /\ switched' = (switched \/ res # None) /\ UNCHANGED <<geo, overlay, mod>>
    BY <1>2 DEF M!button, M!Fetched
  <2>2. near.right \in BOOLEAN /\ near.low \in BOOLEAN
    OBVIOUS
  <2>3. M!TypeOK'
    <3>1. {right', low', least', cut', switched'} \subseteq BOOLEAN
      BY <1>0, <2>1, <2>2 DEF M!TypeOK
    <3> QED
      BY <1>0, <2>1, <3>1 DEF M!TypeOK, M!Rectangles
  <2>4. M!OppositeEdge'
    BY <2>1 DEF M!OppositeEdge
  <2>5. M!OverlayIsCurrent'
    BY <1>0, <2>1 DEF M!OverlayIsCurrent
  <2> QED
    BY <1>0, <2>1, <2>3, <2>4, <2>5 DEF M!ScwmInv, M!OneDrag, M!MovedIsTracked, M!ResizeIsApplied
<1>3. CASE mod /\ b # "right"
  <2>1. /\ props' = geo[w] /\ mov' = (IF b = "left" THEN w ELSE None) /\ res' = None
        /\ cut' = (res = w) /\ M!Ended /\ overlay' = M!Cleared
        /\ UNCHANGED <<right, low, start, least, switched, mod>>
    BY <1>3 DEF M!button, M!Fetched
  <2>2. /\ DOMAIN geo' = DOMAIN geo /\ geo' \in [DOMAIN geo' -> M!Rectangles]
        /\ \A v \in DOMAIN geo : v # res => geo'[v] = geo[v]
        /\ M!OverlayIsCurrent' /\ M!ResizeIsApplied
    BY <2>1, ScwmEnds
  <2>3. M!TypeOK'
    BY <1>0, <2>1, <2>2 DEF M!TypeOK, M!Rectangles
  <2>4. M!MovedIsTracked'
    BY <1>0, <2>1, <2>2 DEF M!MovedIsTracked
  <2> QED
    BY <2>1, <2>2, <2>3, <2>4 DEF M!ScwmInv, M!OneDrag, M!OppositeEdge
<1> QED
  BY <1>1, <1>2, <1>3

(* A coordinate and an extent after a step d of the mouse at the near edge:*)
(* the far edge stays, or the extent is the least one and it moves outwards.*)
LEMMA FarEdge ==
  ASSUME NEW x \in Int, NEW n \in Int, NEW d \in Int
  PROVE  LET m == M!AtLeast(n - d)
         IN  m \in Int /\ (x + d + m = x + n \/ (m = Least /\ x + d + m > x + n))
<1>1. Least \in Int
  BY SystemAssumption DEF M!ScwmAssumption
<1> QED
  BY <1>1 DEF M!AtLeast

(* An edge that stays, or moves outwards once l holds, goes on doing so.   *)
LEMMA EdgeStays ==
  ASSUME NEW f \in Int, NEW e \in Int, NEW e1 \in Int, NEW l \in BOOLEAN, NEW l1 \in BOOLEAN, l => l1,
         e = f \/ (l /\ e > f), e1 = e \/ (l1 /\ e1 > e)
  PROVE  e1 = f \/ (l1 /\ e1 > f)
<1>1. e1 > e /\ e > f => e1 > f
  OBVIOUS
<1>2. CASE e1 = e
  BY <1>2
<1>3. CASE l1 /\ e1 > e
  BY <1>1, <1>3
<1> QED
  BY <1>2, <1>3

LEMMA ScwmMouse ==
  ASSUME M!ScwmInv, NEW dx \in -1 .. 1, NEW dy \in -1 .. 1, M!mouse(dx, dy)
  PROVE  M!ScwmInv' /\ M!ResizeIsApplied
<1>0. /\ M!TypeOK /\ M!OneDrag /\ M!MovedIsTracked /\ M!OppositeEdge /\ M!OverlayIsCurrent
      /\ props \in M!Rectangles /\ start \in M!Rectangles /\ dx \in Int /\ dy \in Int
      /\ \A v \in DOMAIN geo : geo[v] \in M!Rectangles
  BY ScwmTypes DEF M!ScwmInv
<1>1. UNCHANGED <<mod, mov, res, right, low, start, cut, switched>>
  BY DEF M!mouse
<1>2. CASE mov # None
  <2>1. /\ props' = [props EXCEPT !.x = props.x + dx, !.y = props.y - dy]
        /\ geo' = [geo EXCEPT ![mov] = [geo[mov] EXCEPT !.x = props'.x, !.y = props'.y]]
        /\ UNCHANGED <<overlay, least>> /\ mov \in DOMAIN geo /\ res = None
    BY <1>0, <1>2 DEF M!mouse, M!TypeOK, M!OneDrag
  <2>2. props' \in M!Rectangles /\ props'.x \in Int /\ props'.y \in Int
    <3>1. props.x + dx \in Int /\ props.y - dy \in Int
      BY <1>0 DEF M!Rectangles
    <3>2. props' \in M!Rectangles
      BY <1>0, <2>1, <3>1 DEF M!Rectangles
    <3> QED
      BY <3>2 DEF M!Rectangles
  <2>3. [geo[mov] EXCEPT !.x = props'.x, !.y = props'.y] \in M!Rectangles
    BY <1>0, <2>1, <2>2 DEF M!Rectangles
  <2>4. /\ DOMAIN geo' = DOMAIN geo /\ geo' \in [DOMAIN geo' -> M!Rectangles]
        /\ geo'[mov] = [geo[mov] EXCEPT !.x = props'.x, !.y = props'.y]
    BY <1>0, <2>1, <2>3
  <2>5. M!TypeOK'
    BY <1>0, <1>1, <2>1, <2>2, <2>4 DEF M!TypeOK, M!Rectangles
  <2>6. M!MovedIsTracked'
    <3> SUFFICES ASSUME geo[mov] = props
                 PROVE  geo'[mov] = props'
      BY <1>0, <1>1, <1>2 DEF M!MovedIsTracked
    <3>1. geo'[mov] = [props EXCEPT !.x = props'.x, !.y = props'.y]
      BY <2>4
    <3>2. props'.x = props.x + dx /\ props'.y = props.y - dy
      BY <1>0, <2>1 DEF M!Rectangles
    <3> QED
      BY <2>1, <3>1, <3>2
  <2> QED
    BY <1>0, <1>1, <2>1, <2>5, <2>6 DEF M!ScwmInv, M!OneDrag, M!OppositeEdge, M!OverlayIsCurrent,
       M!ResizeIsApplied
<1>3. CASE mov = None
  <2>1. /\ res # None /\ props' = M!Resized(dx, dy) /\ overlay' = (overlay \ {props}) \cup {props'}
        /\ least' = (least \/ Least \in {props'.w, props'.h}) /\ UNCHANGED geo
    BY <1>3 DEF M!mouse
  <2>2. /\ props.x \in Int /\ props.y \in Int /\ props.w \in Int /\ props.h \in Int
        /\ start.x \in Int /\ start.y \in Int /\ start.w \in Int /\ start.h \in Int
    BY <1>0 DEF M!Rectangles
  <2>3. /\ props'.x = IF right THEN props.x ELSE props.x + dx
        /\ props'.y = IF low THEN props.y ELSE props.y - dy
        /\ ~right => props'.w = M!AtLeast(props.w - dx)
        /\ ~low => props'.h = M!AtLeast(props.h + dy)
    BY <2>1 DEF M!Resized
  <2>4. props' \in M!Rectangles
    <3>1. \A n \in Int : M!AtLeast(n) \in Int
      BY SystemAssumption DEF M!ScwmAssumption, M!AtLeast
    <3> QED
      BY <1>0, <2>1, <2>2, <3>1 DEF M!Resized, M!Rectangles
  <2>5. M!TypeOK'
    <3>1. {right', low', least', cut', switched'} \subseteq BOOLEAN
      BY <1>0, <1>1, <2>1 DEF M!TypeOK
    <3> QED
      BY <1>0, <1>1, <2>1, <2>4, <3>1 DEF M!TypeOK
  <2>6. /\ IF right THEN props.x = start.x
           ELSE props.x + props.w = start.x + start.w \/ (least /\ props.x + props.w > start.x + start.w)
        /\ IF low THEN props.y = start.y
           ELSE props.y + props.h = start.y + start.h \/ (least /\ props.y + props.h > start.y + start.h)
    BY <1>0, <2>1 DEF M!OppositeEdge
  <2>7. ~right => \/ props'.x + props'.w = start.x + start.w
                  \/ least' /\ props'.x + props'.w > start.x + start.w
    <3> SUFFICES ASSUME ~right
                 PROVE  \/ props'.x + props'.w = start.x + start.w
                        \/ least' /\ props'.x + props'.w > start.x + start.w
      OBVIOUS
    <3>1. /\ props'.w \in Int /\ props'.x = props.x + dx
          /\ \/ props.x + dx + props'.w = props.x + props.w
             \/ props'.w = Least /\ props.x + dx + props'.w > props.x + props.w
      BY <1>0, <2>2, <2>3, FarEdge
    <3>2. /\ least \in BOOLEAN /\ least' \in BOOLEAN /\ (least => least')
          /\ props'.w = Least => least'
      BY <1>0, <2>1, <2>5 DEF M!TypeOK
    <3>3. /\ props.x + props.w \in Int /\ props'.x + props'.w \in Int /\ start.x + start.w \in Int
          /\ props'.x + props'.w = props.x + dx + props'.w
      BY <1>0, <2>2, <3>1
    <3>4. \/ props'.x + props'.w = props.x + props.w
          \/ least' /\ props'.x + props'.w > props.x + props.w
      BY <3>1, <3>2, <3>3
    <3> QED
      BY <2>6, <3>2, <3>3, <3>4, EdgeStays
  <2>8. ~low => \/ props'.y + props'.h = start.y + start.h
                \/ least' /\ props'.y + props'.h > start.y + start.h
    <3> SUFFICES ASSUME ~low
                 PROVE  \/ props'.y + props'.h = start.y + start.h
                        \/ least' /\ props'.y + props'.h > start.y + start.h
      OBVIOUS
    <3>1. -dy \in Int /\ props.y - dy = props.y + (-dy) /\ props.h + dy = props.h - (-dy)
      BY <1>0, <2>2
    <3>2. props'.h = M!AtLeast(props.h - (-dy)) /\ props'.y = props.y + (-dy)
      BY <2>3, <3>1
    <3>3. /\ props'.h \in Int
          /\ \/ props.y + (-dy) + props'.h = props.y + props.h
             \/ props'.h = Least /\ props.y + (-dy) + props'.h > props.y + props.h
      <4>1. \A d \in Int : LET m == M!AtLeast(props.h - d)
                           IN  /\ m \in Int
                               /\ \/ props.y + d + m = props.y + props.h
                                  \/ m = Least /\ props.y + d + m > props.y + props.h
        BY <2>2, FarEdge
      <4> QED
        BY <3>1, <3>2, <4>1
    <3>4. /\ least \in BOOLEAN /\ least' \in BOOLEAN /\ (least => least')
          /\ props'.h = Least => least'
      BY <1>0, <2>1, <2>5 DEF M!TypeOK
    <3>5. /\ props.y + props.h \in Int /\ props'.y + props'.h \in Int /\ start.y + start.h \in Int
          /\ props'.y + props'.h = props.y + (-dy) + props'.h
      BY <2>2, <3>1, <3>2, <3>3
    <3>6. \/ props'.y + props'.h = props.y + props.h
          \/ least' /\ props'.y + props'.h > props.y + props.h
      BY <3>3, <3>4, <3>5
    <3> QED
      BY <2>6, <3>4, <3>5, <3>6, EdgeStays
  <2>9. M!OppositeEdge'
    BY <1>1, <2>3, <2>6, <2>7, <2>8 DEF M!OppositeEdge
  <2>10. M!OverlayIsCurrent'
    BY <1>0, <1>1, <2>1 DEF M!OverlayIsCurrent
  <2> QED
    BY <1>0, <1>1, <1>3, <2>1, <2>5, <2>9, <2>10 DEF M!ScwmInv, M!OneDrag, M!MovedIsTracked,
       M!ResizeIsApplied
<1> QED
  BY <1>2, <1>3

(* For any windows, sizes of the screen and of windows, and any number of  *)
(* events: a window that is moved is where the window manager believes,    *)
(* the edge opposite to the dragged one stays where it was until the least *)
(* size is reached, the overlay shows the rectangle of the resize that     *)
(* goes on, and that is what the window gets in the end; except for moves  *)
(* that `cut' a resize of the same window, and once a second press has     *)
(* `switched' a resize.  Programs leave a window alone while it is         *)
(* dragged.  All of it rests on win_props being used by one drag at a time *)
(* (OneDrag).                                                              *)
THEOREM DragStaysTracked == Spec => DragIsTracked
<1> DEFINE Inv == part = "scwm" => M!ScwmInv
           Kept == part = "scwm" => /\ M!MovedIsTracked' /\ M!OppositeEdge' /\ M!OverlayIsCurrent'
                                    /\ M!ResizeIsApplied
<1>1. Init => Inv
  BY InitScwm DEF Init
<1>2. Inv /\ [Next]_vars => Inv' /\ [Kept]_vars
  <2> SUFFICES ASSUME Inv, [Next]_vars
               PROVE  Inv' /\ [Kept]_vars
    OBVIOUS
  <2>1. CASE part # "scwm"
    BY <2>1 DEF Next, vars
  <2>2. CASE part = "scwm" /\ Next
    <3>1. M!ScwmInv' /\ M!ResizeIsApplied
      BY <2>2, ScwmOthers, ScwmMeta, ScwmButton, ScwmMouse DEF Next, M!Next
    <3> QED
      BY <3>1 DEF M!ScwmInv
  <2>3. CASE part = "scwm" /\ UNCHANGED vars
    BY <2>3 DEF vars, wmVars, M!ScwmInv, M!TypeOK, M!OneDrag, M!MovedIsTracked, M!OppositeEdge,
       M!OverlayIsCurrent, M!Rectangles
  <2> QED
    BY <2>1, <2>2, <2>3
<1>3. DragIsTracked <=> [][Kept]_vars
  BY DEF DragIsTracked
<1> QED
  BY <1>1, <1>2, <1>3, PTL DEF Spec

(***************************************************************************)
(* The conversation with the compositor                                    *)
(***************************************************************************)

(* Numbers in increasing order, when one is added at the end, taken from   *)
(* the front, or another such sequence follows.                            *)
LEMMA IncreasingAppend ==
  ASSUME NEW s \in Seq(Nat), NEW x \in Nat
  PROVE  /\ Append(s, x) \in Seq(Nat) /\ Ses!Range(Append(s, x)) = Ses!Range(s) \cup {x}
         /\ Ses!Increasing(s) /\ (\A y \in Ses!Range(s) : y < x) => Ses!Increasing(Append(s, x))
<1> DEFINE t == Append(s, x)
<1>1. /\ t \in Seq(Nat) /\ DOMAIN t = 1..(Len(s) + 1) /\ DOMAIN s = 1..Len(s) /\ Len(s) \in Nat
      /\ \A i \in 1..Len(s) : t[i] = s[i]
      /\ t[Len(s) + 1] = x
  OBVIOUS
<1> HIDE DEF t
<1>2. Ses!Range(t) = Ses!Range(s) \cup {x}
  <2>1. ASSUME NEW y \in Ses!Range(t)
        PROVE  y \in Ses!Range(s) \cup {x}
    <3>1. PICK i \in 1..(Len(s) + 1) : y = t[i]
      BY <1>1, <2>1 DEF Ses!Range
    <3>2. i \in 1..Len(s) \/ i = Len(s) + 1
      BY <1>1
    <3> QED
      BY <1>1, <3>1, <3>2 DEF Ses!Range
  <2>2. ASSUME NEW y \in Ses!Range(s) \cup {x}
        PROVE  y \in Ses!Range(t)
    <3>1. CASE y = x
      BY <1>1, <3>1 DEF Ses!Range
    <3>2. CASE y # x
      <4>1. PICK i \in 1..Len(s) : y = s[i]
        BY <1>1, <3>2 DEF Ses!Range
      <4>2. i \in 1..(Len(s) + 1)
        BY <1>1
      <4> QED
        BY <1>1, <4>1, <4>2 DEF Ses!Range
    <3> QED
      BY <3>1, <3>2
  <2> QED
    BY <2>1, <2>2
<1>3. ASSUME Ses!Increasing(s), \A y \in Ses!Range(s) : y < x
      PROVE  Ses!Increasing(t)
  <2> SUFFICES ASSUME NEW i \in 1..(Len(s) + 1), NEW j \in 1..(Len(s) + 1), i < j
               PROVE  t[i] < t[j]
    BY <1>1 DEF Ses!Increasing
  <2>1. i \in 1..Len(s) /\ (j \in 1..Len(s) \/ j = Len(s) + 1)
    <3>1. Len(s) \in Nat
      BY <1>1
    <3> QED
      BY <3>1
  <2>2. s[i] \in Ses!Range(s)
    BY <1>1, <2>1 DEF Ses!Range
  <2> QED
    BY <1>1, <1>3, <2>1, <2>2 DEF Ses!Increasing
<1> QED
  BY <1>1, <1>2, <1>3 DEF t

LEMMA IncreasingTail ==
  ASSUME NEW s \in Seq(Nat), s # << >>, Ses!Increasing(s)
  PROVE  /\ Head(s) \in Nat /\ Tail(s) \in Seq(Nat) /\ Ses!Increasing(Tail(s))
         /\ Head(s) \in Ses!Range(s) /\ Ses!Range(Tail(s)) = Ses!Range(s) \ {Head(s)}
         /\ \A y \in Ses!Range(Tail(s)) : Head(s) < y
<1> DEFINE t == Tail(s)
<1>1. /\ t \in Seq(Nat) /\ DOMAIN t = 1..(Len(s) - 1) /\ DOMAIN s = 1..Len(s) /\ Len(s) \in Nat \ {0}
      /\ \A i \in 1..(Len(s) - 1) : t[i] = s[i + 1]
      /\ Head(s) = s[1] /\ \A i \in 1..Len(s) : s[i] \in Nat
  OBVIOUS
<1> HIDE DEF t
<1>2. Head(s) \in Nat /\ Head(s) \in Ses!Range(s)
  BY <1>1 DEF Ses!Range
<1>3. \A y \in Ses!Range(t) : Head(s) < y /\ y \in Ses!Range(s)
  <2> SUFFICES ASSUME NEW i \in 1..(Len(s) - 1)
               PROVE  Head(s) < t[i] /\ t[i] \in Ses!Range(s)
    BY <1>1 DEF Ses!Range
  <2>1. i + 1 \in 1..Len(s) /\ 1 \in 1..Len(s) /\ 1 < i + 1
    BY <1>1
  <2> QED
    BY <1>1, <2>1 DEF Ses!Range, Ses!Increasing
<1>4. ASSUME NEW y \in Ses!Range(s), y # Head(s)
      PROVE  y \in Ses!Range(t)
  <2>1. PICK i \in 1..Len(s) : y = s[i]
    BY <1>1, <1>4 DEF Ses!Range
  <2>2. i - 1 \in 1..(Len(s) - 1) /\ (i - 1) + 1 = i
    BY <1>1, <1>4, <2>1
  <2> QED
    BY <1>1, <2>1, <2>2 DEF Ses!Range
<1>5. Ses!Increasing(t)
  <2> SUFFICES ASSUME NEW i \in 1..(Len(s) - 1), NEW j \in 1..(Len(s) - 1), i < j
               PROVE  t[i] < t[j]
    BY <1>1 DEF Ses!Increasing
  <2>1. i + 1 \in 1..Len(s) /\ j + 1 \in 1..Len(s) /\ i + 1 < j + 1
    BY <1>1
  <2> QED
    BY <1>1, <2>1 DEF Ses!Increasing
<1>6. Head(s) \notin Ses!Range(t)
  BY <1>2, <1>3
<1> QED
  BY <1>1, <1>2, <1>3, <1>4, <1>5, <1>6 DEF t

LEMMA IncreasingConcat ==
  ASSUME NEW s \in Seq(Nat), NEW t \in Seq(Nat), Ses!Increasing(s), Ses!Increasing(t),
         \A x \in Ses!Range(s), y \in Ses!Range(t) : x < y
  PROVE  /\ s \o t \in Seq(Nat) /\ Ses!Increasing(s \o t)
         /\ Ses!Range(s \o t) = Ses!Range(s) \cup Ses!Range(t)
<1> DEFINE u == s \o t
<1>1. /\ u \in Seq(Nat) /\ DOMAIN u = 1..(Len(s) + Len(t)) /\ DOMAIN s = 1..Len(s) /\ DOMAIN t = 1..Len(t)
      /\ Len(s) \in Nat /\ Len(t) \in Nat
      /\ \A i \in 1..(Len(s) + Len(t)) : u[i] = IF i <= Len(s) THEN s[i] ELSE t[i - Len(s)]
  OBVIOUS
<1> HIDE DEF u
<1>2. \A i \in 1..(Len(s) + Len(t)) :
        \/ i \in 1..Len(s) /\ u[i] = s[i]
        \/ i > Len(s) /\ i - Len(s) \in 1..Len(t) /\ u[i] = t[i - Len(s)]
  BY <1>1
<1>a. \A i \in 1..Len(s) : i \in 1..(Len(s) + Len(t)) /\ ~(i > Len(s))
  BY <1>1
<1>3. Ses!Increasing(u)
  <2> SUFFICES ASSUME NEW i \in 1..(Len(s) + Len(t)), NEW j \in 1..(Len(s) + Len(t)), i < j
               PROVE  u[i] < u[j]
    BY <1>1 DEF Ses!Increasing
  <2>1. CASE i \in 1..Len(s) /\ j \in 1..Len(s)
    <3>1. u[i] = s[i] /\ u[j] = s[j]
      BY <1>2, <1>a, <2>1
    <3> QED
      BY <1>1, <2>1, <3>1 DEF Ses!Increasing
  <2>2. CASE i \in 1..Len(s) /\ ~(j \in 1..Len(s))
    <3>1. u[i] = s[i] /\ j - Len(s) \in 1..Len(t) /\ u[j] = t[j - Len(s)]
      BY <1>2, <1>a, <2>2
    <3>2. u[i] \in Ses!Range(s) /\ u[j] \in Ses!Range(t)
      BY <1>1, <2>2, <3>1 DEF Ses!Range
    <3> QED
      BY <3>2
  <2>3. CASE ~(i \in 1..Len(s))
    <3>1. i - Len(s) \in 1..Len(t) /\ j - Len(s) \in 1..Len(t) /\ i - Len(s) < j - Len(s)
      BY <1>1, <1>2, <2>3
    <3>2. u[i] = t[i - Len(s)] /\ u[j] = t[j - Len(s)]
      BY <1>1, <2>3, <3>1
    <3> QED
      BY <1>1, <3>1, <3>2 DEF Ses!Increasing
  <2> QED
    BY <2>1, <2>2, <2>3
<1>4. ASSUME NEW y \in Ses!Range(u)
      PROVE  y \in Ses!Range(s) \cup Ses!Range(t)
  <2>1. PICK i \in 1..(Len(s) + Len(t)) : y = u[i]
    BY <1>1, <1>4 DEF Ses!Range
  <2> QED
    BY <1>1, <1>2, <2>1 DEF Ses!Range
<1>5. ASSUME NEW y \in Ses!Range(s)
      PROVE  y \in Ses!Range(u)
  <2>1. PICK i \in 1..Len(s) : y = s[i]
    BY <1>1, <1>5 DEF Ses!Range
  <2>2. i \in 1..(Len(s) + Len(t)) /\ i <= Len(s)
    BY <1>1
  <2> QED
    BY <1>1, <2>1, <2>2 DEF Ses!Range
<1>6. ASSUME NEW y \in Ses!Range(t)
      PROVE  y \in Ses!Range(u)
  <2>1. PICK i \in 1..Len(t) : y = t[i]
    BY <1>1, <1>6 DEF Ses!Range
  <2>2. i + Len(s) \in 1..(Len(s) + Len(t)) /\ ~(i + Len(s) <= Len(s)) /\ (i + Len(s)) - Len(s) = i
    BY <1>1
  <2>3. u[i + Len(s)] = t[i]
    BY <1>1, <2>2
  <2> QED
    BY <1>1, <2>1, <2>2, <2>3 DEF Ses!Range
<1> QED
  BY <1>1, <1>3, <1>4, <1>5, <1>6 DEF u

(* An event is sent.                                                       *)
LEMMA OrderSent ==
  ASSUME NEW a \in Seq(Nat), NEW b \in Seq(Nat), NEW c \in Seq(Nat), NEW n \in Nat, NEW T,
         Ses!InOrder(a, b, c, n, T)
  PROVE  Ses!InOrder(a, b, Append(c, n + 1), n + 1, T)
<1>1. /\ Ses!Range(a) \cup Ses!Range(b) \cup Ses!Range(c) = (1..n) \ T /\ T \subseteq 1..n
      /\ Ses!Increasing(a) /\ Ses!Increasing(b) /\ Ses!Increasing(c)
      /\ \A x \in Ses!Range(a), y \in Ses!Range(b) \cup Ses!Range(c) : x < y
      /\ \A x \in Ses!Range(b), y \in Ses!Range(c) : x < y
  BY DEF Ses!InOrder
<1>2. 1..(n + 1) = (1..n) \cup {n + 1} /\ n + 1 \notin T /\ n + 1 \in Nat
  BY <1>1
<1>3. \A x \in Ses!Range(a) \cup Ses!Range(b) \cup Ses!Range(c) : x < n + 1
  BY <1>1
<1>4. Ses!Range(Append(c, n + 1)) = Ses!Range(c) \cup {n + 1} /\ Ses!Increasing(Append(c, n + 1))
  BY <1>1, <1>2, <1>3, IncreasingAppend
<1>5. Ses!Range(a) \cup Ses!Range(b) \cup Ses!Range(Append(c, n + 1)) = (1..(n + 1)) \ T
  BY <1>1, <1>2, <1>4, Zenon
<1>6. T \subseteq 1..(n + 1)
  BY <1>1, <1>2
<1> QED
  BY <1>1, <1>3, <1>4, <1>5, <1>6 DEF Ses!InOrder

(* The first of the last sequence goes to T, to the end of the second, or, *)
(* if that is empty, of the first.                                         *)
LEMMA OrderTaken ==
  ASSUME NEW a \in Seq(Nat), NEW b \in Seq(Nat), NEW c \in Seq(Nat), NEW n \in Nat, NEW T,
         Ses!InOrder(a, b, c, n, T), c # << >>
  PROVE  /\ Ses!InOrder(a, b, Tail(c), n, T \cup {Head(c)})
         /\ Ses!InOrder(a, Append(b, Head(c)), Tail(c), n, T)
         /\ b = << >> => Ses!InOrder(Append(a, Head(c)), b, Tail(c), n, T)
<1> DEFINE h == Head(c)
           t == Tail(c)
<1>1. /\ Ses!Range(a) \cup Ses!Range(b) \cup Ses!Range(c) = (1..n) \ T /\ T \subseteq 1..n
      /\ Ses!Increasing(a) /\ Ses!Increasing(b) /\ Ses!Increasing(c)
      /\ \A x \in Ses!Range(a), y \in Ses!Range(b) \cup Ses!Range(c) : x < y
      /\ \A x \in Ses!Range(b), y \in Ses!Range(c) : x < y
  BY DEF Ses!InOrder
<1>2. /\ h \in Nat /\ t \in Seq(Nat) /\ Ses!Increasing(t) /\ h \in Ses!Range(c)
      /\ Ses!Range(t) = Ses!Range(c) \ {h} /\ \A y \in Ses!Range(t) : h < y
  BY <1>1, IncreasingTail
<1> HIDE DEF h, t
<1>3. h \in 1..n /\ h \notin T /\ \A x \in Ses!Range(a) \cup Ses!Range(b) : x < h /\ x # h
  <2>1. \A x \in Ses!Range(a) \cup Ses!Range(b) : x < h /\ x \in Nat
    BY <1>1, <1>2
  <2> QED
    BY <1>1, <1>2, <2>1
<1>4. Ses!InOrder(a, b, t, n, T \cup {h})
  <2>1. Ses!Range(a) \cup Ses!Range(b) \cup Ses!Range(t) = (1..n) \ (T \cup {h})
    BY <1>1, <1>2, <1>3, Zenon
  <2>2. T \cup {h} \subseteq 1..n
    BY <1>1, <1>3
  <2> QED
    BY <1>1, <1>2, <2>1, <2>2 DEF Ses!InOrder
<1>5. Ses!InOrder(a, Append(b, h), t, n, T)
  <2>1. Ses!Range(Append(b, h)) = Ses!Range(b) \cup {h} /\ Ses!Increasing(Append(b, h))
    BY <1>1, <1>2, <1>3, IncreasingAppend
  <2>2. Ses!Range(a) \cup Ses!Range(Append(b, h)) \cup Ses!Range(t) = (1..n) \ T
    BY <1>1, <1>2, <2>1, Zenon
  <2> QED
    BY <1>1, <1>2, <1>3, <2>1, <2>2 DEF Ses!InOrder
<1>6. ASSUME b = << >>
      PROVE  Ses!InOrder(Append(a, h), b, t, n, T)
  <2>1. Ses!Range(Append(a, h)) = Ses!Range(a) \cup {h} /\ Ses!Increasing(Append(a, h))
    BY <1>1, <1>2, <1>3, IncreasingAppend
  <2>2. Ses!Range(b) = {}
    BY <1>6 DEF Ses!Range
  <2>3. Ses!Range(Append(a, h)) \cup Ses!Range(b) \cup Ses!Range(t) = (1..n) \ T
    BY <1>1, <1>2, <2>1, Zenon
  <2> QED
    BY <1>1, <1>2, <1>3, <2>1, <2>2, <2>3 DEF Ses!InOrder
<1> QED
  BY <1>4, <1>5, <1>6 DEF h, t

(* The first of the second sequence goes to the end of the first.          *)
LEMMA OrderMoved ==
  ASSUME NEW a \in Seq(Nat), NEW b \in Seq(Nat), NEW c \in Seq(Nat), NEW n \in Nat, NEW T,
         Ses!InOrder(a, b, c, n, T), b # << >>
  PROVE  Ses!InOrder(Append(a, Head(b)), Tail(b), c, n, T)
<1> DEFINE h == Head(b)
           t == Tail(b)
<1>1. /\ Ses!Range(a) \cup Ses!Range(b) \cup Ses!Range(c) = (1..n) \ T /\ T \subseteq 1..n
      /\ Ses!Increasing(a) /\ Ses!Increasing(b) /\ Ses!Increasing(c)
      /\ \A x \in Ses!Range(a), y \in Ses!Range(b) \cup Ses!Range(c) : x < y
      /\ \A x \in Ses!Range(b), y \in Ses!Range(c) : x < y
  BY DEF Ses!InOrder
<1>2. /\ h \in Nat /\ t \in Seq(Nat) /\ Ses!Increasing(t) /\ h \in Ses!Range(b)
      /\ Ses!Range(t) = Ses!Range(b) \ {h} /\ \A y \in Ses!Range(t) : h < y
  BY <1>1, IncreasingTail
<1> HIDE DEF h, t
<1>3. Ses!Range(Append(a, h)) = Ses!Range(a) \cup {h} /\ Ses!Increasing(Append(a, h))
  BY <1>1, <1>2, IncreasingAppend
<1>4. Ses!Range(Append(a, h)) \cup Ses!Range(t) \cup Ses!Range(c) = (1..n) \ T
  BY <1>1, <1>2, <1>3, Zenon
<1>5. Ses!InOrder(Append(a, h), t, c, n, T)
  BY <1>1, <1>2, <1>3, <1>4 DEF Ses!InOrder
<1> QED
  BY <1>5 DEF h, t

LEMMA SequenceIsFunction ==
  ASSUME NEW X, NEW q \in Seq(X)
  PROVE  q = [i \in 1..Len(q) |-> q[i]]
  OBVIOUS

(* The numbers of events that are added or taken.                          *)
LEMMA NumbersOf ==
  ASSUME NEW s \in Seq(Ses!EventRecs)
  PROVE  /\ Ses!Numbers(s) \in Seq(Nat) /\ (s = << >> <=> Ses!Numbers(s) = << >>)
         /\ \A e \in Ses!EventRecs : Ses!Numbers(Append(s, e)) = Append(Ses!Numbers(s), e.n)
         /\ s # << >> => /\ Ses!Numbers(Tail(s)) = Tail(Ses!Numbers(s))
                         /\ Head(s) \in Ses!EventRecs /\ Head(Ses!Numbers(s)) = Head(s).n
<1>0. /\ DOMAIN s = 1..Len(s) /\ Len(s) \in Nat /\ \A e \in Ses!EventRecs : e.n \in Nat
      /\ \A i \in 1..Len(s) : s[i] \in Ses!EventRecs
  BY DEF Ses!EventRecs
<1> DEFINE N == Ses!Numbers(s)
<1>1. N = [i \in 1..Len(s) |-> s[i].n]
  BY <1>0 DEF Ses!Numbers
<1>2. N \in Seq(Nat) /\ Len(N) = Len(s)
  BY <1>0, <1>1
<1>3. ASSUME NEW e \in Ses!EventRecs
      PROVE  Ses!Numbers(Append(s, e)) = Append(N, e.n)
  <2> DEFINE t == Append(s, e)
  <2>1. DOMAIN t = 1..(Len(s) + 1) /\ \A i \in 1..(Len(s) + 1) : t[i] = IF i <= Len(s) THEN s[i] ELSE e
    BY <1>0
  <2>2. Append(N, e.n) = [i \in 1..(Len(s) + 1) |-> IF i <= Len(s) THEN N[i] ELSE e.n]
    BY <1>0, <1>2
  <2> HIDE DEF t
  <2>3. Ses!Numbers(t) = [i \in 1..(Len(s) + 1) |-> t[i].n]
    BY <2>1 DEF Ses!Numbers
  <2>4. \A i \in 1..(Len(s) + 1) : t[i].n = IF i <= Len(s) THEN N[i] ELSE e.n
    BY <1>0, <1>1, <2>1
  <2> HIDE DEF N
  <2>5. Ses!Numbers(t) = Append(N, e.n)
    BY <2>2, <2>3, <2>4
  <2> QED
    BY <2>5 DEF t
<1>4. ASSUME s # << >>
      PROVE  Ses!Numbers(Tail(s)) = Tail(N) /\ Head(s) \in Ses!EventRecs /\ Head(N) = Head(s).n
  <2> DEFINE t == Tail(s)
  <2>0. Len(s) > 0
    BY <1>4
  <2>1. DOMAIN t = 1..(Len(s) - 1) /\ \A i \in 1..(Len(s) - 1) : t[i] = s[i + 1]
    BY <1>0, <1>4
  <2>2. Tail(N) = [i \in 1..(Len(s) - 1) |-> N[i + 1]]
    <3> HIDE DEF N
    <3>1. N \in Seq(Nat) /\ N # << >> /\ Len(N) = Len(s)
      BY <1>2, <2>0
    <3>2. /\ Tail(N) \in Seq(Nat) /\ Len(Tail(N)) = Len(N) - 1
          /\ \A i \in 1..(Len(N) - 1) : Tail(N)[i] = N[i + 1]
      BY <3>1
    <3>3. Tail(N) = [i \in 1..Len(Tail(N)) |-> Tail(N)[i]]
      BY <3>2, SequenceIsFunction, Zenon
    <3>4. Tail(N) = [i \in 1..(Len(s) - 1) |-> Tail(N)[i]]
      BY <3>1, <3>2, <3>3
    <3> QED
      BY <3>1, <3>2, <3>4
  <2> HIDE DEF t
  <2>3. Ses!Numbers(t) = [i \in 1..(Len(s) - 1) |-> t[i].n]
    BY <2>1 DEF Ses!Numbers
  <2>4. \A i \in 1..(Len(s) - 1) : t[i].n = N[i + 1]
    BY <1>0, <1>1, <2>1
  <2>5. Head(s) = s[1] /\ Head(N) = N[1] /\ N[1] = s[1].n /\ s[1] \in Ses!EventRecs
    BY <1>0, <1>1, <1>2, <2>0
  <2> HIDE DEF N
  <2>6. Ses!Numbers(t) = Tail(N)
    BY <2>2, <2>3, <2>4
  <2> QED
    BY <2>5, <2>6 DEF t
<1>5. s = << >> <=> N = << >>
  BY <1>0, <1>2
<1> QED
  BY <1>2, <1>3, <1>4, <1>5

(* Events that follow each other as the invariant says do so in one        *)
(* sequence.                                                               *)
LEMMA EventsFollow ==
  ASSUME Ses!TypeOK,
         Ses!InOrder(delivered, Ses!Numbers(raised), Ses!Numbers(ses_events), ses_sent, taken)
  PROVE  Ses!EventsInOrder
<1> DEFINE a == delivered
           b == Ses!Numbers(raised)
           c == Ses!Numbers(ses_events)
           ab == a \o b
<1>1. a \in Seq(Nat) /\ b \in Seq(Nat) /\ c \in Seq(Nat)
  BY NumbersOf DEF Ses!TypeOK
<1>2. /\ Ses!Range(a) \cup Ses!Range(b) \cup Ses!Range(c) = (1..ses_sent) \ taken
      /\ Ses!Increasing(a) /\ Ses!Increasing(b) /\ Ses!Increasing(c)
      /\ \A x \in Ses!Range(a), y \in Ses!Range(b) \cup Ses!Range(c) : x < y
      /\ \A x \in Ses!Range(b), y \in Ses!Range(c) : x < y
  BY DEF Ses!InOrder
<1> HIDE DEF a, b, c
<1>3. ab \in Seq(Nat) /\ Ses!Increasing(ab) /\ Ses!Range(ab) = Ses!Range(a) \cup Ses!Range(b)
  BY <1>1, <1>2, IncreasingConcat
<1>4. \A x \in Ses!Range(ab), y \in Ses!Range(c) : x < y
  BY <1>2, <1>3
<1> HIDE DEF ab
<1>5. Ses!Increasing(ab \o c) /\ Ses!Range(ab \o c) = Ses!Range(ab) \cup Ses!Range(c)
  BY <1>1, <1>2, <1>3, <1>4, IncreasingConcat
<1> QED
  BY <1>2, <1>3, <1>5 DEF Ses!EventsInOrder, Ses!Increasing, ab, a, b, c

(***************************************************************************)
(* Elements of a sequence that are counted.                                *)
(***************************************************************************)
LEMMA SessionCounts == \A T : Ses!Cardinality(T) = Cardinality(T)
  BY DEF Ses!Cardinality, Cardinality, Ses!IsFiniteSet, IsFiniteSet

LEMMA CountFacts ==
  ASSUME NEW Y, NEW s \in Seq(Y), NEW X
  PROVE  /\ Ses!Count(s, X) \in Nat /\ IsFiniteSet({i \in DOMAIN s : s[i] \in X})
         /\ Ses!Count(s, X) = 0 <=> \A i \in DOMAIN s : s[i] \notin X
<1> DEFINE A == {i \in DOMAIN s : s[i] \in X}
<1>1. A \in SUBSET (1..Len(s)) /\ IsFiniteSet(1..Len(s))
  BY FS_Interval
<1>2. IsFiniteSet(A)
  BY <1>1, FS_Subset
<1>3. Cardinality(A) \in Nat /\ (Cardinality(A) = 0 <=> A = {})
  BY <1>2, FS_CardinalityType, FS_EmptySet
<1>4. Ses!Count(s, X) = Cardinality(A)
  BY SessionCounts DEF Ses!Count
<1> QED
  BY <1>2, <1>3, <1>4

LEMMA CountAppend ==
  ASSUME NEW Y, NEW s \in Seq(Y), NEW e \in Y, NEW X
  PROVE  Ses!Count(Append(s, e), X) = Ses!Count(s, X) + (IF e \in X THEN 1 ELSE 0)
<1> DEFINE t == Append(s, e)
           A == {i \in DOMAIN s : s[i] \in X}
           B == {i \in DOMAIN t : t[i] \in X}
<1>1. /\ DOMAIN t = 1..(Len(s) + 1) /\ DOMAIN s = 1..Len(s) /\ Len(s) \in Nat
      /\ \A i \in 1..Len(s) : t[i] = s[i]
      /\ t[Len(s) + 1] = e
  OBVIOUS
<1>2. IsFiniteSet(A) /\ Cardinality(A) \in Nat /\ Ses!Count(s, X) = Cardinality(A)
  BY CountFacts, SessionCounts, FS_CardinalityType DEF Ses!Count
<1>3. Ses!Count(t, X) = Cardinality(B)
  BY SessionCounts DEF Ses!Count
<1> SUFFICES Cardinality(B) = Cardinality(A) + (IF e \in X THEN 1 ELSE 0)
  BY <1>2, <1>3
<1> HIDE DEF t
<1>4. Len(s) + 1 \notin A /\ 1..(Len(s) + 1) = (1..Len(s)) \cup {Len(s) + 1}
  BY <1>1
<1>5. CASE e \in X
  <2>1. B = A \cup {Len(s) + 1}
    BY <1>1, <1>4, <1>5
  <2> HIDE DEF A, B
  <2>2. Cardinality(A \cup {Len(s) + 1}) = Cardinality(A) + 1
    BY <1>2, <1>4, FS_AddElement
  <2> QED
    BY <1>5, <2>1, <2>2
<1>6. CASE e \notin X
  <2>1. B = A
    BY <1>1, <1>4, <1>6
  <2> HIDE DEF A, B
  <2> QED
    BY <1>2, <1>6, <2>1
<1> QED
  BY <1>5, <1>6

LEMMA CountTail ==
  ASSUME NEW Y, NEW s \in Seq(Y), s # << >>, NEW X
  PROVE  /\ Ses!Count(Tail(s), X) = Ses!Count(s, X) - (IF Head(s) \in X THEN 1 ELSE 0)
         /\ Head(s) \in X => Ses!Count(s, X) >= 1
<1> DEFINE t == Tail(s)
           A == {i \in DOMAIN s : s[i] \in X}
           B == {i \in DOMAIN t : t[i] \in X}
           f == [i \in A \ {1} |-> i - 1]
<1>1. /\ DOMAIN t = 1..(Len(s) - 1) /\ DOMAIN s = 1..Len(s) /\ Len(s) \in Nat \ {0}
      /\ \A i \in 1..(Len(s) - 1) : t[i] = s[i + 1]
      /\ Head(s) = s[1]
  OBVIOUS
<1>2. IsFiniteSet(A) /\ Cardinality(A) \in Nat /\ Ses!Count(s, X) = Cardinality(A)
  BY CountFacts, SessionCounts, FS_CardinalityType DEF Ses!Count
<1>3. Ses!Count(t, X) = Cardinality(B)
  BY SessionCounts DEF Ses!Count
<1> HIDE DEF t
<1>4. /\ \A i \in A \ {1} : i - 1 \in B /\ i \in Int
      /\ \A i \in B : i + 1 \in A \ {1} /\ (i + 1) - 1 = i
  BY <1>1
<1> HIDE DEF A, B
<1>5. f \in [A \ {1} -> B]
  BY <1>4
<1>6. \A i, j \in A \ {1} : f[i] = f[j] => i = j
  BY <1>4
<1>7. \A i \in B : \E j \in A \ {1} : f[j] = i
  BY <1>4
<1>8. f \in Bijection(A \ {1}, B)
  <2> HIDE DEF f
  <2> QED
    BY <1>5, <1>6, <1>7 DEF Bijection, Injection, Surjection, IsInjective
<1>9. ExistsBijection(A \ {1}, B)
  BY <1>8 DEF ExistsBijection
<1>10. /\ IsFiniteSet(A \ {1})
       /\ Cardinality(A \ {1}) = IF 1 \in A THEN Cardinality(A) - 1 ELSE Cardinality(A)
       /\ Cardinality(A \ {1}) \in Nat
  BY <1>2, FS_RemoveElement, FS_CardinalityType
<1>11. Cardinality(B) = Cardinality(A \ {1})
  BY <1>9, <1>10, FS_Bijection
<1>12. 1 \in A <=> Head(s) \in X
  BY <1>1 DEF A
<1>13. Ses!Count(t, X) = Ses!Count(s, X) - (IF Head(s) \in X THEN 1 ELSE 0)
  BY <1>2, <1>3, <1>10, <1>11, <1>12
<1>14. Head(s) \in X => Ses!Count(s, X) >= 1
  BY <1>2, <1>10, <1>12
<1> QED
  BY <1>13, <1>14 DEF t

(***************************************************************************)
(* The kinds of the elements of a sequence, and the sizes its RESIZE       *)
(* events of a window carry.                                               *)
(***************************************************************************)
LEMMA KindAppend ==
  ASSUME NEW Y, NEW s \in Seq(Y), NEW e \in Y, NEW ty
  PROVE  /\ Ses!NoneOf(s, ty) /\ e.type # ty => Ses!NoneOf(Append(s, e), ty)
         /\ Ses!NoneOf(s, ty) => Ses!OneOf(Append(s, e), ty)
         /\ Ses!OneOf(s, ty) /\ e.type # ty => Ses!OneOf(Append(s, e), ty)
<1> DEFINE t == Append(s, e)
<1>1. /\ DOMAIN t = 1..(Len(s) + 1) /\ DOMAIN s = 1..Len(s) /\ Len(s) \in Nat
      /\ \A i \in 1..Len(s) : t[i] = s[i]
      /\ t[Len(s) + 1] = e
      /\ \A i \in 1..(Len(s) + 1) : i \in 1..Len(s) \/ i = Len(s) + 1
  OBVIOUS
<1> HIDE DEF t
<1>2. Ses!NoneOf(s, ty) /\ e.type # ty => Ses!NoneOf(t, ty)
  BY <1>1 DEF Ses!NoneOf
<1>3. Ses!NoneOf(s, ty) => Ses!OneOf(t, ty)
  BY <1>1 DEF Ses!NoneOf, Ses!OneOf
<1>4. Ses!OneOf(s, ty) /\ e.type # ty => Ses!OneOf(t, ty)
  BY <1>1 DEF Ses!OneOf
<1> QED
  BY <1>2, <1>3, <1>4 DEF t

LEMMA KindTail ==
  ASSUME NEW Y, NEW s \in Seq(Y), s # << >>, NEW ty
  PROVE  /\ Ses!NoneOf(s, ty) => Ses!NoneOf(Tail(s), ty) /\ Head(s).type # ty
         /\ Ses!OneOf(s, ty) => Ses!OneOf(Tail(s), ty)
         /\ Ses!OneOf(s, ty) /\ Head(s).type = ty => Ses!NoneOf(Tail(s), ty)
<1> DEFINE t == Tail(s)
<1>1. /\ DOMAIN t = 1..(Len(s) - 1) /\ DOMAIN s = 1..Len(s) /\ Len(s) \in Nat \ {0}
      /\ \A i \in 1..(Len(s) - 1) : t[i] = s[i + 1] /\ i + 1 \in 1..Len(s) /\ i + 1 # 1
      /\ Head(s) = s[1] /\ 1 \in 1..Len(s)
      /\ \A i, j \in 1..(Len(s) - 1) : i + 1 = j + 1 => i = j
  OBVIOUS
<1> HIDE DEF t
<1>2. Ses!NoneOf(s, ty) => Ses!NoneOf(t, ty) /\ Head(s).type # ty
  BY <1>1 DEF Ses!NoneOf
<1>3. Ses!OneOf(s, ty) => Ses!OneOf(t, ty)
  <2> SUFFICES ASSUME Ses!OneOf(s, ty), NEW i \in 1..(Len(s) - 1), NEW j \in 1..(Len(s) - 1),
                      t[i].type = ty, t[j].type = ty
               PROVE  i = j
    BY <1>1, Zenon DEF Ses!OneOf
  <2>1. s[i + 1].type = ty /\ s[j + 1].type = ty /\ i + 1 \in DOMAIN s /\ j + 1 \in DOMAIN s
    BY <1>1
  <2>2. i + 1 = j + 1
    BY <2>1, Zenon DEF Ses!OneOf
  <2> QED
    BY <2>2
<1>4. Ses!OneOf(s, ty) /\ Head(s).type = ty => Ses!NoneOf(t, ty)
  BY <1>1 DEF Ses!OneOf, Ses!NoneOf
<1> QED
  BY <1>2, <1>3, <1>4 DEF t

LEMMA AnswersAppend ==
  ASSUME NEW Y, NEW s \in Seq(Y), NEW e \in Y, NEW o, NEW c
  PROVE  /\ Ses!Answers(s, o, c) /\ e.type # "win" => Ses!Answers(Append(s, e), o, c)
         /\ Ses!NoneOf(s, "win") /\ e.type = "win" /\ c = Append(o, e.win)
              => Ses!Answers(Append(s, e), o, c)
<1> DEFINE t == Append(s, e)
<1>1. /\ DOMAIN t = 1..(Len(s) + 1) /\ DOMAIN s = 1..Len(s) /\ Len(s) \in Nat
      /\ \A i \in 1..Len(s) : t[i] = s[i] /\ i \in 1..(Len(s) + 1)
      /\ t[Len(s) + 1] = e /\ Len(s) + 1 \in 1..(Len(s) + 1)
      /\ \A i \in 1..(Len(s) + 1) : i \in 1..Len(s) \/ i = Len(s) + 1
  OBVIOUS
<1> HIDE DEF t
<1>2. Ses!Answers(s, o, c) /\ e.type # "win" => Ses!Answers(t, o, c)
  <2> SUFFICES ASSUME Ses!Answers(s, o, c), e.type # "win"
               PROVE  Ses!Answers(t, o, c)
    OBVIOUS
  <2>0. PICK i \in DOMAIN s : /\ s[i].type = "win" /\ c = Append(o, s[i].win)
                              /\ \A j \in DOMAIN s : s[j].type = "win" => j = i
    BY Zenon DEF Ses!Answers
  <2>1. /\ i \in 1..Len(s) /\ s[i].type = "win" /\ c = Append(o, s[i].win)
        /\ \A j \in 1..Len(s) : s[j].type = "win" => j = i
    BY <1>1, <2>0, Zenon
  <2>2. \A j \in 1..(Len(s) + 1) : t[j].type = "win" => j = i
    BY <1>1, <2>1
  <2> QED
    BY <1>1, <2>1, <2>2 DEF Ses!Answers
<1>3. Ses!NoneOf(s, "win") /\ e.type = "win" /\ c = Append(o, e.win) => Ses!Answers(t, o, c)
  <2> SUFFICES ASSUME Ses!NoneOf(s, "win"), e.type = "win", c = Append(o, e.win)
               PROVE  Ses!Answers(t, o, c)
    OBVIOUS
  <2>1. \A j \in 1..(Len(s) + 1) : t[j].type = "win" => j = Len(s) + 1
    BY <1>1 DEF Ses!NoneOf
  <2> QED
    BY <1>1, <2>1 DEF Ses!Answers
<1> QED
  BY <1>2, <1>3 DEF t

LEMMA AnswersTail ==
  ASSUME NEW Y, NEW s \in Seq(Y), s # << >>, NEW o, NEW c, Ses!Answers(s, o, c)
  PROVE  /\ Head(s).type # "win" => Ses!Answers(Tail(s), o, c)
         /\ Head(s).type = "win" => Ses!NoneOf(Tail(s), "win") /\ c = Append(o, Head(s).win)
<1> DEFINE t == Tail(s)
<1>1. /\ DOMAIN t = 1..(Len(s) - 1) /\ DOMAIN s = 1..Len(s) /\ Len(s) \in Nat \ {0}
      /\ \A i \in 1..(Len(s) - 1) : t[i] = s[i + 1] /\ i + 1 \in 1..Len(s) /\ i + 1 # 1
      /\ Head(s) = s[1] /\ 1 \in 1..Len(s)
  OBVIOUS
<1> HIDE DEF t
<1>0. PICK i \in DOMAIN s : /\ s[i].type = "win" /\ c = Append(o, s[i].win)
                            /\ \A j \in DOMAIN s : s[j].type = "win" => j = i
  BY Zenon DEF Ses!Answers
<1>2. /\ i \in 1..Len(s) /\ s[i].type = "win" /\ c = Append(o, s[i].win)
      /\ \A j \in 1..Len(s) : s[j].type = "win" => j = i
  BY <1>0, <1>1, Zenon
<1>3. CASE i = 1
  <2>1. Ses!NoneOf(t, "win")
    BY <1>1, <1>2, <1>3 DEF Ses!NoneOf
  <2> QED
    BY <1>1, <1>2, <1>3, <2>1 DEF t
<1>4. CASE i # 1
  <2>1. i - 1 \in 1..(Len(s) - 1) /\ (i - 1) + 1 = i
    BY <1>1, <1>4
  <2>2. t[i - 1] = s[i]
    BY <1>1, <2>1
  <2>3. \A j \in 1..(Len(s) - 1) : t[j].type = "win" => j = i - 1
    BY <1>1, <1>2
  <2>4. Ses!Answers(t, o, c)
    BY <1>1, <1>2, <2>1, <2>2, <2>3 DEF Ses!Answers
  <2>5. Head(s).type # "win"
    BY <1>1, <1>2, <1>4
  <2> QED
    BY <2>4, <2>5 DEF t
<1> QED
  BY <1>3, <1>4

LEMMA AskedAppend ==
  ASSUME NEW Y, NEW s \in Seq(Y), NEW e \in Y, NEW w, NEW z, Ses!AskedFor(w, s, z),
         e \in Ses!Resizes(w) => e.size = z
  PROVE  Ses!AskedFor(w, Append(s, e), z)
<1> DEFINE t == Append(s, e)
<1>1. /\ DOMAIN t = 1..(Len(s) + 1) /\ DOMAIN s = 1..Len(s)
      /\ \A i \in 1..(Len(s) + 1) : (i \in 1..Len(s) /\ t[i] = s[i]) \/ t[i] = e
  OBVIOUS
<1> HIDE DEF t
<1>2. Ses!AskedFor(w, t, z)
  BY <1>1 DEF Ses!AskedFor
<1> QED
  BY <1>2 DEF t

LEMMA AskedTail ==
  ASSUME NEW Y, NEW s \in Seq(Y), s # << >>, NEW w, NEW z, Ses!AskedFor(w, s, z)
  PROVE  Ses!AskedFor(w, Tail(s), z) /\ (Head(s) \in Ses!Resizes(w) => Head(s).size = z)
<1> DEFINE t == Tail(s)
<1>1. /\ DOMAIN t = 1..(Len(s) - 1) /\ DOMAIN s = 1..Len(s)
      /\ \A i \in 1..(Len(s) - 1) : t[i] = s[i + 1] /\ i + 1 \in 1..Len(s)
      /\ Head(s) = s[1] /\ 1 \in 1..Len(s)
  OBVIOUS
<1> HIDE DEF t
<1>2. Ses!AskedFor(w, t, z) /\ (Head(s) \in Ses!Resizes(w) => Head(s).size = z)
  <2>1. ASSUME NEW i \in DOMAIN t, t[i] \in Ses!Resizes(w)
        PROVE  t[i].size = z
    <3>1. i + 1 \in DOMAIN s /\ t[i] = s[i + 1]
      BY <1>1
    <3> QED
      BY <2>1, <3>1, Zenon DEF Ses!AskedFor
  <2>2. 1 \in DOMAIN s /\ Head(s) = s[1]
    BY <1>1
  <2>3. Head(s) \in Ses!Resizes(w) => Head(s).size = z
    BY <2>2, Zenon DEF Ses!AskedFor
  <2> QED
    BY <2>1, <2>3, Zenon DEF Ses!AskedFor
<1> QED
  BY <1>2 DEF t

LEMMA AskedNone ==
  ASSUME NEW Y, NEW s \in Seq(Y), NEW w, NEW z, Ses!Count(s, Ses!Resizes(w)) = 0
  PROVE  Ses!AskedFor(w, s, z)
  BY CountFacts DEF Ses!AskedFor

(***************************************************************************)
(* What is known of a window, step by step.                                *)
(***************************************************************************)
SessionWindows == [size : Sizes, data : Sizes, in : BOOLEAN, delayed : Sizes \cup {0}]

(* An event that is not a RESIZE event of w is sent.                       *)
LEMMA KnownSent ==
  ASSUME NEW w, NEW r, NEW g, NEW z, NEW ev \in Seq(Ses!EventRecs),
         NEW ra \in Seq(Ses!EventRecs), NEW rq \in Seq(Ses!RequestRecs),
         Ses!Known(w, r, g, z, ev, ra, rq),
         NEW e \in Ses!EventRecs, e \notin Ses!Resizes(w)
  PROVE  Ses!Known(w, r, g, z, Append(ev, e), ra, rq)
<1>1. Ses!Count(Append(ev, e), Ses!Resizes(w)) = Ses!Count(ev, Ses!Resizes(w))
  <2>1. Ses!Count(Append(ev, e), Ses!Resizes(w))
          = Ses!Count(ev, Ses!Resizes(w)) + (IF e \in Ses!Resizes(w) THEN 1 ELSE 0)
    BY CountAppend
  <2>2. Ses!Count(ev, Ses!Resizes(w)) \in Nat
    BY CountFacts
  <2> QED
    BY <2>1, <2>2
<1>2. Ses!AskedFor(w, ev, z) => Ses!AskedFor(w, Append(ev, e), z)
  BY AskedAppend
<1> QED
  BY <1>1, <1>2 DEF Ses!Known

(* A request that is not a confirmation for w is made, or handled.         *)
LEMMA KnownRequest ==
  ASSUME NEW w, NEW r, NEW g, NEW z, NEW ev \in Seq(Ses!EventRecs),
         NEW ra \in Seq(Ses!EventRecs), NEW rq \in Seq(Ses!RequestRecs),
         Ses!Known(w, r, g, z, ev, ra, rq)
  PROVE  /\ \A q \in Ses!RequestRecs : q \notin Ses!Confirms(w) =>
                Ses!Known(w, r, g, z, ev, ra, Append(rq, q))
         /\ rq # << >> /\ Head(rq) \notin Ses!Confirms(w) =>
                Ses!Known(w, r, g, z, ev, ra, Tail(rq))
<1>1. ASSUME NEW q \in Ses!RequestRecs, q \notin Ses!Confirms(w)
      PROVE  Ses!Known(w, r, g, z, ev, ra, Append(rq, q))
  <2>1. Ses!Count(Append(rq, q), Ses!Confirms(w)) = Ses!Count(rq, Ses!Confirms(w))
    <3>1. Ses!Count(Append(rq, q), Ses!Confirms(w))
            = Ses!Count(rq, Ses!Confirms(w)) + (IF q \in Ses!Confirms(w) THEN 1 ELSE 0)
      BY CountAppend
    <3>2. Ses!Count(rq, Ses!Confirms(w)) \in Nat
      BY CountFacts
    <3> QED
      BY <1>1, <3>1, <3>2
  <2> QED
    BY <2>1 DEF Ses!Known
<1>2. ASSUME rq # << >>, Head(rq) \notin Ses!Confirms(w)
      PROVE  Ses!Known(w, r, g, z, ev, ra, Tail(rq))
  <2>1. Ses!Count(Tail(rq), Ses!Confirms(w)) = Ses!Count(rq, Ses!Confirms(w))
    <3>1. Ses!Count(Tail(rq), Ses!Confirms(w))
            = Ses!Count(rq, Ses!Confirms(w)) - (IF Head(rq) \in Ses!Confirms(w) THEN 1 ELSE 0)
      BY <1>2, CountTail
    <3>2. Ses!Count(rq, Ses!Confirms(w)) \in Nat
      BY CountFacts
    <3> QED
      BY <1>2, <3>1, <3>2
  <2> QED
    BY <2>1 DEF Ses!Known
<1> QED
  BY <1>1, <1>2

(* An event is read, and raised or not.                                    *)
LEMMA KnownRead ==
  ASSUME NEW w, NEW r, NEW g, NEW z, NEW ev \in Seq(Ses!EventRecs),
         NEW ra \in Seq(Ses!EventRecs), NEW rq \in Seq(Ses!RequestRecs),
         Ses!Known(w, r, g, z, ev, ra, rq)
  PROVE  /\ ev # << >> => /\ Ses!Known(w, r, g, z, Tail(ev), Append(ra, Head(ev)), rq)
                          /\ Ses!Known(w, r, g, z, Tail(ev), ra, rq)
         /\ ra # << >> => Ses!Known(w, r, g, z, ev, Tail(ra), rq)
<1> DEFINE X == Ses!Resizes(w)
           Y == Ses!Confirms(w)
<1>1. Ses!Count(ev, X) \in Nat /\ Ses!Count(ra, X) \in Nat /\ Ses!Count(rq, Y) \in Nat
  BY CountFacts
<1>2. ASSUME ev # << >>
      PROVE  /\ Ses!Known(w, r, g, z, Tail(ev), Append(ra, Head(ev)), rq)
             /\ Ses!Known(w, r, g, z, Tail(ev), ra, rq)
  <2>1. Head(ev) \in Ses!EventRecs /\ Tail(ev) \in Seq(Ses!EventRecs)
    BY <1>2
  <2>2. /\ Ses!Count(Tail(ev), X) = Ses!Count(ev, X) - (IF Head(ev) \in X THEN 1 ELSE 0)
        /\ Ses!Count(Append(ra, Head(ev)), X) = Ses!Count(ra, X) + (IF Head(ev) \in X THEN 1 ELSE 0)
        /\ Ses!Count(Tail(ev), X) \in Nat
    <3>1. Ses!Count(Tail(ev), X) = Ses!Count(ev, X) - (IF Head(ev) \in X THEN 1 ELSE 0)
      BY <1>2, CountTail
    <3>2. Ses!Count(Append(ra, Head(ev)), X) = Ses!Count(ra, X) + (IF Head(ev) \in X THEN 1 ELSE 0)
      BY <2>1, CountAppend
    <3>3. Ses!Count(Tail(ev), X) \in Nat
      BY <2>1, CountFacts
    <3> QED
      BY <3>1, <3>2, <3>3
  <2>3. Ses!AskedFor(w, ev, z) /\ Ses!AskedFor(w, ra, z) =>
          Ses!AskedFor(w, Tail(ev), z) /\ Ses!AskedFor(w, Append(ra, Head(ev)), z)
    BY <1>2, <2>1, AskedTail, AskedAppend
  <2> HIDE DEF X, Y
  <2>4. Ses!Count(Tail(ev), X) + Ses!Count(Append(ra, Head(ev)), X) = Ses!Count(ev, X) + Ses!Count(ra, X)
    BY <1>1, <2>2
  <2>5. Ses!Count(Tail(ev), X) <= Ses!Count(ev, X)
    BY <1>1, <2>2
  <2>6. Ses!Known(w, r, g, z, Tail(ev), Append(ra, Head(ev)), rq)
    BY <1>1, <2>3, <2>4 DEF Ses!Known, X, Y
  <2>7. Ses!Known(w, r, g, z, Tail(ev), ra, rq)
    BY <1>1, <2>2, <2>3, <2>5 DEF Ses!Known, X, Y
  <2> QED
    BY <2>6, <2>7
<1>3. ASSUME ra # << >>
      PROVE  Ses!Known(w, r, g, z, ev, Tail(ra), rq)
  <2>1. Ses!Count(Tail(ra), X) \in Nat /\ Ses!Count(Tail(ra), X) <= Ses!Count(ra, X)
    <3>1. Ses!Count(Tail(ra), X) = Ses!Count(ra, X) - (IF Head(ra) \in X THEN 1 ELSE 0)
      BY <1>3, CountTail
    <3>2. Ses!Count(Tail(ra), X) \in Nat
      <4>1. Tail(ra) \in Seq(Ses!EventRecs)
        BY <1>3
      <4> QED
        BY <4>1, CountFacts
    <3> QED
      BY <1>1, <3>1, <3>2
  <2>2. Ses!AskedFor(w, ra, z) => Ses!AskedFor(w, Tail(ra), z)
    BY <1>3, AskedTail
  <2> QED
    BY <1>1, <2>1, <2>2 DEF Ses!Known
<1> QED
  BY <1>2, <1>3

(* The client draws into a buffer of the size of a RESIZE event it read,   *)
(* and confirms it.                                                        *)
LEMMA KnownDrawn ==
  ASSUME NEW w, NEW r, NEW g, NEW z, NEW ev \in Seq(Ses!EventRecs),
         NEW ra \in Seq(Ses!EventRecs), NEW rq \in Seq(Ses!RequestRecs),
         Ses!Known(w, r, g, z, ev, ra, rq), NEW q \in Ses!Confirms(w)
  PROVE  /\ ev # << >> /\ Head(ev) \in Ses!Resizes(w) =>
              Ses!Known(w, r, Head(ev).size, z, Tail(ev), ra, Append(rq, q))
         /\ ra # << >> /\ Head(ra) \in Ses!Resizes(w) =>
              Ses!Known(w, r, Head(ra).size, z, ev, Tail(ra), Append(rq, q))
<1> DEFINE X == Ses!Resizes(w)
           Y == Ses!Confirms(w)
<1>1. Ses!Count(ev, X) \in Nat /\ Ses!Count(ra, X) \in Nat /\ Ses!Count(rq, Y) \in Nat
  BY CountFacts
<1>2. Ses!Count(Append(rq, q), Y) = Ses!Count(rq, Y) + 1
  <2>1. q \in Ses!RequestRecs
    BY DEF Ses!Confirms
  <2> QED
    BY <2>1, CountAppend
<1>3. ASSUME ev # << >>, Head(ev) \in X
      PROVE  Ses!Known(w, r, Head(ev).size, z, Tail(ev), ra, Append(rq, q))
  <2>1. Ses!Count(Tail(ev), X) = Ses!Count(ev, X) - 1 /\ Ses!Count(ev, X) >= 1
    BY <1>3, CountTail
  <2>2. Ses!AskedFor(w, ev, z) => Ses!AskedFor(w, Tail(ev), z) /\ Head(ev).size = z
    BY <1>3, AskedTail
  <2> HIDE DEF X, Y
  <2>3. Ses!Count(Tail(ev), X) + Ses!Count(ra, X) + Ses!Count(Append(rq, q), Y)
          = Ses!Count(ev, X) + Ses!Count(ra, X) + Ses!Count(rq, Y)
    BY <1>1, <1>2, <2>1
  <2>4. Ses!Count(ev, X) + Ses!Count(ra, X) + Ses!Count(rq, Y) # 0
    BY <1>1, <2>1
  <2> QED
    BY <2>2, <2>3, <2>4 DEF Ses!Known, X, Y
<1>4. ASSUME ra # << >>, Head(ra) \in X
      PROVE  Ses!Known(w, r, Head(ra).size, z, ev, Tail(ra), Append(rq, q))
  <2>1. Ses!Count(Tail(ra), X) = Ses!Count(ra, X) - 1 /\ Ses!Count(ra, X) >= 1
    BY <1>4, CountTail
  <2>2. Ses!AskedFor(w, ra, z) => Ses!AskedFor(w, Tail(ra), z) /\ Head(ra).size = z
    BY <1>4, AskedTail
  <2> HIDE DEF X, Y
  <2>3. Ses!Count(ev, X) + Ses!Count(Tail(ra), X) + Ses!Count(Append(rq, q), Y)
          = Ses!Count(ev, X) + Ses!Count(ra, X) + Ses!Count(rq, Y)
    BY <1>1, <1>2, <2>1
  <2>4. Ses!Count(ev, X) + Ses!Count(ra, X) + Ses!Count(rq, Y) # 0
    BY <1>1, <2>1
  <2> QED
    BY <2>2, <2>3, <2>4 DEF Ses!Known, X, Y
<1> QED
  BY <1>3, <1>4

(* The server is asked for the size s.                                     *)
LEMMA KnownStart ==
  ASSUME Ses!ComposeSessionAssumption, NEW w,
         NEW r \in SessionWindows, NEW g, NEW z, NEW s \in Sizes,
         NEW ev \in Seq(Ses!EventRecs), NEW ra \in Seq(Ses!EventRecs),
         NEW rq \in Seq(Ses!RequestRecs), Ses!Known(w, r, g, z, ev, ra, rq)
  PROVE  LET x == Ses!start_resize(r, s)
         IN  /\ x.win \in SessionWindows /\ x.ev \in Sizes \cup {0}
             /\ x.ev = 0 => Ses!Known(w, x.win, g, s, ev, ra, rq)
             /\ \A e \in Ses!Resizes(w) : x.ev # 0 /\ e.size = x.ev =>
                  Ses!Known(w, x.win, g, s, Append(ev, e), ra, rq)
<1> DEFINE X == Ses!Resizes(w)
           Y == Ses!Confirms(w)
           x == Ses!start_resize(r, s)
<1>1. Ses!Count(ev, X) \in Nat /\ Ses!Count(ra, X) \in Nat /\ Ses!Count(rq, Y) \in Nat
  BY CountFacts
<1>2. s # 0 /\ s \in Sizes
  BY DEF Ses!ComposeSessionAssumption
<1>3. CASE r.in
  <2>1. x = [win |-> [r EXCEPT !.delayed = s], ev |-> 0]
    BY <1>3 DEF Ses!start_resize, Ses!InResize
  <2> HIDE DEF x
  <2>2. /\ x.ev = 0 /\ x.win \in SessionWindows
        /\ x.win.size = r.size /\ x.win.data = r.data /\ x.win.in = r.in /\ x.win.delayed = s
    BY <1>2, <2>1 DEF SessionWindows
  <2>3. Ses!Known(w, x.win, g, s, ev, ra, rq)
    BY <1>2, <1>3, <2>2 DEF Ses!Known
  <2> QED
    BY <2>2, <2>3 DEF x
<1>4. CASE ~r.in
  <2>1. /\ Ses!Count(ev, X) + Ses!Count(ra, X) + Ses!Count(rq, Y) = 0
        /\ g = r.size /\ r.data = r.size /\ r.size = z /\ r.delayed = 0
    BY <1>4 DEF Ses!Known
  <2>2. Ses!Count(ev, X) = 0 /\ Ses!Count(ra, X) = 0 /\ Ses!Count(rq, Y) = 0
    <3> HIDE DEF X, Y
    <3> QED
      BY <1>1, <2>1
  <2>3. Ses!AskedFor(w, ev, s) /\ Ses!AskedFor(w, ra, s)
    BY <2>2, AskedNone
  <2>4. CASE r.size = s
    <3>1. x = [win |-> r, ev |-> 0]
      BY <1>4, <2>4 DEF Ses!start_resize, Ses!InResize
    <3> HIDE DEF x
    <3>2. x.ev = 0 /\ x.win = r
      BY <3>1
    <3>3. Ses!Known(w, r, g, s, ev, ra, rq)
      BY <2>1, <2>2, <2>3, <2>4 DEF Ses!Known
    <3> QED
      BY <3>2, <3>3 DEF x
  <2>5. CASE r.size # s
    <3>1. x = [win |-> [r EXCEPT !.in = TRUE], ev |-> s]
      BY <1>4, <2>5 DEF Ses!start_resize, Ses!InResize
    <3> HIDE DEF x
    <3>2. /\ x.ev = s /\ x.win \in SessionWindows
          /\ x.win.size = r.size /\ x.win.data = r.data /\ x.win.in = TRUE
          /\ x.win.delayed = r.delayed
      BY <1>2, <3>1 DEF SessionWindows
    <3>3. ASSUME NEW e \in Ses!Resizes(w), e.size = s
          PROVE  Ses!Known(w, x.win, g, s, Append(ev, e), ra, rq)
      <4>0. e \in Ses!EventRecs
        BY DEF Ses!Resizes
      <4>1. Ses!Count(Append(ev, e), X) = Ses!Count(ev, X) + 1
        BY <4>0, CountAppend
      <4>2. Ses!AskedFor(w, Append(ev, e), s)
        BY <2>3, <3>3, <4>0, AskedAppend
      <4>3. Ses!Count(Append(ev, e), X) = 1
        BY <2>2, <4>1
      <4> QED
        BY <2>1, <2>2, <2>3, <3>2, <4>2, <4>3 DEF Ses!Known
    <3>4. x.ev # 0
      BY <1>2, <3>2
    <3> QED
      BY <1>2, <3>2, <3>3, <3>4 DEF x
  <2> QED
    BY <2>4, <2>5
<1> QED
  BY <1>3, <1>4

(* The server handles the confirmation of w.                               *)
LEMMA KnownApplied ==
  ASSUME Ses!ComposeSessionAssumption, NEW w,
         NEW r \in SessionWindows, NEW g \in Sizes, NEW z \in Sizes,
         NEW ev \in Seq(Ses!EventRecs), NEW ra \in Seq(Ses!EventRecs),
         NEW rq \in Seq(Ses!RequestRecs), Ses!Known(w, r, g, z, ev, ra, rq),
         rq # << >>, Head(rq) \in Ses!Confirms(w)
  PROVE  LET x == Ses!apply_size(r, g)
         IN  /\ x.win \in SessionWindows /\ x.ev \in Sizes \cup {0}
             /\ x.ev = 0 => Ses!Known(w, x.win, g, z, ev, ra, Tail(rq))
             /\ \A e \in Ses!Resizes(w) : x.ev # 0 /\ e.size = x.ev =>
                  Ses!Known(w, x.win, g, z, Append(ev, e), ra, Tail(rq))
<1> DEFINE X == Ses!Resizes(w)
           Y == Ses!Confirms(w)
           x == Ses!apply_size(r, g)
           done == [r EXCEPT !.size = g, !.data = g, !.in = FALSE, !.delayed = 0]
<1>1. Ses!Count(ev, X) \in Nat /\ Ses!Count(ra, X) \in Nat /\ Ses!Count(rq, Y) \in Nat
  BY CountFacts
<1>2. Ses!Count(Tail(rq), Y) = Ses!Count(rq, Y) - 1 /\ Ses!Count(rq, Y) >= 1
  BY CountTail
<1>3. Ses!Count(ev, X) + Ses!Count(ra, X) + Ses!Count(rq, Y) <= 1
  BY DEF Ses!Known
<1>4. /\ Ses!Count(ev, X) = 0 /\ Ses!Count(ra, X) = 0 /\ Ses!Count(rq, Y) = 1
      /\ Ses!Count(Tail(rq), Y) = 0
  <2> HIDE DEF X, Y
  <2> QED
    BY <1>1, <1>2, <1>3
<1>5. r.in /\ (r.delayed # 0 => r.delayed = z) /\ (r.delayed = 0 => g = z)
  BY <1>4 DEF Ses!Known
<1>6. \A c : Ses!AskedFor(w, ev, c) /\ Ses!AskedFor(w, ra, c)
  BY <1>4, AskedNone
<1>7. /\ done \in SessionWindows /\ done.size = g /\ done.data = g /\ done.in = FALSE
      /\ done.delayed = 0
  BY DEF SessionWindows
<1>8. Tail(rq) \in Seq(Ses!RequestRecs)
  OBVIOUS
<1>9. Ses!Known(w, done, g, g, ev, ra, Tail(rq))
  <2> HIDE DEF done
  <2> QED
    BY <1>4, <1>6, <1>7 DEF Ses!Known
<1>10. CASE r.delayed = 0
  <2>1. x = [win |-> done, ev |-> 0]
    BY <1>5, <1>10 DEF Ses!apply_size
  <2> HIDE DEF x, done
  <2>2. x.win = done /\ x.ev = 0
    BY <2>1
  <2> QED
    BY <1>5, <1>7, <1>9, <1>10, <2>2 DEF x
<1>11. CASE r.delayed # 0
  <2>1. x = Ses!start_resize(done, r.delayed)
    BY <1>5, <1>11 DEF Ses!apply_size
  <2>2. r.delayed = z
    BY <1>5, <1>11
  <2> HIDE DEF x, done
  <2>3. /\ x.win \in SessionWindows /\ x.ev \in Sizes \cup {0}
        /\ x.ev = 0 => Ses!Known(w, x.win, g, z, ev, ra, Tail(rq))
        /\ \A e \in Ses!Resizes(w) : x.ev # 0 /\ e.size = x.ev =>
             Ses!Known(w, x.win, g, z, Append(ev, e), ra, Tail(rq))
    BY <1>7, <1>8, <1>9, <2>1, <2>2, KnownStart
  <2> QED
    BY <2>3 DEF x
<1> QED
  BY <1>10, <1>11

(***************************************************************************)
(* The steps of the session.                                               *)
(***************************************************************************)
LEMMA SessionAssumed == Ses!ComposeSessionAssumption
  BY SystemAssumption

LEMMA SessionRoom ==
  ASSUME Ses!TypeOK
  PROVE  /\ Ses!Room => window_id + Ses!Count(requests, Ses!NewWins) < MaxWin
         /\ Ses!Count(requests, Ses!NewWins) \in Nat
<1>1. requests \in Seq(Ses!RequestRecs)
  BY DEF Ses!TypeOK
<1>2. \A i \in DOMAIN requests : requests[i] \in Ses!NewWins <=> requests[i].type = "newwin"
  BY <1>1 DEF Ses!NewWins
<1>3. {i \in DOMAIN requests : requests[i].type = "newwin"}
        = {i \in DOMAIN requests : requests[i] \in Ses!NewWins}
  BY <1>2
<1>4. Ses!Count(requests, Ses!NewWins) \in Nat
  BY <1>1, CountFacts
<1> QED
  BY <1>3, <1>4 DEF Ses!Room, Ses!Count

(* What follows when an event is sent.                                     *)
LEMMA SessionSent ==
  ASSUME Ses!TypeOK,
         Ses!InOrder(delivered, Ses!Numbers(raised), Ses!Numbers(ses_events), ses_sent, taken),
         NEW e \in Ses!EventRecs, e.n = ses_sent + 1, Ses!Send(e),
         UNCHANGED <<delivered, raised, taken>>
  PROVE  /\ ses_events' = Append(ses_events, e) /\ ses_events' \in Seq(Ses!EventRecs)
         /\ ses_sent' \in Nat
         /\ Ses!InOrder(delivered', Ses!Numbers(raised'), Ses!Numbers(ses_events'), ses_sent', taken')
<1>1. ses_events \in Seq(Ses!EventRecs) /\ raised \in Seq(Ses!EventRecs) /\ ses_sent \in Nat
      /\ delivered \in Seq(Nat)
  BY DEF Ses!TypeOK
<1>2. ses_events' = Append(ses_events, e) /\ ses_sent' = ses_sent + 1
  BY DEF Ses!Send
<1>3. Ses!Numbers(ses_events') = Append(Ses!Numbers(ses_events), ses_sent + 1)
  BY <1>1, <1>2, NumbersOf
<1>4. Ses!Numbers(ses_events) \in Seq(Nat) /\ Ses!Numbers(raised) \in Seq(Nat)
  BY <1>1, NumbersOf
<1>5. Ses!InOrder(delivered, Ses!Numbers(raised), Append(Ses!Numbers(ses_events), ses_sent + 1),
                  ses_sent + 1, taken)
  BY <1>1, <1>4, OrderSent
<1>6. Ses!InOrder(delivered', Ses!Numbers(raised'), Ses!Numbers(ses_events'), ses_sent', taken')
  BY <1>2, <1>3, <1>5
<1> QED
  BY <1>1, <1>2, <1>6

(* What follows when a resize of w starts, or is delayed, or ends.         *)
LEMMA SessionBecomes ==
  ASSUME Ses!ComposeSessionAssumption, Ses!TypeOK,
         Ses!InOrder(delivered, Ses!Numbers(raised), Ses!Numbers(ses_events), ses_sent, taken),
         NEW w \in Ses!Wins, NEW x, x.win \in SessionWindows, x.ev \in Sizes \cup {0},
         Ses!Becomes(w, x), UNCHANGED <<delivered, raised, taken>>
  PROVE  /\ win' \in [Ses!Wins -> SessionWindows] /\ win'[w] = x.win
         /\ \A v \in Ses!Wins : v # w => win'[v] = win[v]
         /\ ses_events' \in Seq(Ses!EventRecs) /\ ses_sent' \in Nat
         /\ Ses!InOrder(delivered', Ses!Numbers(raised'), Ses!Numbers(ses_events'), ses_sent', taken')
         /\ \/ x.ev = 0 /\ ses_events' = ses_events
            \/ x.ev # 0 /\ \E e \in Ses!EventRecs :
                 /\ e.type = "resize" /\ e.win = w /\ e.size = x.ev
                 /\ ses_events' = Append(ses_events, e)
<1>1. /\ win \in [Ses!Wins -> SessionWindows] /\ win' = [win EXCEPT ![w] = x.win]
      /\ ses_sent \in Nat /\ ses_events \in Seq(Ses!EventRecs)
  BY DEF Ses!TypeOK, Ses!Becomes, SessionWindows
<1>2. /\ win' \in [Ses!Wins -> SessionWindows] /\ win'[w] = x.win
      /\ \A v \in Ses!Wins : v # w => win'[v] = win[v]
  BY <1>1
<1>3. CASE x.ev = 0
  <2>1. ses_events' = ses_events /\ ses_sent' = ses_sent
    BY <1>3 DEF Ses!Becomes, Ses!NoSend
  <2>2. Ses!InOrder(delivered', Ses!Numbers(raised'), Ses!Numbers(ses_events'), ses_sent', taken')
    BY <2>1
  <2> QED
    BY <1>1, <1>2, <1>3, <2>1, <2>2
<1>4. CASE x.ev # 0
  <2> DEFINE e == Ses!Event("resize", w, x.ev)
  <2>1. /\ e \in Ses!EventRecs /\ e.type = "resize" /\ e.win = w /\ e.size = x.ev
        /\ e.n = ses_sent + 1
    BY <1>1, <1>4 DEF Ses!Event, Ses!EventRecs
  <2>2. Ses!Send(e)
    BY <1>4 DEF Ses!Becomes
  <2> HIDE DEF e
  <2>3. /\ ses_events' = Append(ses_events, e) /\ ses_events' \in Seq(Ses!EventRecs)
        /\ ses_sent' \in Nat
        /\ Ses!InOrder(delivered', Ses!Numbers(raised'), Ses!Numbers(ses_events'), ses_sent', taken')
    BY <2>1, <2>2, SessionSent
  <2> QED
    BY <1>2, <1>4, <2>1, <2>3
<1> QED
  BY <1>3, <1>4

(* Steps that leave the windows the client knows and waits for alone.      *)
LEMMA CreationSteady ==
  ASSUME Ses!TypeOK, Ses!CreationIsOwn, UNCHANGED <<selects, ses_pc, own, created>>,
         \/ requests' = requests
         \/ requests # << >> /\ requests' = Tail(requests)
         \/ \E q \in Ses!RequestRecs : q.type # "newwin" /\ requests' = Append(requests, q),
         ~selects =>
           \/ ses_events' = ses_events
           \/ \E e \in Ses!EventRecs : e.type # "win" /\ ses_events' = Append(ses_events, e)
           \/ ses_events # << >> /\ Head(ses_events).type # "win" /\ ses_events' = Tail(ses_events)
  PROVE  Ses!CreationIsOwn'
<1> SUFFICES ASSUME ~selects
             PROVE  Ses!CreationIsOwn'
  BY DEF Ses!CreationIsOwn
<1>1. requests \in Seq(Ses!RequestRecs) /\ ses_events \in Seq(Ses!EventRecs)
  BY DEF Ses!TypeOK
<1>2. /\ Ses!NoneOf(requests, "newwin") => Ses!NoneOf(requests', "newwin")
      /\ Ses!OneOf(requests, "newwin") => Ses!OneOf(requests', "newwin")
  <2>1. CASE requests' = requests
    BY <2>1
  <2>2. CASE requests # << >> /\ requests' = Tail(requests)
    BY <1>1, <2>2, KindTail
  <2>3. CASE \E q \in Ses!RequestRecs : q.type # "newwin" /\ requests' = Append(requests, q)
    BY <1>1, <2>3, KindAppend
  <2> QED
    BY <2>1, <2>2, <2>3
<1>3. /\ Ses!NoneOf(ses_events, "win") => Ses!NoneOf(ses_events', "win")
      /\ Ses!Answers(ses_events, own, created) => Ses!Answers(ses_events', own, created)
  <2>1. CASE ses_events' = ses_events
    BY <2>1
  <2>2. CASE \E e \in Ses!EventRecs : e.type # "win" /\ ses_events' = Append(ses_events, e)
    BY <1>1, <2>2, KindAppend, AnswersAppend
  <2>3. CASE ses_events # << >> /\ Head(ses_events).type # "win" /\ ses_events' = Tail(ses_events)
    BY <1>1, <2>3, KindTail, AnswersTail
  <2> QED
    BY <2>1, <2>2, <2>3
<1> QED
  BY <1>2, <1>3 DEF Ses!CreationIsOwn

LEMMA InitSession == Ses!Init => Ses!SessionInv
<1> SUFFICES ASSUME Ses!Init
             PROVE  Ses!SessionInv
  OBVIOUS
<1> USE DEF Ses!Init
<1>0. Ses!ComposeSessionAssumption
  BY SessionAssumed
<1>1. Ses!TypeOK
  BY <1>0 DEF Ses!TypeOK, Ses!ComposeSessionAssumption
<1>2. \A X : Ses!Count(<< >>, X) = 0
  <2> SUFFICES ASSUME NEW X
               PROVE  Ses!Count(<< >>, X) = 0
    OBVIOUS
  <2>1. {i \in DOMAIN << >> : << >>[i] \in X} = {}
    OBVIOUS
  <2> QED
    BY <2>1, SessionCounts, FS_EmptySet DEF Ses!Count
<1>3. window_id + Ses!Count(requests, Ses!NewWins) <= MaxWin
  BY <1>0, <1>2 DEF Ses!ComposeSessionAssumption
<1>4. Ses!InOrder(delivered, Ses!Numbers(raised), Ses!Numbers(ses_events), ses_sent, taken)
  <2>0. << >> \in Seq(Ses!EventRecs)
    OBVIOUS
  <2>1. Ses!Numbers(<< >>) = << >>
    BY <2>0, NumbersOf
  <2> QED
    BY <2>1 DEF Ses!InOrder, Ses!Increasing, Ses!Range
<1>5. Ses!CreationIsOwn
  BY DEF Ses!CreationIsOwn, Ses!NoneOf
<1>6. Ses!SizesAreKnown
  <2> SUFFICES ASSUME NEW w \in Ses!Wins
               PROVE  Ses!Known(w, win[w], gc[w], wanted[w], ses_events, raised, requests)
    BY DEF Ses!SizesAreKnown
  <2>1. /\ win[w].size = First /\ win[w].data = First /\ win[w].in = FALSE /\ win[w].delayed = 0
        /\ gc[w] = First /\ wanted[w] = First
    OBVIOUS
  <2>2. Ses!AskedFor(w, << >>, First)
    BY DEF Ses!AskedFor
  <2> QED
    BY <1>2, <2>1, <2>2 DEF Ses!Known
<1> QED
  BY <1>1, <1>3, <1>4, <1>5, <1>6 DEF Ses!SessionInv

(* The window manager asks for a size.                                     *)
LEMMA SessionResize ==
  ASSUME Ses!SessionInv, NEW w \in Ses!Wins, NEW s \in Sizes, Ses!WmResize(w, s)
  PROVE  Ses!SessionInv'
<1> DEFINE x == Ses!start_resize(win[w], s)
<1>0. Ses!ComposeSessionAssumption
  BY SessionAssumed
<1>1. /\ Ses!TypeOK /\ window_id + Ses!Count(requests, Ses!NewWins) <= MaxWin
      /\ Ses!InOrder(delivered, Ses!Numbers(raised), Ses!Numbers(ses_events), ses_sent, taken)
      /\ Ses!CreationIsOwn
      /\ \A v \in Ses!Wins : Ses!Known(v, win[v], gc[v], wanted[v], ses_events, raised, requests)
  BY DEF Ses!SessionInv, Ses!SizesAreKnown
<1>2. /\ UNCHANGED <<selects, requests, created, window_id, gc, ses_pc, own, raised, delivered, taken>>
      /\ wanted' = [wanted EXCEPT ![w] = s] /\ Ses!Becomes(w, x)
  BY DEF Ses!WmResize, Ses!clientVars
<1>3. /\ ses_events \in Seq(Ses!EventRecs) /\ raised \in Seq(Ses!EventRecs)
      /\ requests \in Seq(Ses!RequestRecs) /\ wanted \in [Ses!Wins -> Sizes]
      /\ win[w] \in SessionWindows
  BY <1>1 DEF Ses!TypeOK, SessionWindows
<1>4. /\ x.win \in SessionWindows /\ x.ev \in Sizes \cup {0}
      /\ x.ev = 0 => Ses!Known(w, x.win, gc[w], s, ses_events, raised, requests)
      /\ \A e \in Ses!Resizes(w) : x.ev # 0 /\ e.size = x.ev =>
           Ses!Known(w, x.win, gc[w], s, Append(ses_events, e), raised, requests)
  BY <1>0, <1>1, <1>3, KnownStart
<1> HIDE DEF x
<1>5. /\ win' \in [Ses!Wins -> SessionWindows] /\ win'[w] = x.win
      /\ \A v \in Ses!Wins : v # w => win'[v] = win[v]
      /\ ses_events' \in Seq(Ses!EventRecs) /\ ses_sent' \in Nat
      /\ Ses!InOrder(delivered', Ses!Numbers(raised'), Ses!Numbers(ses_events'), ses_sent', taken')
      /\ \/ x.ev = 0 /\ ses_events' = ses_events
         \/ x.ev # 0 /\ \E e \in Ses!EventRecs :
              /\ e.type = "resize" /\ e.win = w /\ e.size = x.ev
              /\ ses_events' = Append(ses_events, e)
  BY <1>0, <1>1, <1>2, <1>4, SessionBecomes
<1>6. /\ wanted' \in [Ses!Wins -> Sizes] /\ wanted'[w] = s
      /\ \A v \in Ses!Wins : v # w => wanted'[v] = wanted[v]
  BY <1>2, <1>3
<1>7. Ses!TypeOK'
  BY <1>1, <1>2, <1>5, <1>6 DEF Ses!TypeOK, SessionWindows
<1>8. Ses!CreationIsOwn'
  <2>1. \/ ses_events' = ses_events
        \/ \E e \in Ses!EventRecs : e.type # "win" /\ ses_events' = Append(ses_events, e)
    BY <1>5
  <2> QED
    BY <1>1, <1>2, <2>1, CreationSteady
<1>9. ASSUME NEW v \in Ses!Wins
      PROVE  Ses!Known(v, win'[v], gc'[v], wanted'[v], ses_events', raised', requests')
  <2>1. CASE x.ev = 0 /\ ses_events' = ses_events
    BY <1>1, <1>2, <1>4, <1>5, <1>6, <2>1
  <2>2. CASE x.ev # 0 /\ \E e \in Ses!EventRecs :
               /\ e.type = "resize" /\ e.win = w /\ e.size = x.ev
               /\ ses_events' = Append(ses_events, e)
    <3>1. PICK e \in Ses!EventRecs : /\ e.type = "resize" /\ e.win = w /\ e.size = x.ev
                                     /\ ses_events' = Append(ses_events, e)
      BY <2>2
    <3>2. CASE v = w
      <4>1. e \in Ses!Resizes(w)
        BY <3>1 DEF Ses!Resizes
      <4> QED
        BY <1>2, <1>4, <1>5, <1>6, <2>2, <3>1, <3>2, <4>1
    <3>3. CASE v # w
      <4>1. e \notin Ses!Resizes(v)
        BY <3>1, <3>3 DEF Ses!Resizes
      <4>2. Ses!Known(v, win[v], gc[v], wanted[v], Append(ses_events, e), raised, requests)
        BY <1>1, <1>3, <4>1, KnownSent
      <4> QED
        BY <1>2, <1>5, <1>6, <3>1, <3>3, <4>2
    <3> QED
      BY <3>2, <3>3
  <2> QED
    BY <1>5, <2>1, <2>2
<1>10. window_id' + Ses!Count(requests', Ses!NewWins) <= MaxWin
  BY <1>1, <1>2
<1> QED
  BY <1>5, <1>7, <1>8, <1>9, <1>10 DEF Ses!SessionInv, Ses!SizesAreKnown

(* Any other event that the server sends on its own.                       *)
LEMMA SessionOther ==
  ASSUME Ses!SessionInv,
         \/ Ses!OtherWin
         \/ \E type \in {"key", "keepalive"} : Ses!Other(type)
  PROVE  Ses!SessionInv'
<1>0. Ses!ComposeSessionAssumption
  BY SessionAssumed
<1>1. /\ Ses!TypeOK /\ window_id + Ses!Count(requests, Ses!NewWins) <= MaxWin
      /\ Ses!InOrder(delivered, Ses!Numbers(raised), Ses!Numbers(ses_events), ses_sent, taken)
      /\ Ses!CreationIsOwn
      /\ \A v \in Ses!Wins : Ses!Known(v, win[v], gc[v], wanted[v], ses_events, raised, requests)
  BY DEF Ses!SessionInv, Ses!SizesAreKnown
<1>2. UNCHANGED <<selects, requests, created, win, gc, wanted, ses_pc, own, raised, delivered, taken>>
  BY DEF Ses!OtherWin, Ses!Other, Ses!clientVars
<1>3. /\ ses_events \in Seq(Ses!EventRecs) /\ raised \in Seq(Ses!EventRecs)
      /\ requests \in Seq(Ses!RequestRecs) /\ window_id \in Nat /\ ses_sent \in Nat
      /\ Ses!Count(requests, Ses!NewWins) \in Nat /\ MaxWin \in Nat
  BY <1>0, <1>1, SessionRoom DEF Ses!TypeOK, Ses!ComposeSessionAssumption
<1>4. window_id' \in Nat /\ window_id' + Ses!Count(requests', Ses!NewWins) <= MaxWin
  <2>1. CASE Ses!OtherWin
    <3>1. window_id' = window_id + 1 /\ window_id + Ses!Count(requests, Ses!NewWins) < MaxWin
      BY <1>1, <2>1, SessionRoom DEF Ses!OtherWin
    <3> QED
      BY <1>2, <1>3, <3>1
  <2>2. CASE \E type \in {"key", "keepalive"} : Ses!Other(type)
    BY <1>1, <1>2, <1>3, <2>2 DEF Ses!Other
  <2> QED
    BY <2>1, <2>2
<1>5. \/ ses_events' = ses_events /\ ses_sent' = ses_sent
      \/ \E e \in Ses!EventRecs : /\ e.type # "resize" /\ e.n = ses_sent + 1 /\ Ses!Send(e)
                                  /\ ~selects => e.type # "win"
  <2>1. CASE Ses!OtherWin
    <3> DEFINE e == Ses!Event("win", window_id + 1, 0)
    <3>1. /\ window_id' = window_id + 1 /\ IF selects THEN Ses!Send(e) ELSE Ses!NoSend
          /\ window_id + 1 <= MaxWin
      BY <1>1, <1>3, <2>1, SessionRoom DEF Ses!OtherWin, Ses!Selected, Ses!Event
    <3>2. e \in Ses!EventRecs /\ e.type = "win" /\ e.n = ses_sent + 1
      BY <1>3, <3>1 DEF Ses!Event, Ses!EventRecs, Ses!Wins
    <3> HIDE DEF e
    <3> QED
      BY <3>1, <3>2 DEF Ses!NoSend
  <2>2. CASE \E type \in {"key", "keepalive"} : Ses!Other(type)
    <3>1. PICK type \in {"key", "keepalive"} : Ses!Other(type)
      BY <2>2
    <3> DEFINE e == Ses!Event(type, 0, 0)
    <3>2. e \in Ses!EventRecs /\ e.type = type /\ e.n = ses_sent + 1
      BY <1>3 DEF Ses!Event, Ses!EventRecs
    <3>3. Ses!Send(e)
      BY <3>1 DEF Ses!Other
    <3> HIDE DEF e
    <3> QED
      BY <3>2, <3>3
  <2> QED
    BY <2>1, <2>2
<1>6. CASE ses_events' = ses_events /\ ses_sent' = ses_sent
  <2>1. Ses!TypeOK'
    BY <1>1, <1>2, <1>4, <1>6 DEF Ses!TypeOK
  <2>2. Ses!CreationIsOwn'
    BY <1>1, <1>2, <1>6, CreationSteady
  <2> QED
    BY <1>1, <1>2, <1>4, <1>6, <2>1, <2>2 DEF Ses!SessionInv, Ses!SizesAreKnown
<1>7. CASE \E e \in Ses!EventRecs : /\ e.type # "resize" /\ e.n = ses_sent + 1 /\ Ses!Send(e)
                                    /\ ~selects => e.type # "win"
  <2>1. PICK e \in Ses!EventRecs : /\ e.type # "resize" /\ e.n = ses_sent + 1 /\ Ses!Send(e)
                                   /\ ~selects => e.type # "win"
    BY <1>7
  <2>2. /\ ses_events' = Append(ses_events, e) /\ ses_events' \in Seq(Ses!EventRecs)
        /\ ses_sent' \in Nat
        /\ Ses!InOrder(delivered', Ses!Numbers(raised'), Ses!Numbers(ses_events'), ses_sent', taken')
    BY <1>1, <1>2, <2>1, SessionSent
  <2>3. Ses!TypeOK'
    BY <1>1, <1>2, <1>4, <2>2 DEF Ses!TypeOK
  <2>4. Ses!CreationIsOwn'
    BY <1>1, <1>2, <2>1, <2>2, CreationSteady
  <2>5. ASSUME NEW v \in Ses!Wins
        PROVE  Ses!Known(v, win'[v], gc'[v], wanted'[v], ses_events', raised', requests')
    <3>1. e \notin Ses!Resizes(v)
      BY <2>1 DEF Ses!Resizes
    <3> QED
      BY <1>1, <1>2, <1>3, <2>2, <3>1, KnownSent
  <2> QED
    BY <1>4, <2>2, <2>3, <2>4, <2>5 DEF Ses!SessionInv, Ses!SizesAreKnown
<1> QED
  BY <1>5, <1>6, <1>7

(* The number of windows asked for when a request is made or handled.      *)
LEMMA NewWinsCount ==
  ASSUME NEW rq \in Seq(Ses!RequestRecs)
  PROVE  /\ \A q \in Ses!RequestRecs :
              Ses!Count(Append(rq, q), Ses!NewWins)
                = Ses!Count(rq, Ses!NewWins) + (IF q.type = "newwin" THEN 1 ELSE 0)
         /\ rq # << >> =>
              Ses!Count(Tail(rq), Ses!NewWins)
                = Ses!Count(rq, Ses!NewWins) - (IF Head(rq).type = "newwin" THEN 1 ELSE 0)
         /\ Ses!Count(rq, Ses!NewWins) \in Nat
<1>1. \A q \in Ses!RequestRecs : q \in Ses!NewWins <=> q.type = "newwin"
  BY DEF Ses!NewWins
<1>2. ASSUME NEW q \in Ses!RequestRecs
      PROVE  Ses!Count(Append(rq, q), Ses!NewWins)
               = Ses!Count(rq, Ses!NewWins) + (IF q.type = "newwin" THEN 1 ELSE 0)
  <2>1. Ses!Count(Append(rq, q), Ses!NewWins)
          = Ses!Count(rq, Ses!NewWins) + (IF q \in Ses!NewWins THEN 1 ELSE 0)
    BY CountAppend
  <2> QED
    BY <1>1, <2>1
<1>3. ASSUME rq # << >>
      PROVE  Ses!Count(Tail(rq), Ses!NewWins)
               = Ses!Count(rq, Ses!NewWins) - (IF Head(rq).type = "newwin" THEN 1 ELSE 0)
  <2>1. Ses!Count(Tail(rq), Ses!NewWins)
          = Ses!Count(rq, Ses!NewWins) - (IF Head(rq) \in Ses!NewWins THEN 1 ELSE 0)
    BY <1>3, CountTail
  <2>2. Head(rq) \in Ses!RequestRecs
    BY <1>3
  <2> QED
    BY <1>1, <2>1, <2>2
<1> QED
  BY <1>2, <1>3, CountFacts

(* The server handles a request.                                           *)
LEMMA SessionHandle ==
  ASSUME Ses!SessionInv, Ses!Handle
  PROVE  Ses!SessionInv'
<1> DEFINE q == Head(requests)
<1>0. Ses!ComposeSessionAssumption
  BY SessionAssumed
<1>1. /\ Ses!TypeOK /\ window_id + Ses!Count(requests, Ses!NewWins) <= MaxWin
      /\ Ses!InOrder(delivered, Ses!Numbers(raised), Ses!Numbers(ses_events), ses_sent, taken)
      /\ Ses!CreationIsOwn
      /\ \A v \in Ses!Wins : Ses!Known(v, win[v], gc[v], wanted[v], ses_events, raised, requests)
  BY DEF Ses!SessionInv, Ses!SizesAreKnown
<1>2. /\ UNCHANGED <<selects, gc, wanted, ses_pc, own, raised, delivered, taken>>
      /\ requests # << >> /\ requests' = Tail(requests)
      /\ \/ /\ q.type = "newwin" /\ window_id' = window_id + 1
            /\ created' = Append(created, window_id')
            /\ Ses!Send(Ses!Event("win", window_id', 0)) /\ UNCHANGED win
         \/ /\ q.type = "confirm" /\ Ses!Becomes(q.win, Ses!apply_size(win[q.win], gc[q.win]))
            /\ UNCHANGED <<created, window_id>>
         \/ /\ q.type = "props" /\ Ses!Send(Ses!Event("props", q.win, win[q.win].size))
            /\ UNCHANGED <<created, window_id, win>>
         \/ /\ q.type = "keepalive" /\ Ses!NoSend
            /\ UNCHANGED <<created, window_id, win>>
  BY DEF Ses!Handle, Ses!clientVars
<1>3. /\ ses_events \in Seq(Ses!EventRecs) /\ raised \in Seq(Ses!EventRecs)
      /\ requests \in Seq(Ses!RequestRecs) /\ window_id \in Nat /\ ses_sent \in Nat
      /\ created \in Seq(Ses!Wins) /\ own \in Seq(Ses!Wins)
      /\ win \in [Ses!Wins -> SessionWindows] /\ gc \in [Ses!Wins -> Sizes]
      /\ wanted \in [Ses!Wins -> Sizes] /\ MaxWin \in Nat
  BY <1>0, <1>1 DEF Ses!TypeOK, Ses!ComposeSessionAssumption, SessionWindows
<1>4. /\ q \in Ses!RequestRecs /\ requests' \in Seq(Ses!RequestRecs)
      /\ q.type \in {"confirm", "props"} => q.win \in Ses!Wins
  <2>1. q \in Ses!RequestRecs /\ requests' \in Seq(Ses!RequestRecs)
    BY <1>2, <1>3
  <2> HIDE DEF q
  <2> QED
    BY <2>1 DEF Ses!RequestRecs
<1>5. /\ Ses!Count(requests', Ses!NewWins)
           = Ses!Count(requests, Ses!NewWins) - (IF q.type = "newwin" THEN 1 ELSE 0)
      /\ Ses!Count(requests, Ses!NewWins) \in Nat /\ Ses!Count(requests', Ses!NewWins) \in Nat
  BY <1>2, <1>3, <1>4, NewWinsCount
<1>6. \A v \in Ses!Wins : q.type # "confirm" =>
        Ses!Known(v, win[v], gc[v], wanted[v], ses_events, raised, requests')
  <2> SUFFICES ASSUME NEW v \in Ses!Wins, q.type # "confirm"
               PROVE  Ses!Known(v, win[v], gc[v], wanted[v], ses_events, raised, requests')
    OBVIOUS
  <2>1. q \notin Ses!Confirms(v)
    BY DEF Ses!Confirms
  <2> QED
    BY <1>1, <1>2, <1>3, <2>1, KnownRequest
<1> HIDE DEF q
<1>7. ASSUME q.type # "confirm", NEW e \in Ses!EventRecs, e.type # "resize", e.n = ses_sent + 1,
             Ses!Send(e), UNCHANGED win
      PROVE  /\ ses_events' = Append(ses_events, e) /\ ses_events' \in Seq(Ses!EventRecs)
             /\ ses_sent' \in Nat
             /\ Ses!InOrder(delivered', Ses!Numbers(raised'), Ses!Numbers(ses_events'), ses_sent', taken')
             /\ Ses!SizesAreKnown'
  <2>1. /\ ses_events' = Append(ses_events, e) /\ ses_events' \in Seq(Ses!EventRecs)
        /\ ses_sent' \in Nat
        /\ Ses!InOrder(delivered', Ses!Numbers(raised'), Ses!Numbers(ses_events'), ses_sent', taken')
    BY <1>1, <1>2, <1>7, SessionSent
  <2>2. ASSUME NEW v \in Ses!Wins
        PROVE  Ses!Known(v, win'[v], gc'[v], wanted'[v], ses_events', raised', requests')
    <3>1. e \notin Ses!Resizes(v)
      BY <1>7 DEF Ses!Resizes
    <3>2. Ses!Known(v, win[v], gc[v], wanted[v], ses_events, raised, requests')
      BY <1>6, <1>7
    <3>3. Ses!Known(v, win[v], gc[v], wanted[v], Append(ses_events, e), raised, requests')
      BY <1>3, <1>4, <3>1, <3>2, KnownSent
    <3> QED
      BY <1>2, <1>7, <2>1, <3>3
  <2> QED
    BY <2>1, <2>2 DEF Ses!SizesAreKnown
<1>8. CASE /\ q.type = "newwin" /\ window_id' = window_id + 1
           /\ created' = Append(created, window_id')
           /\ Ses!Send(Ses!Event("win", window_id', 0)) /\ UNCHANGED win
  <2> DEFINE e == Ses!Event("win", window_id + 1, 0)
  <2>1. window_id' \in Nat /\ window_id' + Ses!Count(requests', Ses!NewWins) <= MaxWin
    BY <1>1, <1>3, <1>5, <1>8
  <2>2. window_id + 1 \in Ses!Wins /\ window_id' = window_id + 1
    BY <1>3, <1>5, <1>8, <2>1 DEF Ses!Wins
  <2>3. /\ e \in Ses!EventRecs /\ e.type = "win" /\ e.win = window_id + 1 /\ e.n = ses_sent + 1
    BY <1>3, <2>2 DEF Ses!Event, Ses!EventRecs
  <2>4. Ses!Send(e) /\ created' = Append(created, e.win)
    BY <1>8, <2>3 DEF Ses!Event
  <2> HIDE DEF e
  <2>5. /\ ses_events' = Append(ses_events, e) /\ ses_events' \in Seq(Ses!EventRecs)
        /\ ses_sent' \in Nat
        /\ Ses!InOrder(delivered', Ses!Numbers(raised'), Ses!Numbers(ses_events'), ses_sent', taken')
        /\ Ses!SizesAreKnown'
    BY <1>7, <1>8, <2>3, <2>4
  <2>6. created' \in Seq(Ses!Wins)
    BY <1>3, <2>2, <2>3, <2>4
  <2>7. Ses!TypeOK'
    BY <1>1, <1>2, <1>4, <1>8, <2>1, <2>5, <2>6 DEF Ses!TypeOK
  <2>8. Ses!CreationIsOwn'
    <3> SUFFICES ASSUME ~selects
                 PROVE  Ses!CreationIsOwn'
      BY <1>2 DEF Ses!CreationIsOwn
    <3>1. ~Ses!NoneOf(requests, "newwin")
      BY <1>2, <1>3, <1>8, KindTail DEF q
    <3>2. /\ ses_pc = "create" /\ own = created /\ Ses!OneOf(requests, "newwin")
          /\ Ses!NoneOf(ses_events, "win")
      BY <1>1, <3>1 DEF Ses!CreationIsOwn
    <3>3. Ses!NoneOf(requests', "newwin")
      BY <1>2, <1>3, <1>8, <3>2, KindTail DEF q
    <3>4. Ses!Answers(ses_events', own, created')
      BY <1>3, <2>3, <2>4, <2>5, <3>2, AnswersAppend
    <3> QED
      BY <1>2, <3>2, <3>3, <3>4 DEF Ses!CreationIsOwn
  <2> QED
    BY <2>1, <2>5, <2>7, <2>8 DEF Ses!SessionInv
<1>9. CASE /\ q.type = "confirm" /\ Ses!Becomes(q.win, Ses!apply_size(win[q.win], gc[q.win]))
           /\ UNCHANGED <<created, window_id>>
  <2> DEFINE w == q.win
             x == Ses!apply_size(win[w], gc[w])
  <2>1. w \in Ses!Wins /\ q \in Ses!Confirms(w)
    BY <1>4, <1>9 DEF Ses!Confirms
  <2>2. Ses!Becomes(w, x)
    BY <1>9
  <2> HIDE DEF w
  <2>3. /\ x.win \in SessionWindows /\ x.ev \in Sizes \cup {0}
        /\ x.ev = 0 => Ses!Known(w, x.win, gc[w], wanted[w], ses_events, raised, requests')
        /\ \A e \in Ses!Resizes(w) : x.ev # 0 /\ e.size = x.ev =>
             Ses!Known(w, x.win, gc[w], wanted[w], Append(ses_events, e), raised, requests')
    <3>1. win[w] \in SessionWindows /\ gc[w] \in Sizes /\ wanted[w] \in Sizes
      BY <1>3, <2>1
    <3> QED
      BY <1>0, <1>1, <1>2, <1>3, <2>1, <3>1, KnownApplied DEF q
  <2> HIDE DEF x
  <2>4. /\ win' \in [Ses!Wins -> SessionWindows] /\ win'[w] = x.win
        /\ \A v \in Ses!Wins : v # w => win'[v] = win[v]
        /\ ses_events' \in Seq(Ses!EventRecs) /\ ses_sent' \in Nat
        /\ Ses!InOrder(delivered', Ses!Numbers(raised'), Ses!Numbers(ses_events'), ses_sent', taken')
        /\ \/ x.ev = 0 /\ ses_events' = ses_events
           \/ x.ev # 0 /\ \E e \in Ses!EventRecs :
                /\ e.type = "resize" /\ e.win = w /\ e.size = x.ev
                /\ ses_events' = Append(ses_events, e)
    BY <1>0, <1>1, <1>2, <2>1, <2>2, <2>3, SessionBecomes
  <2>5. Ses!TypeOK'
    BY <1>1, <1>2, <1>4, <1>9, <2>4 DEF Ses!TypeOK, SessionWindows
  <2>6. Ses!CreationIsOwn'
    <3>1. \/ ses_events' = ses_events
          \/ \E e \in Ses!EventRecs : e.type # "win" /\ ses_events' = Append(ses_events, e)
      BY <2>4
    <3> QED
      BY <1>1, <1>2, <1>9, <3>1, CreationSteady
  <2>7. ASSUME NEW v \in Ses!Wins, v # w
        PROVE  Ses!Known(v, win[v], gc[v], wanted[v], ses_events, raised, requests')
    <3>1. q \notin Ses!Confirms(v)
      BY <2>7 DEF Ses!Confirms, w
    <3> QED
      BY <1>1, <1>2, <1>3, <3>1, KnownRequest DEF q
  <2>8. ASSUME NEW v \in Ses!Wins
        PROVE  Ses!Known(v, win'[v], gc'[v], wanted'[v], ses_events', raised', requests')
    <3>1. CASE x.ev = 0 /\ ses_events' = ses_events
      BY <1>2, <2>3, <2>4, <2>7, <3>1
    <3>2. CASE x.ev # 0 /\ \E e \in Ses!EventRecs :
                 /\ e.type = "resize" /\ e.win = w /\ e.size = x.ev
                 /\ ses_events' = Append(ses_events, e)
      <4>1. PICK e \in Ses!EventRecs : /\ e.type = "resize" /\ e.win = w /\ e.size = x.ev
                                       /\ ses_events' = Append(ses_events, e)
        BY <3>2
      <4>2. CASE v = w
        <5>1. e \in Ses!Resizes(w)
          BY <4>1 DEF Ses!Resizes
        <5> QED
          BY <1>2, <2>3, <2>4, <3>2, <4>1, <4>2, <5>1
      <4>3. CASE v # w
        <5>1. e \notin Ses!Resizes(v)
          BY <4>1, <4>3 DEF Ses!Resizes
        <5>2. Ses!Known(v, win[v], gc[v], wanted[v], Append(ses_events, e), raised, requests')
          BY <1>3, <1>4, <2>7, <4>3, <5>1, KnownSent
        <5> QED
          BY <1>2, <2>4, <4>1, <4>3, <5>2
      <4> QED
        BY <4>2, <4>3
    <3> QED
      BY <2>4, <3>1, <3>2
  <2>9. window_id' + Ses!Count(requests', Ses!NewWins) <= MaxWin
    BY <1>1, <1>3, <1>5, <1>9
  <2> QED
    BY <2>4, <2>5, <2>6, <2>8, <2>9 DEF Ses!SessionInv, Ses!SizesAreKnown
<1>10. CASE /\ q.type = "props" /\ Ses!Send(Ses!Event("props", q.win, win[q.win].size))
            /\ UNCHANGED <<created, window_id, win>>
  <2> DEFINE e == Ses!Event("props", q.win, win[q.win].size)
  <2>1. /\ e \in Ses!EventRecs /\ e.type = "props" /\ e.n = ses_sent + 1
    <3>1. q.win \in Ses!Wins /\ win[q.win].size \in Sizes
      BY <1>3, <1>4, <1>10 DEF SessionWindows
    <3> QED
      BY <1>3, <3>1 DEF Ses!Event, Ses!EventRecs
  <2>2. Ses!Send(e)
    BY <1>10
  <2> HIDE DEF e
  <2>3. /\ ses_events' = Append(ses_events, e) /\ ses_events' \in Seq(Ses!EventRecs)
        /\ ses_sent' \in Nat
        /\ Ses!InOrder(delivered', Ses!Numbers(raised'), Ses!Numbers(ses_events'), ses_sent', taken')
        /\ Ses!SizesAreKnown'
    BY <1>7, <1>10, <2>1, <2>2
  <2>4. Ses!TypeOK'
    BY <1>1, <1>2, <1>4, <1>10, <2>3 DEF Ses!TypeOK
  <2>5. Ses!CreationIsOwn'
    BY <1>1, <1>2, <1>10, <2>1, <2>3, CreationSteady
  <2>6. window_id' + Ses!Count(requests', Ses!NewWins) <= MaxWin
    BY <1>1, <1>3, <1>5, <1>10
  <2> QED
    BY <2>3, <2>4, <2>5, <2>6 DEF Ses!SessionInv
<1>11. CASE /\ q.type = "keepalive" /\ Ses!NoSend
            /\ UNCHANGED <<created, window_id, win>>
  <2>1. ses_events' = ses_events /\ ses_sent' = ses_sent
    BY <1>11 DEF Ses!NoSend
  <2>2. Ses!TypeOK'
    BY <1>1, <1>2, <1>4, <1>11, <2>1 DEF Ses!TypeOK
  <2>3. Ses!CreationIsOwn'
    BY <1>1, <1>2, <1>11, <2>1, CreationSteady
  <2>4. window_id' + Ses!Count(requests', Ses!NewWins) <= MaxWin
    BY <1>1, <1>3, <1>5, <1>11
  <2>5. Ses!SizesAreKnown'
    BY <1>2, <1>6, <1>11, <2>1 DEF Ses!SizesAreKnown
  <2>6. Ses!InOrder(delivered', Ses!Numbers(raised'), Ses!Numbers(ses_events'), ses_sent', taken')
    BY <1>1, <1>2, <2>1
  <2> QED
    BY <2>2, <2>3, <2>4, <2>5, <2>6 DEF Ses!SessionInv
<1> QED
  BY <1>2, <1>8, <1>9, <1>10, <1>11

(* The client asks for a window or for properties.                         *)
LEMMA SessionAsks ==
  ASSUME Ses!SessionInv, Ses!Create \/ \E w \in Ses!Range(own) : Ses!GetProperties(w)
  PROVE  Ses!SessionInv'
<1>0. Ses!ComposeSessionAssumption
  BY SessionAssumed
<1>1. /\ Ses!TypeOK /\ window_id + Ses!Count(requests, Ses!NewWins) <= MaxWin
      /\ Ses!InOrder(delivered, Ses!Numbers(raised), Ses!Numbers(ses_events), ses_sent, taken)
      /\ Ses!CreationIsOwn
      /\ \A v \in Ses!Wins : Ses!Known(v, win[v], gc[v], wanted[v], ses_events, raised, requests)
  BY DEF Ses!SessionInv, Ses!SizesAreKnown
<1>2. UNCHANGED <<selects, created, window_id, win, ses_sent, wanted, ses_events, gc, own, raised,
                  delivered, taken>>
  BY DEF Ses!Create, Ses!GetProperties, Ses!serverVars
<1>3. /\ ses_events \in Seq(Ses!EventRecs) /\ raised \in Seq(Ses!EventRecs)
      /\ requests \in Seq(Ses!RequestRecs) /\ window_id \in Nat /\ own \in Seq(Ses!Wins)
      /\ MaxWin \in Nat
  BY <1>0, <1>1 DEF Ses!TypeOK, Ses!ComposeSessionAssumption
<1>4. \E q \in Ses!RequestRecs :
        /\ requests' = Append(requests, q) /\ q.type # "confirm" /\ ses_pc = "loop"
        /\ \/ q.type = "newwin" /\ ses_pc' = "create" /\ Ses!Room
           \/ q.type # "newwin" /\ ses_pc' = "props"
  <2>1. CASE Ses!Create
    <3> DEFINE q == Ses!Request("newwin", 0, 0)
    <3>1. q \in Ses!RequestRecs /\ q.type = "newwin"
      BY DEF Ses!Request, Ses!RequestRecs
    <3>2. requests' = Append(requests, q) /\ ses_pc = "loop" /\ ses_pc' = "create" /\ Ses!Room
      BY <2>1 DEF Ses!Create
    <3> HIDE DEF q
    <3> QED
      BY <3>1, <3>2
  <2>2. CASE \E w \in Ses!Range(own) : Ses!GetProperties(w)
    <3>1. PICK w \in Ses!Range(own) : Ses!GetProperties(w)
      BY <2>2
    <3>2. w \in Ses!Wins
      BY <1>3 DEF Ses!Range
    <3> DEFINE q == Ses!Request("props", w, 0)
    <3>3. q \in Ses!RequestRecs /\ q.type = "props"
      BY <3>2 DEF Ses!Request, Ses!RequestRecs
    <3>4. requests' = Append(requests, q) /\ ses_pc = "loop" /\ ses_pc' = "props"
      BY <3>1 DEF Ses!GetProperties
    <3> HIDE DEF q
    <3> QED
      BY <3>3, <3>4
  <2> QED
    BY <2>1, <2>2
<1>5. PICK q \in Ses!RequestRecs :
        /\ requests' = Append(requests, q) /\ q.type # "confirm" /\ ses_pc = "loop"
        /\ \/ q.type = "newwin" /\ ses_pc' = "create" /\ Ses!Room
           \/ q.type # "newwin" /\ ses_pc' = "props"
  BY <1>4
<1>6. requests' \in Seq(Ses!RequestRecs)
  BY <1>3, <1>5
<1>7. Ses!TypeOK'
  BY <1>1, <1>2, <1>5, <1>6 DEF Ses!TypeOK
<1>8. window_id' + Ses!Count(requests', Ses!NewWins) <= MaxWin
  <2>1. /\ Ses!Count(requests', Ses!NewWins)
             = Ses!Count(requests, Ses!NewWins) + (IF q.type = "newwin" THEN 1 ELSE 0)
        /\ Ses!Count(requests, Ses!NewWins) \in Nat
    BY <1>3, <1>5, NewWinsCount
  <2>2. q.type = "newwin" => window_id + Ses!Count(requests, Ses!NewWins) < MaxWin
    BY <1>1, <1>5, SessionRoom
  <2> QED
    BY <1>1, <1>2, <1>3, <2>1, <2>2
<1>9. Ses!CreationIsOwn'
  <2> SUFFICES ASSUME ~selects
               PROVE  Ses!CreationIsOwn'
    BY <1>2 DEF Ses!CreationIsOwn
  <2>1. own = created /\ Ses!NoneOf(requests, "newwin") /\ Ses!NoneOf(ses_events, "win")
    BY <1>1, <1>5 DEF Ses!CreationIsOwn
  <2>2. /\ q.type # "newwin" => Ses!NoneOf(requests', "newwin")
        /\ Ses!OneOf(requests', "newwin")
    BY <1>3, <1>5, <2>1, KindAppend
  <2> QED
    BY <1>2, <1>5, <2>1, <2>2 DEF Ses!CreationIsOwn
<1>10. ASSUME NEW v \in Ses!Wins
       PROVE  Ses!Known(v, win'[v], gc'[v], wanted'[v], ses_events', raised', requests')
  <2>1. q \notin Ses!Confirms(v)
    BY <1>5 DEF Ses!Confirms
  <2>2. Ses!Known(v, win[v], gc[v], wanted[v], ses_events, raised, Append(requests, q))
    BY <1>1, <1>3, <2>1, KnownRequest
  <2> QED
    BY <1>2, <1>5, <2>2
<1>11. Ses!InOrder(delivered', Ses!Numbers(raised'), Ses!Numbers(ses_events'), ses_sent', taken')
  BY <1>1, <1>2
<1> QED
  BY <1>7, <1>8, <1>9, <1>10, <1>11 DEF Ses!SessionInv, Ses!SizesAreKnown

(* What compose_cl_event_poll answers changes nothing that is known.       *)
LEMMA SessionAnswered ==
  ASSUME Ses!SessionInv, NEW e
  PROVE  /\ Ses!Answered(e) \in Seq(Ses!RequestRecs)
         /\ window_id + Ses!Count(Ses!Answered(e), Ses!NewWins) <= MaxWin
         /\ \/ Ses!Answered(e) = requests
            \/ \E q \in Ses!RequestRecs : q.type # "newwin" /\ Ses!Answered(e) = Append(requests, q)
         /\ \A v \in Ses!Wins :
              Ses!Known(v, win[v], gc[v], wanted[v], ses_events, raised, Ses!Answered(e))
         /\ Ses!NoneOf(requests, "newwin") => Ses!NoneOf(Ses!Answered(e), "newwin")
<1> DEFINE q == Ses!Request("keepalive", 0, 0)
<1>1. /\ Ses!TypeOK /\ window_id + Ses!Count(requests, Ses!NewWins) <= MaxWin
      /\ \A v \in Ses!Wins : Ses!Known(v, win[v], gc[v], wanted[v], ses_events, raised, requests)
  BY DEF Ses!SessionInv, Ses!SizesAreKnown
<1>2. /\ ses_events \in Seq(Ses!EventRecs) /\ raised \in Seq(Ses!EventRecs)
      /\ requests \in Seq(Ses!RequestRecs) /\ window_id \in Nat
  BY <1>1 DEF Ses!TypeOK
<1>3. q \in Ses!RequestRecs /\ q.type = "keepalive"
  BY DEF Ses!Request, Ses!RequestRecs
<1>4. Ses!Answered(e) = requests \/ Ses!Answered(e) = Append(requests, q)
  BY DEF Ses!Answered
<1> HIDE DEF q
<1>5. CASE Ses!Answered(e) = requests
  BY <1>1, <1>2, <1>5
<1>6. CASE Ses!Answered(e) = Append(requests, q)
  <2>1. /\ Ses!Count(Append(requests, q), Ses!NewWins)
             = Ses!Count(requests, Ses!NewWins) + (IF q.type = "newwin" THEN 1 ELSE 0)
        /\ Ses!Count(requests, Ses!NewWins) \in Nat
    BY <1>2, <1>3, NewWinsCount
  <2>2. window_id + Ses!Count(Append(requests, q), Ses!NewWins) <= MaxWin
    BY <1>1, <1>3, <2>1
  <2>3. ASSUME NEW v \in Ses!Wins
        PROVE  Ses!Known(v, win[v], gc[v], wanted[v], ses_events, raised, Append(requests, q))
    <3>1. q \notin Ses!Confirms(v)
      BY <1>3 DEF Ses!Confirms
    <3> QED
      BY <1>1, <1>2, <1>3, <3>1, KnownRequest
  <2>4. Ses!NoneOf(requests, "newwin") => Ses!NoneOf(Append(requests, q), "newwin")
    BY <1>2, <1>3, KindAppend
  <2>5. Append(requests, q) \in Seq(Ses!RequestRecs)
    BY <1>2, <1>3
  <2>6. q.type # "newwin"
    BY <1>3
  <2> QED
    BY <1>3, <1>6, <2>2, <2>3, <2>4, <2>5, <2>6
<1> QED
  BY <1>4, <1>5, <1>6

(* A waiting call reads an event, and keeps or raises it.                  *)
LEMMA SessionWait ==
  ASSUME Ses!SessionInv, Ses!Wait
  PROVE  Ses!SessionInv'
<1> DEFINE e == Head(ses_events)
<1>1. /\ Ses!TypeOK
      /\ Ses!InOrder(delivered, Ses!Numbers(raised), Ses!Numbers(ses_events), ses_sent, taken)
      /\ Ses!CreationIsOwn
  BY DEF Ses!SessionInv
<1>2. /\ UNCHANGED <<selects, created, window_id, win, ses_sent, wanted, gc, delivered>>
      /\ ses_pc \in {"create", "props"} /\ ses_events # << >>
      /\ ses_events' = Tail(ses_events) /\ requests' = Ses!Answered(e)
      /\ IF e.type = Ses!Awaited
           THEN /\ ses_pc' = "loop" /\ taken' = taken \cup {e.n}
                /\ own' = IF ses_pc = "create" THEN Append(own, e.win) ELSE own
                /\ UNCHANGED raised
           ELSE raised' = Append(raised, e) /\ UNCHANGED <<ses_pc, taken, own>>
  BY DEF Ses!Wait, Ses!serverVars, Ses!Raised
<1>3. /\ ses_events \in Seq(Ses!EventRecs) /\ raised \in Seq(Ses!EventRecs)
      /\ requests \in Seq(Ses!RequestRecs) /\ own \in Seq(Ses!Wins)
      /\ delivered \in Seq(Nat) /\ ses_sent \in Nat
  BY <1>1 DEF Ses!TypeOK
<1>4. /\ requests' \in Seq(Ses!RequestRecs)
      /\ window_id + Ses!Count(requests', Ses!NewWins) <= MaxWin
      /\ \/ requests' = requests
         \/ \E q \in Ses!RequestRecs : q.type # "newwin" /\ requests' = Append(requests, q)
      /\ \A v \in Ses!Wins :
           Ses!Known(v, win[v], gc[v], wanted[v], ses_events, raised, requests')
      /\ Ses!NoneOf(requests, "newwin") => Ses!NoneOf(requests', "newwin")
  BY <1>2, SessionAnswered
<1>5. /\ ses_events' \in Seq(Ses!EventRecs) /\ e \in Ses!EventRecs
      /\ Ses!Numbers(ses_events') = Tail(Ses!Numbers(ses_events))
      /\ e.n = Head(Ses!Numbers(ses_events)) /\ Ses!Numbers(ses_events) # << >>
      /\ Ses!Numbers(ses_events) \in Seq(Nat) /\ Ses!Numbers(raised) \in Seq(Nat)
  BY <1>2, <1>3, NumbersOf
<1>6. /\ Ses!InOrder(delivered, Ses!Numbers(raised), Ses!Numbers(ses_events'), ses_sent, taken \cup {e.n})
      /\ Ses!InOrder(delivered, Append(Ses!Numbers(raised), e.n), Ses!Numbers(ses_events'), ses_sent, taken)
  <2> DEFINE b == Ses!Numbers(raised)
             c == Ses!Numbers(ses_events)
  <2>1. /\ b \in Seq(Nat) /\ c \in Seq(Nat) /\ c # << >>
        /\ Ses!InOrder(delivered, b, c, ses_sent, taken)
        /\ Ses!Numbers(ses_events') = Tail(c) /\ e.n = Head(c)
    BY <1>1, <1>5
  <2> HIDE DEF b, c, e
  <2>2. /\ Ses!InOrder(delivered, b, Tail(c), ses_sent, taken \cup {Head(c)})
        /\ Ses!InOrder(delivered, Append(b, Head(c)), Tail(c), ses_sent, taken)
    BY <1>3, <2>1, OrderTaken
  <2> QED
    BY <2>1, <2>2 DEF b
<1>7. \A v \in Ses!Wins :
        /\ Ses!Known(v, win[v], gc[v], wanted[v], ses_events', Append(raised, e), requests')
        /\ Ses!Known(v, win[v], gc[v], wanted[v], ses_events', raised, requests')
  <2> SUFFICES ASSUME NEW v \in Ses!Wins
               PROVE  /\ Ses!Known(v, win[v], gc[v], wanted[v], ses_events', Append(raised, e), requests')
                      /\ Ses!Known(v, win[v], gc[v], wanted[v], ses_events', raised, requests')
    OBVIOUS
  <2>1. Ses!Known(v, win[v], gc[v], wanted[v], ses_events, raised, requests')
    BY <1>4
  <2> QED
    BY <1>2, <1>3, <1>4, <2>1, KnownRead
<1>8. Ses!NoneOf(ses_events, "win") => Ses!NoneOf(ses_events', "win") /\ e.type # "win"
  BY <1>2, <1>3, KindTail
<1>9. Ses!Answers(ses_events, own, created) =>
        /\ e.type # "win" => Ses!Answers(ses_events', own, created)
        /\ e.type = "win" => Ses!NoneOf(ses_events', "win") /\ created = Append(own, e.win)
  BY <1>2, <1>3, AnswersTail
<1>10. e.type = "win" => e.win \in Ses!Wins
  BY <1>5 DEF Ses!EventRecs
<1> HIDE DEF e
<1>11. CASE e.type = Ses!Awaited
  <2>1. own' \in Seq(Ses!Wins)
    <3>1. ses_pc = "create" => e.type = "win"
      BY <1>11 DEF Ses!Awaited
    <3>2. (own' = Append(own, e.win) /\ ses_pc = "create") \/ own' = own
      BY <1>2, <1>11
    <3>3. ses_pc = "create" => Append(own, e.win) \in Seq(Ses!Wins)
      BY <1>3, <1>10, <3>1
    <3> QED
      BY <1>3, <3>2, <3>3
  <2>2. Ses!TypeOK'
    BY <1>1, <1>2, <1>4, <1>5, <1>11, <2>1 DEF Ses!TypeOK
  <2>3. Ses!InOrder(delivered', Ses!Numbers(raised'), Ses!Numbers(ses_events'), ses_sent', taken')
    BY <1>2, <1>6, <1>11
  <2>4. Ses!SizesAreKnown'
    BY <1>2, <1>7, <1>11 DEF Ses!SizesAreKnown
  <2>5. Ses!CreationIsOwn'
    <3> SUFFICES ASSUME ~selects
                 PROVE  Ses!CreationIsOwn'
      BY <1>2 DEF Ses!CreationIsOwn
    <3>1. CASE ses_pc = "create"
      <4>1. e.type = "win"
        BY <1>11, <3>1 DEF Ses!Awaited
      <4>2. Ses!NoneOf(requests, "newwin") /\ Ses!Answers(ses_events, own, created)
        BY <1>1, <1>8, <3>1, <4>1 DEF Ses!CreationIsOwn
      <4> QED
        BY <1>2, <1>4, <1>9, <1>11, <3>1, <4>1, <4>2 DEF Ses!CreationIsOwn
    <3>2. CASE ses_pc # "create"
      <4>1. own = created /\ Ses!NoneOf(requests, "newwin") /\ Ses!NoneOf(ses_events, "win")
        BY <1>1, <3>2 DEF Ses!CreationIsOwn
      <4> QED
        BY <1>2, <1>4, <1>8, <1>11, <3>2, <4>1 DEF Ses!CreationIsOwn
    <3> QED
      BY <3>1, <3>2
  <2> QED
    BY <1>2, <1>4, <2>2, <2>3, <2>4, <2>5 DEF Ses!SessionInv
<1>12. CASE e.type # Ses!Awaited
  <2>1. raised' = Append(raised, e) /\ UNCHANGED <<ses_pc, taken, own>>
    BY <1>2, <1>12
  <2>2. raised' \in Seq(Ses!EventRecs) /\ Ses!Numbers(raised') = Append(Ses!Numbers(raised), e.n)
    BY <1>3, <1>5, <2>1, NumbersOf
  <2>3. Ses!TypeOK'
    BY <1>1, <1>2, <1>4, <1>5, <2>1, <2>2 DEF Ses!TypeOK
  <2>4. Ses!InOrder(delivered', Ses!Numbers(raised'), Ses!Numbers(ses_events'), ses_sent', taken')
    BY <1>2, <1>6, <2>1, <2>2
  <2>5. Ses!SizesAreKnown'
    BY <1>2, <1>7, <2>1 DEF Ses!SizesAreKnown
  <2>6. Ses!CreationIsOwn'
    <3>1. ~selects => e.type # "win"
      <4> SUFFICES ASSUME ~selects
                   PROVE  e.type # "win"
        OBVIOUS
      <4>1. CASE ses_pc = "create"
        BY <1>12, <4>1 DEF Ses!Awaited
      <4>2. CASE ses_pc # "create"
        BY <1>1, <1>8, <4>2 DEF Ses!CreationIsOwn
      <4> QED
        BY <4>1, <4>2
    <3> QED
      BY <1>1, <1>2, <1>4, <2>1, <3>1, CreationSteady DEF e
  <2> QED
    BY <1>2, <1>4, <2>3, <2>4, <2>5, <2>6 DEF Ses!SessionInv
<1> QED
  BY <1>11, <1>12

(* The main loop gets an event, raised before or from the socket.          *)
LEMMA SessionProcess ==
  ASSUME Ses!TypeOK, Ses!ComposeSessionAssumption, NEW e \in Ses!EventRecs, Ses!Process(e)
  PROVE  /\ delivered' = Append(delivered, e.n) /\ delivered' \in Seq(Nat)
         /\ requests' \in Seq(Ses!RequestRecs) /\ gc' \in [Ses!Wins -> Sizes]
         /\ \/ gc' = gc /\ requests' = requests
            \/ \E q \in Ses!Confirms(e.win) :
                 /\ e \in Ses!Resizes(e.win) /\ e.win \in Ses!Wins
                 /\ requests' = Append(requests, q) /\ gc' = [gc EXCEPT ![e.win] = e.size]
<1>1. /\ delivered \in Seq(Nat) /\ requests \in Seq(Ses!RequestRecs) /\ gc \in [Ses!Wins -> Sizes]
  BY DEF Ses!TypeOK
<1>2. e.n \in Nat /\ (e.type = "resize" => e.win \in Ses!Wins /\ e.size \in Sizes)
  BY DEF Ses!EventRecs
<1>3. delivered' = Append(delivered, e.n) /\ delivered' \in Seq(Nat)
  BY <1>1, <1>2 DEF Ses!Process
<1>4. CASE e.type = "resize" /\ Ses!HasWidget(e.win)
  <2> DEFINE q == Ses!Request("confirm", e.win, 0)
  <2>1. q \in Ses!Confirms(e.win) /\ q \in Ses!RequestRecs
    BY <1>2, <1>4 DEF Ses!Confirms, Ses!RequestRecs, Ses!Request
  <2>2. requests' = Append(requests, q) /\ gc' = [gc EXCEPT ![e.win] = e.size]
    BY <1>4 DEF Ses!Process
  <2> HIDE DEF q
  <2>3. e \in Ses!Resizes(e.win)
    BY <1>4 DEF Ses!Resizes
  <2>4. requests' \in Seq(Ses!RequestRecs) /\ gc' \in [Ses!Wins -> Sizes]
    BY <1>1, <1>2, <1>4, <2>1, <2>2
  <2> QED
    BY <1>2, <1>3, <1>4, <2>1, <2>2, <2>3, <2>4
<1>5. CASE ~(e.type = "resize" /\ Ses!HasWidget(e.win))
  BY <1>1, <1>3, <1>5 DEF Ses!Process
<1> QED
  BY <1>4, <1>5

LEMMA SessionPoll ==
  ASSUME Ses!SessionInv, Ses!PollRaised \/ Ses!Poll
  PROVE  Ses!SessionInv'
<1>0. Ses!ComposeSessionAssumption
  BY SessionAssumed
<1>1. /\ Ses!TypeOK /\ window_id + Ses!Count(requests, Ses!NewWins) <= MaxWin
      /\ Ses!InOrder(delivered, Ses!Numbers(raised), Ses!Numbers(ses_events), ses_sent, taken)
      /\ Ses!CreationIsOwn
      /\ \A v \in Ses!Wins : Ses!Known(v, win[v], gc[v], wanted[v], ses_events, raised, requests)
  BY DEF Ses!SessionInv, Ses!SizesAreKnown
<1>2. /\ UNCHANGED <<selects, created, window_id, win, ses_sent, wanted, ses_pc, own, taken>>
      /\ ses_pc = "loop"
  BY DEF Ses!PollRaised, Ses!Poll, Ses!serverVars
<1>3. /\ ses_events \in Seq(Ses!EventRecs) /\ raised \in Seq(Ses!EventRecs)
      /\ requests \in Seq(Ses!RequestRecs) /\ gc \in [Ses!Wins -> Sizes] /\ window_id \in Nat
      /\ delivered \in Seq(Nat) /\ ses_sent \in Nat
      /\ Ses!Numbers(ses_events) \in Seq(Nat) /\ Ses!Numbers(raised) \in Seq(Nat)
  BY <1>1, NumbersOf DEF Ses!TypeOK
<1>4. ASSUME NEW e \in Ses!EventRecs, NEW q \in Ses!Confirms(e.win), requests' = Append(requests, q)
      PROVE  /\ window_id + Ses!Count(requests', Ses!NewWins) <= MaxWin
             /\ \E p \in Ses!RequestRecs : p.type # "newwin" /\ requests' = Append(requests, p)
             /\ \A v \in Ses!Wins : v # e.win => q \in Ses!RequestRecs /\ q \notin Ses!Confirms(v)
  <2>1. q \in Ses!RequestRecs /\ q.type = "confirm" /\ q.win = e.win
    BY DEF Ses!Confirms
  <2>2. /\ Ses!Count(requests', Ses!NewWins)
             = Ses!Count(requests, Ses!NewWins) + (IF q.type = "newwin" THEN 1 ELSE 0)
        /\ Ses!Count(requests, Ses!NewWins) \in Nat
    BY <1>3, <1>4, <2>1, NewWinsCount
  <2>3. window_id + Ses!Count(requests', Ses!NewWins) <= MaxWin
    BY <1>1, <2>1, <2>2
  <2>4. q.type # "newwin"
    BY <2>1
  <2>5. \A v \in Ses!Wins : v # e.win => q \notin Ses!Confirms(v)
    BY <2>1 DEF Ses!Confirms
  <2> QED
    BY <1>4, <2>1, <2>3, <2>4, <2>5
<1>5. ~selects => Ses!NoneOf(ses_events, "win")
  BY <1>1, <1>2 DEF Ses!CreationIsOwn
<1>6. CASE Ses!PollRaised
  <2> DEFINE e == Head(raised)
  <2>1. /\ raised # << >> /\ Ses!Process(e) /\ raised' = Tail(raised) /\ ses_events' = ses_events
    BY <1>6 DEF Ses!PollRaised
  <2>2. /\ e \in Ses!EventRecs /\ raised' \in Seq(Ses!EventRecs)
        /\ Ses!Numbers(raised') = Tail(Ses!Numbers(raised)) /\ e.n = Head(Ses!Numbers(raised))
        /\ Ses!Numbers(raised) # << >>
    BY <1>3, <2>1, NumbersOf
  <2>3. /\ delivered' = Append(delivered, e.n) /\ delivered' \in Seq(Nat)
        /\ requests' \in Seq(Ses!RequestRecs) /\ gc' \in [Ses!Wins -> Sizes]
        /\ \/ gc' = gc /\ requests' = requests
           \/ \E q \in Ses!Confirms(e.win) :
                /\ e \in Ses!Resizes(e.win) /\ e.win \in Ses!Wins
                /\ requests' = Append(requests, q) /\ gc' = [gc EXCEPT ![e.win] = e.size]
    BY <1>0, <1>1, <2>1, <2>2, SessionProcess
  <2>4. Ses!InOrder(delivered', Ses!Numbers(raised'), Ses!Numbers(ses_events'), ses_sent', taken')
    <3> DEFINE b == Ses!Numbers(raised)
               c == Ses!Numbers(ses_events)
    <3>1. /\ b \in Seq(Nat) /\ c \in Seq(Nat) /\ b # << >>
          /\ Ses!InOrder(delivered, b, c, ses_sent, taken)
          /\ Ses!Numbers(raised') = Tail(b) /\ e.n = Head(b) /\ Ses!Numbers(ses_events') = c
      BY <1>1, <1>3, <2>1, <2>2
    <3> HIDE DEF b, c, e
    <3>2. Ses!InOrder(Append(delivered, Head(b)), Tail(b), c, ses_sent, taken)
      BY <1>3, <3>1, OrderMoved
    <3> QED
      BY <1>2, <2>3, <3>1, <3>2
  <2>5. Ses!TypeOK'
    BY <1>1, <1>2, <2>1, <2>2, <2>3 DEF Ses!TypeOK
  <2>6. CASE gc' = gc /\ requests' = requests
    <3>1. Ses!SizesAreKnown'
      <4> SUFFICES ASSUME NEW v \in Ses!Wins
                   PROVE  Ses!Known(v, win[v], gc[v], wanted[v], ses_events, Tail(raised), requests)
        BY <1>2, <2>1, <2>6 DEF Ses!SizesAreKnown
      <4> QED
        BY <1>1, <1>3, <2>1, KnownRead
    <3>2. Ses!CreationIsOwn'
      BY <1>1, <1>2, <2>1, <2>6, CreationSteady
    <3> QED
      BY <1>1, <1>2, <2>4, <2>5, <2>6, <3>1, <3>2 DEF Ses!SessionInv
  <2>7. ASSUME NEW q \in Ses!Confirms(e.win), e \in Ses!Resizes(e.win), e.win \in Ses!Wins,
               requests' = Append(requests, q), gc' = [gc EXCEPT ![e.win] = e.size]
        PROVE  Ses!SessionInv'
    <3>1. /\ window_id + Ses!Count(requests', Ses!NewWins) <= MaxWin
          /\ \E p \in Ses!RequestRecs : p.type # "newwin" /\ requests' = Append(requests, p)
          /\ \A v \in Ses!Wins : v # e.win => q \in Ses!RequestRecs /\ q \notin Ses!Confirms(v)
      BY <1>4, <2>2, <2>7
    <3>2. Ses!CreationIsOwn'
      BY <1>1, <1>2, <2>1, <3>1, CreationSteady
    <3>3. ASSUME NEW v \in Ses!Wins
          PROVE  Ses!Known(v, win[v], gc'[v], wanted[v], ses_events, Tail(raised), Append(requests, q))
      <4>0. Ses!Known(v, win[v], gc[v], wanted[v], ses_events, raised, requests)
        BY <1>1
      <4>1. CASE v = e.win
        <5>1. gc'[v] = e.size
          BY <1>3, <2>7, <4>1
        <5>2. q \in Ses!Confirms(v) /\ e \in Ses!Resizes(v)
          BY <2>7, <4>1
        <5>3. Ses!Known(v, win[v], e.size, wanted[v], ses_events, Tail(raised), Append(requests, q))
          BY <1>3, <2>1, <4>0, <5>2, KnownDrawn
        <5> QED
          BY <5>1, <5>3
      <4>2. CASE v # e.win
        <5>1. gc'[v] = gc[v]
          BY <1>3, <2>7, <4>2
        <5>2. Ses!Known(v, win[v], gc[v], wanted[v], ses_events, raised, Append(requests, q))
          BY <1>3, <3>1, <4>0, <4>2, KnownRequest
        <5>3. Append(requests, q) \in Seq(Ses!RequestRecs)
          BY <2>3, <2>7
        <5>4. Ses!Known(v, win[v], gc[v], wanted[v], ses_events, Tail(raised), Append(requests, q))
          BY <1>3, <2>1, <5>2, <5>3, KnownRead
        <5> QED
          BY <5>1, <5>4
      <4> QED
        BY <4>1, <4>2
    <3>4. Ses!SizesAreKnown'
      BY <1>2, <2>1, <2>7, <3>3 DEF Ses!SizesAreKnown
    <3> QED
      BY <1>2, <2>4, <2>5, <3>1, <3>2, <3>4 DEF Ses!SessionInv
  <2> HIDE DEF e
  <2> QED
    BY <2>3, <2>6, <2>7
<1>7. CASE Ses!Poll
  <2> DEFINE e == Head(ses_events)
  <2>1. /\ raised = << >> /\ ses_events # << >> /\ ses_events' = Tail(ses_events)
        /\ raised' = raised
        /\ IF e.type = "keepalive"
             THEN /\ requests' = Ses!Answered(e) /\ delivered' = Append(delivered, e.n)
                  /\ UNCHANGED gc
             ELSE Ses!Process(e)
    BY <1>7 DEF Ses!Poll
  <2>2. /\ e \in Ses!EventRecs /\ ses_events' \in Seq(Ses!EventRecs)
        /\ Ses!Numbers(ses_events') = Tail(Ses!Numbers(ses_events))
        /\ e.n = Head(Ses!Numbers(ses_events)) /\ Ses!Numbers(ses_events) # << >>
        /\ Ses!Numbers(raised) = << >>
    <3>1. /\ Ses!Numbers(ses_events') = Tail(Ses!Numbers(ses_events)) /\ e \in Ses!EventRecs
          /\ e.n = Head(Ses!Numbers(ses_events)) /\ Ses!Numbers(ses_events) # << >>
      BY <1>3, <2>1, NumbersOf
    <3>2. Ses!Numbers(raised) = << >>
      BY <1>3, <2>1, NumbersOf
    <3>3. ses_events' \in Seq(Ses!EventRecs)
      BY <1>3, <2>1
    <3> QED
      BY <3>1, <3>2, <3>3
  <2>3. delivered' = Append(delivered, e.n) =>
          /\ Ses!InOrder(delivered', Ses!Numbers(raised'), Ses!Numbers(ses_events'), ses_sent', taken')
          /\ delivered' \in Seq(Nat)
    <3>1. Ses!InOrder(Append(delivered, e.n), Ses!Numbers(raised), Ses!Numbers(ses_events'),
                      ses_sent, taken)
      BY <1>1, <1>3, <2>2, OrderTaken
    <3>2. e.n \in Nat
      BY <1>3, <2>2
    <3> QED
      BY <1>2, <1>3, <2>1, <3>1, <3>2
  <2>4. ~selects => e.type # "win"
    BY <1>3, <1>5, <2>1, KindTail
  <2>5. CASE e.type = "keepalive"
    <3>1. /\ requests' = Ses!Answered(e) /\ delivered' = Append(delivered, e.n) /\ gc' = gc
      BY <2>1, <2>5
    <3>2. /\ requests' \in Seq(Ses!RequestRecs)
          /\ window_id + Ses!Count(requests', Ses!NewWins) <= MaxWin
          /\ \/ requests' = requests
             \/ \E q \in Ses!RequestRecs : q.type # "newwin" /\ requests' = Append(requests, q)
          /\ \A v \in Ses!Wins :
               Ses!Known(v, win[v], gc[v], wanted[v], ses_events, raised, requests')
      BY <3>1, SessionAnswered
    <3>3. Ses!TypeOK'
      BY <1>1, <1>2, <2>1, <2>2, <2>3, <3>1, <3>2 DEF Ses!TypeOK
    <3>4. Ses!CreationIsOwn'
      BY <1>1, <1>2, <2>1, <2>4, <3>2, CreationSteady
    <3>5. ASSUME NEW v \in Ses!Wins
          PROVE  Ses!Known(v, win[v], gc[v], wanted[v], Tail(ses_events), raised, requests')
      BY <1>3, <2>1, <3>2, KnownRead
    <3>6. Ses!SizesAreKnown'
      BY <1>2, <2>1, <3>1, <3>5 DEF Ses!SizesAreKnown
    <3> QED
      BY <1>2, <2>3, <3>1, <3>2, <3>3, <3>4, <3>6 DEF Ses!SessionInv
  <2>6. CASE e.type # "keepalive"
    <3>1. /\ delivered' = Append(delivered, e.n) /\ delivered' \in Seq(Nat)
          /\ requests' \in Seq(Ses!RequestRecs) /\ gc' \in [Ses!Wins -> Sizes]
          /\ \/ gc' = gc /\ requests' = requests
             \/ \E q \in Ses!Confirms(e.win) :
                  /\ e \in Ses!Resizes(e.win) /\ e.win \in Ses!Wins
                  /\ requests' = Append(requests, q) /\ gc' = [gc EXCEPT ![e.win] = e.size]
      BY <1>0, <1>1, <2>1, <2>2, <2>6, SessionProcess
    <3>2. Ses!TypeOK'
      BY <1>1, <1>2, <2>1, <2>2, <3>1 DEF Ses!TypeOK
    <3>3. CASE gc' = gc /\ requests' = requests
      <4>1. Ses!SizesAreKnown'
        <5> SUFFICES ASSUME NEW v \in Ses!Wins
                     PROVE  Ses!Known(v, win[v], gc[v], wanted[v], Tail(ses_events), raised, requests)
          BY <1>2, <2>1, <3>3 DEF Ses!SizesAreKnown
        <5> QED
          BY <1>1, <1>3, <2>1, KnownRead
      <4>2. Ses!CreationIsOwn'
        BY <1>1, <1>2, <2>1, <2>4, <3>3, CreationSteady
      <4> QED
        BY <1>1, <1>2, <2>3, <3>1, <3>2, <3>3, <4>1, <4>2 DEF Ses!SessionInv
    <3>4. ASSUME NEW q \in Ses!Confirms(e.win), e \in Ses!Resizes(e.win), e.win \in Ses!Wins,
                 requests' = Append(requests, q), gc' = [gc EXCEPT ![e.win] = e.size]
          PROVE  Ses!SessionInv'
      <4>1. /\ window_id + Ses!Count(requests', Ses!NewWins) <= MaxWin
            /\ \E p \in Ses!RequestRecs : p.type # "newwin" /\ requests' = Append(requests, p)
            /\ \A v \in Ses!Wins : v # e.win => q \in Ses!RequestRecs /\ q \notin Ses!Confirms(v)
        BY <1>4, <2>2, <3>4
      <4>2. Ses!CreationIsOwn'
        BY <1>1, <1>2, <2>1, <2>4, <4>1, CreationSteady
      <4>3. ASSUME NEW v \in Ses!Wins
            PROVE  Ses!Known(v, win[v], gc'[v], wanted[v], Tail(ses_events), raised, Append(requests, q))
        <5>0. Ses!Known(v, win[v], gc[v], wanted[v], ses_events, raised, requests)
          BY <1>1
        <5>1. CASE v = e.win
          <6>1. gc'[v] = e.size
            BY <1>3, <3>4, <5>1
          <6>2. q \in Ses!Confirms(v) /\ e \in Ses!Resizes(v)
            BY <3>4, <5>1
          <6>3. Ses!Known(v, win[v], e.size, wanted[v], Tail(ses_events), raised, Append(requests, q))
            BY <1>3, <2>1, <5>0, <6>2, KnownDrawn
          <6> QED
            BY <6>1, <6>3
        <5>2. CASE v # e.win
          <6>1. gc'[v] = gc[v]
            BY <1>3, <3>4, <5>2
          <6>2. Ses!Known(v, win[v], gc[v], wanted[v], ses_events, raised, Append(requests, q))
            BY <1>3, <4>1, <5>0, <5>2, KnownRequest
          <6>3. Append(requests, q) \in Seq(Ses!RequestRecs)
            BY <3>1, <3>4
          <6>4. Ses!Known(v, win[v], gc[v], wanted[v], Tail(ses_events), raised, Append(requests, q))
            BY <1>3, <2>1, <6>2, <6>3, KnownRead
          <6> QED
            BY <6>1, <6>4
        <5> QED
          BY <5>1, <5>2
      <4>4. Ses!SizesAreKnown'
        BY <1>2, <2>1, <3>4, <4>3 DEF Ses!SizesAreKnown
      <4> QED
        BY <1>2, <2>3, <3>1, <3>2, <4>1, <4>2, <4>4 DEF Ses!SessionInv
    <3> HIDE DEF e
    <3> QED
      BY <3>1, <3>3, <3>4
  <2> QED
    BY <2>5, <2>6
<1> QED
  BY <1>6, <1>7

LEMMA SessionPromises ==
  ASSUME Ses!SessionInv
  PROVE  /\ Ses!EventsInOrder /\ Ses!OwnWindowIsOwn /\ Ses!OneResizeAtATime
         /\ Ses!LastSizeWins
<1>1. /\ Ses!TypeOK
      /\ Ses!InOrder(delivered, Ses!Numbers(raised), Ses!Numbers(ses_events), ses_sent, taken)
      /\ Ses!CreationIsOwn
      /\ \A v \in Ses!Wins : Ses!Known(v, win[v], gc[v], wanted[v], ses_events, raised, requests)
  BY DEF Ses!SessionInv, Ses!SizesAreKnown
<1>2. own \in Seq(Ses!Wins) /\ created \in Seq(Ses!Wins)
  BY <1>1 DEF Ses!TypeOK
<1>3. Ses!EventsInOrder
  BY <1>1, EventsFollow
<1>4. Ses!OwnWindowIsOwn
  <2> SUFFICES ASSUME ~selects
               PROVE  Len(own) <= Len(created) /\ \A i \in DOMAIN own : own[i] = created[i]
    BY DEF Ses!OwnWindowIsOwn
  <2>1. CASE own = created
    BY <1>2, <2>1
  <2>2. CASE Ses!Answers(ses_events, own, created)
    <3>1. PICK i \in DOMAIN ses_events : created = Append(own, ses_events[i].win)
      BY <2>2 DEF Ses!Answers
    <3> DEFINE n == ses_events[i].win
    <3> HIDE DEF n
    <3>2. created = Append(own, n)
      BY <3>1 DEF n
    <3> QED
      BY <1>2, <3>2
  <2> QED
    BY <1>1, <2>1, <2>2 DEF Ses!CreationIsOwn
<1>5. Ses!OneResizeAtATime
  BY <1>1 DEF Ses!OneResizeAtATime, Ses!Known, Ses!Pending
<1>6. Ses!LastSizeWins
  <2>1. \A w \in Ses!Range(created) : w \in Ses!Wins
    BY <1>2 DEF Ses!Range
  <2> QED
    BY <1>1, <2>1 DEF Ses!LastSizeWins, Ses!Known
<1> QED
  BY <1>3, <1>4, <1>5, <1>6

(* For any sizes, and any number of windows, resizes and events: the main  *)
(* loop of a client gets every event that no waiting call kept, once and   *)
(* in the order of sending; the windows a client believes it created are   *)
(* its own unless it selected the WIN events of others; at most one resize *)
(* of a window is under way, as an event or as its confirmation, and when  *)
(* none is the window has the size asked for last.                         *)
THEOREM SessionStaysSound == Spec => []SessionIsSound
<1> DEFINE Inv == part = "session" => Ses!SessionInv
<1>1. Init => Inv
  BY InitSession DEF Init
<1>2. Inv /\ [Next]_vars => Inv'
  <2> SUFFICES ASSUME Inv, [Next]_vars
               PROVE  Inv'
    OBVIOUS
  <2>1. CASE part # "session"
    BY <2>1 DEF Next, vars
  <2>2. CASE part = "session" /\ Next
    <3>1. Ses!SessionInv /\ Ses!Next
      BY <2>2 DEF Next
    <3>2. Ses!SessionInv'
      BY <3>1, SessionHandle, SessionWait, SessionPoll, SessionAsks, SessionOther, SessionResize
         DEF Ses!Next, Ses!Server, Ses!Client
    <3> QED
      BY <3>2
  <2>3. CASE part = "session" /\ UNCHANGED vars
    BY <2>3 DEF vars, sesVars, Ses!SessionInv, Ses!TypeOK, Ses!CreationIsOwn, Ses!SizesAreKnown
  <2> QED
    BY <2>1, <2>2, <2>3
<1>3. Inv => SessionIsSound
  BY SessionPromises DEF SessionIsSound
<1> QED
  BY <1>1, <1>2, <1>3, PTL DEF Spec
=============================================================================
