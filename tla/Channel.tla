------------------------------- MODULE Channel ------------------------------
(***************************************************************************)
(* What a byte stream promises: bytes leave it in the order in which they  *)
(* entered, none is lost, invented or repeated, and it never holds more    *)
(* than Capacity of them.                                                  *)
(***************************************************************************)
EXTENDS Integers, Sequences

CONSTANTS Capacity, Bytes

VARIABLES chan,   \* the bytes in transit, oldest first
          last    \* the byte that was last taken out

Init == chan = << >> /\ last \in Bytes

Send(b) ==
  /\ Len(chan) < Capacity
  /\ chan' = Append(chan, b)
  /\ UNCHANGED last

Receive ==
  /\ chan # << >>
  /\ last' = Head(chan)
  /\ chan' = Tail(chan)

Next == (\E b \in Bytes : Send(b)) \/ Receive

Spec == Init /\ [][Next]_<<chan, last>>
=============================================================================
