------------------------------- MODULE Line -------------------------------
(***************************************************************************)
(* What a byte stream with packets framed on it is for: the packets come   *)
(* out whole, in the order they were put in, each at most once.  Some may  *)
(* be lost.  Packets are known by their number.                            *)
(***************************************************************************)
EXTENDS Naturals, Sequences

VARIABLES
  sent,       \* how many packets were put in
  delivered   \* the numbers of those that came out

vars == <<sent, delivered>>

Latest == IF delivered = << >> THEN 0 ELSE delivered[Len(delivered)]

Init == sent = 0 /\ delivered = << >>

Send == sent' = sent + 1 /\ UNCHANGED delivered

Deliver ==
  /\ \E n \in (Latest + 1)..sent : delivered' = Append(delivered, n)
  /\ UNCHANGED sent

Next == Send \/ Deliver

Spec == Init /\ [][Next]_vars
===========================================================================
