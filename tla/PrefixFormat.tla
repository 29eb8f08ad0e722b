--------------------------- MODULE PrefixFormat ---------------------------
(***************************************************************************)
(* Packets behind a length of four bytes.  Packet n has Lengths[n] bytes;  *)
(* a byte on the wire is known by its packet and its place there, the      *)
(* length in front.  Four bytes that are not the length of one packet are  *)
(* read as any length up to MaxPrefix.                                     *)
(***************************************************************************)
EXTENDS Integers, Sequences

CONSTANTS
  Lengths,     \* of the packets that are sent, in that order
  Reserved,    \* bytes that the ring grants for LV2_OSC_STREAM_REQBUF
  MaxPrefix    \* bound: the largest length that is misread

PrefixSize == 4   \* sizeof(uint32_t)

ASSUME LengthsAssumption == Lengths \in Seq(Nat)
ASSUME MaxPrefixAssumption == MaxPrefix \in Nat
ASSUME ReservedAssumption == Reserved \in Nat /\ Reserved >= PrefixSize

Place(n, i) == [number |-> n, at |-> i]
Prefix(n) == [i \in 1..PrefixSize |-> Place(n, i)]
Body(n) == [i \in 1..Lengths[n] |-> Place(n, PrefixSize + i)]
===========================================================================
