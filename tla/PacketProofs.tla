---------------------------- MODULE PacketProofs ----------------------------
(***************************************************************************)
(* Proofs about writing a packet, reading what arrived of it, and writing  *)
(* again what was read, for any messages, timetags, size of the buffer and *)
(* depth of bundles.                                                       *)
(***************************************************************************)
EXTENDS Packet, FiniteSetTheorems, WellFoundedInduction, TLAPS

(* Spans of a packet: a bundle or a message, and what follows in a bundle  *)
(* from one of its items on.  depth is the number of bundles that there    *)
(* still may be within each other, timetag that of the bundle around.      *)
APacket(p, e, d, t) == [is |-> "packet", from |-> p, to |-> e, depth |-> d, timetag |-> t]
TheItems(p, e, d, t) == [is |-> "items", from |-> p, to |-> e, depth |-> d, timetag |-> t]

(* None of the messages in W begins from p up to e.                        *)
NoneIn(W, p, e) == \A m \in W : ~(p <= m.at /\ m.at < e)

(* The span is one of the messages in W, and no other begins in it.        *)
MessageAt(b, W, x) ==
  \E m \in W :
    /\ m.at = x.from /\ m.timetag = x.timetag /\ m.message \in Messages
    /\ x.to = x.from + Len(MessageWords(m.message))
    /\ \A i \in 1..Len(MessageWords(m.message)) :
         b[x.from + i] = MessageWords(m.message)[i]
    /\ NoneIn(W, x.from + 1, x.to)

(* What a bundle begins with                                               *)
HeadAt(b, W, p) ==
  /\ \A i \in 1..4 : b[p + i] = (Words(2, Bundle) \o Words(2, b[p + 3].of))[i]
  /\ NoneIn(W, p, p + 4)

(* Where the items from p to e begin and end: S holds what they consist of *)
Sized(b, W, S, p, e, d, t) ==
  /\ p < e
  /\ b[p + 1].of \in Nat /\ b[p + 1].part = 1 /\ NoneIn(W, p, p + 1)
  /\ p + 1 + b[p + 1].of <= e
  /\ APacket(p + 1, p + 1 + b[p + 1].of, d, t) \in S
  /\ TheItems(p + 1 + b[p + 1].of, e, d, t) \in S

BundleIn(b, W, S, x) ==
  /\ x.depth > 0 /\ x.from + 4 < x.to
  /\ HeadAt(b, W, x.from)
  /\ TheItems(x.from + 4, x.to, x.depth - 1, b[x.from + 3].of) \in S

WellFormed(b, W, S, x) ==
  /\ x.from <= x.to /\ x.to <= Len(b)
  /\ x.is = "items" =>
       x.from = x.to \/ Sized(b, W, S, x.from, x.to, x.depth, x.timetag)
  /\ x.is = "packet" =>
       x.from < x.to /\ (MessageAt(b, W, x) \/ BundleIn(b, W, S, x))

Closed(b, W, S) ==
  \A x \in S :
    x.from \in Nat /\ x.to \in Nat /\ x.depth \in Nat /\ WellFormed(b, W, S, x)

Sound(b, W, x) == \E S : Closed(b, W, S) /\ x \in S
-----------------------------------------------------------------------------
(* Spans *)

(* Items begin and end inside the buffer; if there are any, the first has  *)
(* a size, and what it leads to is a packet and the other items.           *)
LEMMA ItemsFacts ==
  ASSUME NEW b, NEW W, NEW p \in Nat, NEW e \in Nat, NEW d \in Nat, NEW t,
         Sound(b, W, TheItems(p, e, d, t))
  PROVE  /\ p <= e /\ e <= Len(b)
         /\ p # e =>
              /\ p < e /\ b[p + 1].of \in Nat /\ p + 1 + b[p + 1].of <= e
              /\ b[p + 1].part = 1 /\ NoneIn(W, p, p + 1)
              /\ Sound(b, W, APacket(p + 1, p + 1 + b[p + 1].of, d, t))
              /\ Sound(b, W, TheItems(p + 1 + b[p + 1].of, e, d, t))
<1>1. PICK S : Closed(b, W, S) /\ TheItems(p, e, d, t) \in S
  BY DEF Sound
<1> DEFINE x == TheItems(p, e, d, t)
<1>2. x.from = p /\ x.to = e /\ x.depth = d /\ x.is = "items" /\ x.timetag = t
  BY DEF TheItems
<1>3. WellFormed(b, W, S, x)
  BY <1>1 DEF Closed
<1> HIDE DEF x
<1>4. p <= e /\ e <= Len(b) /\ (p = e \/ Sized(b, W, S, p, e, d, t))
  BY <1>2, <1>3 DEF WellFormed
<1>5. Sized(b, W, S, p, e, d, t) =>
        /\ p < e /\ b[p + 1].of \in Nat /\ p + 1 + b[p + 1].of <= e
        /\ b[p + 1].part = 1 /\ NoneIn(W, p, p + 1)
        /\ Sound(b, W, APacket(p + 1, p + 1 + b[p + 1].of, d, t))
        /\ Sound(b, W, TheItems(p + 1 + b[p + 1].of, e, d, t))
  BY <1>1 DEF Sized, Sound
<1> QED BY <1>4, <1>5

(* A packet is not empty and ends inside the buffer; it is a message, or a *)
(* bundle, which has items behind its head and may be one deeper than they *)
(* are.                                                                    *)
LEMMA PacketFacts ==
  ASSUME NEW b, NEW W, NEW p \in Nat, NEW e \in Nat, NEW d \in Nat, NEW t,
         Sound(b, W, APacket(p, e, d, t))
  PROVE  /\ p < e /\ e <= Len(b)
         /\ \/ MessageAt(b, W, APacket(p, e, d, t))
            \/ /\ d > 0 /\ p + 4 < e /\ HeadAt(b, W, p)
               /\ Sound(b, W, TheItems(p + 4, e, d - 1, b[p + 3].of))
<1>1. PICK S : Closed(b, W, S) /\ APacket(p, e, d, t) \in S
  BY DEF Sound
<1> DEFINE x == APacket(p, e, d, t)
<1>2. x.from = p /\ x.to = e /\ x.depth = d /\ x.is = "packet" /\ x.timetag = t
  BY DEF APacket
<1>3. WellFormed(b, W, S, x)
  BY <1>1 DEF Closed
<1> HIDE DEF x
<1>4. p < e /\ e <= Len(b) /\ (MessageAt(b, W, x) \/ BundleIn(b, W, S, x))
  BY <1>2, <1>3 DEF WellFormed
<1>5. BundleIn(b, W, S, x) =>
        /\ d > 0 /\ p + 4 < e /\ HeadAt(b, W, p)
        /\ TheItems(p + 4, e, d - 1, b[p + 3].of) \in S
  BY <1>2 DEF BundleIn
<1> QED BY <1>1, <1>4, <1>5 DEF Sound, x

(* V and W hold the same of what begins from p up to e.                    *)
Same(W, V, p, e) ==
  \A m \in W \cup V : m.at \in Nat /\ (p <= m.at /\ m.at < e => m \in W /\ m \in V)

LEMMA NoneKept ==
  ASSUME NEW W, NEW V, NEW p \in Nat, NEW e \in Nat, Same(W, V, p, e),
         NEW q \in Nat, NEW f \in Nat, p <= q, f <= e, NoneIn(W, q, f)
  PROVE  NoneIn(V, q, f)
<1> SUFFICES ASSUME NEW m \in V, q <= m.at, m.at < f PROVE FALSE
  BY DEF NoneIn
<1>1. m.at \in Nat /\ (p <= m.at /\ m.at < e => m \in W)
  BY DEF Same
<1>2. m \in W
  BY <1>1
<1> QED BY <1>2 DEF NoneIn

LEMMA SameFacts ==
  ASSUME NEW W, \A m \in W : m.at \in Nat, NEW p, NEW e
  PROVE  Same(W, W, p, e)
  BY DEF Same

(* A message stays what it is.                                             *)
LEMMA MessageKept ==
  ASSUME NEW b, NEW c, NEW W, NEW V, NEW x, x.from \in Nat, x.to \in Nat,
         Same(W, V, x.from, x.to), \A i \in (x.from + 1)..x.to : c[i] = b[i],
         x.from < x.to, MessageAt(b, W, x)
  PROVE  MessageAt(c, V, x)
<1>1. PICK m \in W :
        /\ m.at = x.from /\ m.timetag = x.timetag /\ m.message \in Messages
        /\ x.to = x.from + Len(MessageWords(m.message))
        /\ \A i \in 1..Len(MessageWords(m.message)) :
             b[x.from + i] = MessageWords(m.message)[i]
        /\ NoneIn(W, x.from + 1, x.to)
  BY DEF MessageAt
<1> DEFINE words == MessageWords(m.message)
<1>2. m \in V
  BY <1>1 DEF Same
<1>3. NoneIn(V, x.from + 1, x.to)
  <2>1. x.from + 1 \in Nat /\ x.from <= x.from + 1
    OBVIOUS
  <2> QED BY <1>1, <2>1, NoneKept
<1>4. ASSUME NEW i \in 1..Len(words) PROVE c[x.from + i] = words[i]
  <2>1. x.from + i \in (x.from + 1)..x.to
    BY <1>1
  <2> QED BY <1>1, <2>1
<1> QED BY <1>1, <1>2, <1>3, <1>4 DEF MessageAt

LEMMA HeadKept ==
  ASSUME NEW b, NEW c, NEW W, NEW V, NEW p \in Nat, NEW q \in Nat, NEW e \in Nat,
         p <= q, q + 4 <= e, Same(W, V, p, e), \A i \in (q + 1)..(q + 4) : c[i] = b[i],
         HeadAt(b, W, q)
  PROVE  HeadAt(c, V, q) /\ c[q + 3].of = b[q + 3].of
<1>1. \A i \in 1..4 : q + i \in (q + 1)..(q + 4)
  OBVIOUS
<1>2. \A i \in 1..4 : c[q + i] = b[q + i]
  BY <1>1
<1>3. c[q + 3] = b[q + 3]
  BY <1>2
<1>4. NoneIn(V, q, q + 4)
  <2>1. q + 4 \in Nat /\ NoneIn(W, q, q + 4)
    BY DEF HeadAt
  <2> QED BY <2>1, NoneKept
<1> QED BY <1>2, <1>3, <1>4 DEF HeadAt

(* A span depends on nothing outside of it.                                *)
LEMMA SpanKept ==
  ASSUME NEW b, NEW c, NEW W, NEW V, NEW x, Sound(b, W, x), x.to <= Len(c),
         Same(W, V, x.from, x.to),
         \A i \in (x.from + 1)..x.to : c[i] = b[i]
  PROVE  Sound(c, V, x)
<1>1. PICK S : Closed(b, W, S) /\ x \in S
  BY DEF Sound
<1> DEFINE K == {y \in S : x.from <= y.from /\ y.to <= x.to}
<1>2. \A y \in S : WellFormed(b, W, S, y)
  BY <1>1 DEF Closed
<1>3. \A y \in S : y.from \in Nat /\ y.to \in Nat /\ y.depth \in Nat
  BY <1>1 DEF Closed
<1>4. x \in K
  BY <1>1, <1>3
<1>5. ASSUME NEW y \in K PROVE WellFormed(c, V, K, y)
  <2>1. /\ y \in S /\ x.from <= y.from /\ y.to <= x.to
        /\ y.from \in Nat /\ y.to \in Nat /\ y.depth \in Nat
        /\ x.from \in Nat /\ x.to \in Nat
    BY <1>1, <1>3
  <2>2. WellFormed(b, W, S, y)
    BY <1>2, <2>1
  <2>3. \A i \in (y.from + 1)..y.to : c[i] = b[i]
    <3>1. \A i \in (y.from + 1)..y.to : i \in (x.from + 1)..x.to
      BY <2>1
    <3> QED BY <3>1
  <2>4. \A p, e, d \in Nat : \A t : x.from <= p /\ e <= x.to =>
          /\ APacket(p, e, d, t) \in S => APacket(p, e, d, t) \in K
          /\ TheItems(p, e, d, t) \in S => TheItems(p, e, d, t) \in K
    BY DEF APacket, TheItems
  <2> HIDE DEF K
  <2>5. y.from <= y.to /\ y.to <= Len(c)
    <3>1. \A n : n <= Len(c) /\ n = x.to => n <= Len(c)
      OBVIOUS
    <3> QED BY <2>1, <2>2 DEF WellFormed
  <2>6. ASSUME Sized(b, W, S, y.from, y.to, y.depth, y.timetag)
        PROVE  Sized(c, V, K, y.from, y.to, y.depth, y.timetag)
    <3> DEFINE p == y.from
               e == y.to
               q == y.from + 1 + b[y.from + 1].of
    <3>0. y.from + 1 \in (y.from + 1)..y.to /\ y.from < y.to
      BY <2>1, <2>6 DEF Sized
    <3>1. /\ p < e /\ c[p + 1].of \in Nat /\ c[p + 1].of = b[p + 1].of /\ q <= e
          /\ c[p + 1].part = 1
          /\ APacket(p + 1, q, y.depth, y.timetag) \in S
          /\ TheItems(q, e, y.depth, y.timetag) \in S
      BY <2>3, <2>6, <3>0 DEF Sized
    <3>2. p + 1 \in Nat /\ q \in Nat /\ x.from <= p + 1 /\ x.from <= q /\ q <= x.to /\ e <= x.to
      <4>1. b[y.from + 1].of \in Nat
        BY <3>1
      <4> DEFINE k == b[y.from + 1].of
      <4>2. y.from + 1 + k <= y.to /\ k \in Nat
        BY <3>1, <4>1
      <4> HIDE DEF k
      <4>3. /\ y.from + 1 \in Nat /\ y.from + 1 + k \in Nat /\ x.from <= y.from + 1
            /\ x.from <= y.from + 1 + k /\ y.from + 1 + k <= x.to /\ y.to <= x.to
        BY SMTT(20), <2>1, <4>2
      <4> QED BY <4>3 DEF k
    <3>3. APacket(p + 1, q, y.depth, y.timetag) \in K /\ TheItems(q, e, y.depth, y.timetag) \in K
      <4> HIDE DEF p, q, e
      <4>1. e \in Nat
        BY <2>1 DEF e
      <4> QED BY <2>1, <2>4, <3>1, <3>2, <4>1
    <3>4. NoneIn(V, p, p + 1)
      <4>1. p \in Nat /\ p + 1 \in Nat /\ x.from <= p /\ p + 1 <= x.to /\ NoneIn(W, p, p + 1)
        BY <2>1, <2>6, <3>0 DEF Sized
      <4> HIDE DEF p
      <4> QED BY <2>1, <4>1, NoneKept
    <3> QED BY <3>1, <3>3, <3>4 DEF Sized
  <2>7. ASSUME BundleIn(b, W, S, y) PROVE BundleIn(c, V, K, y)
    <3>1. y.depth > 0 /\ y.from + 4 < y.to /\ HeadAt(b, W, y.from)
          /\ TheItems(y.from + 4, y.to, y.depth - 1, b[y.from + 3].of) \in S
      BY <2>7 DEF BundleIn
    <3>2. /\ y.from + 4 \in Nat /\ y.depth - 1 \in Nat /\ x.from <= y.from + 4
          /\ y.from + 4 <= x.to
      <4>1. y.depth > 0 /\ y.from + 4 < y.to
        BY <3>1
      <4>2. y.depth - 1 \in Nat
        BY <2>1, <4>1
      <4>3. y.from + 4 \in Nat /\ x.from <= y.from + 4 /\ y.from + 4 <= x.to
        BY <2>1, <4>1
      <4> QED BY <4>2, <4>3
    <3>3. \A i \in (y.from + 1)..(y.from + 4) : c[i] = b[i]
      <4>1. \A i \in (y.from + 1)..(y.from + 4) : i \in (y.from + 1)..y.to
        BY <2>1, <3>1
      <4> QED BY <2>3, <4>1
    <3>4. HeadAt(c, V, y.from) /\ c[y.from + 3].of = b[y.from + 3].of
      <4> DEFINE q == y.from
                 p == x.from
                 e == x.to
      <4>1. /\ p \in Nat /\ q \in Nat /\ e \in Nat /\ p <= q /\ q + 4 <= e
            /\ Same(W, V, p, e) /\ \A i \in (q + 1)..(q + 4) : c[i] = b[i]
            /\ HeadAt(b, W, q)
        BY <2>1, <3>1, <3>2, <3>3
      <4> HIDE DEF p, q, e
      <4>2. HeadAt(c, V, q) /\ c[q + 3].of = b[q + 3].of
        BY <4>1, HeadKept
      <4> QED BY <4>2 DEF q
    <3>5. TheItems(y.from + 4, y.to, y.depth - 1, b[y.from + 3].of) \in K
      BY <2>1, <2>4, <3>1, <3>2
    <3> QED BY <3>1, <3>4, <3>5 DEF BundleIn
  <2>8. ASSUME MessageAt(b, W, y), y.from < y.to PROVE MessageAt(c, V, y)
    <3>1. Same(W, V, y.from, y.to)
      BY <2>1 DEF Same
    <3> QED BY <2>1, <2>3, <2>8, <3>1, MessageKept
  <2> QED BY <2>2, <2>5, <2>6, <2>7, <2>8 DEF WellFormed
<1>6. Closed(c, V, K)
  BY <1>3, <1>5 DEF Closed
<1> QED BY <1>4, <1>6 DEF Sound

(* A message is a packet.                                                  *)
LEMMA MessageSound ==
  ASSUME NEW b, NEW W, NEW p \in Nat, NEW e \in Nat, NEW d \in Nat, NEW t,
         p < e, e <= Len(b), MessageAt(b, W, APacket(p, e, d, t))
  PROVE  Sound(b, W, APacket(p, e, d, t))
<1> DEFINE x == APacket(p, e, d, t)
<1>1. x.from = p /\ x.to = e /\ x.is = "packet" /\ x.depth = d
  BY DEF APacket
<1> HIDE DEF x
<1>2. WellFormed(b, W, {x}, x)
  BY <1>1 DEF WellFormed, x
<1>3. Closed(b, W, {x})
  BY <1>1, <1>2 DEF Closed
<1> QED BY <1>3 DEF Sound, x

(* There need be no items.                                                 *)
LEMMA NoItemsSound ==
  ASSUME NEW b, NEW W, NEW p \in Nat, NEW d \in Nat, NEW t, p <= Len(b)
  PROVE  Sound(b, W, TheItems(p, p, d, t))
<1> DEFINE x == TheItems(p, p, d, t)
<1>1. x.from = p /\ x.to = p /\ x.is = "items" /\ x.depth = d
  BY DEF TheItems
<1> HIDE DEF x
<1>2. WellFormed(b, W, {x}, x)
  BY <1>1 DEF WellFormed
<1>3. Closed(b, W, {x})
  BY <1>1, <1>2 DEF Closed
<1> QED BY <1>3 DEF Sound, x

(* Items behind a head are a bundle.                                       *)
LEMMA BundleSound ==
  ASSUME NEW b, NEW W, NEW p \in Nat, NEW e \in Nat, NEW d \in Nat, NEW t,
         d > 0, p + 4 < e, HeadAt(b, W, p),
         Sound(b, W, TheItems(p + 4, e, d - 1, b[p + 3].of))
  PROVE  Sound(b, W, APacket(p, e, d, t))
<1>1. PICK S : Closed(b, W, S) /\ TheItems(p + 4, e, d - 1, b[p + 3].of) \in S
  BY DEF Sound
<1> DEFINE x == APacket(p, e, d, t)
           K == S \cup {x}
<1>2. x.from = p /\ x.to = e /\ x.is = "packet" /\ x.depth = d
  BY DEF APacket
<1>3. e <= Len(b)
  <2>1. p + 4 \in Nat /\ d - 1 \in Nat
    OBVIOUS
  <2> QED BY <2>1, ItemsFacts
<1> HIDE DEF x
<1>4. WellFormed(b, W, K, x)
  BY <1>1, <1>2, <1>3 DEF WellFormed, BundleIn
<1>5. \A y \in S : WellFormed(b, W, K, y)
  BY <1>1 DEF WellFormed, Closed, Sized, BundleIn
<1>6. Closed(b, W, K)
  BY <1>1, <1>2, <1>4, <1>5 DEF Closed
<1> QED BY <1>6 DEF Sound, x

(* An item behind the others: what ended where it begins ends behind it.   *)
LEMMA OneMoreItem ==
  ASSUME NEW b, NEW W, NEW p \in Nat, NEW e \in Nat, NEW q \in Nat, NEW d \in Nat, NEW t,
         Sound(b, W, TheItems(p, e, d, t)), Sound(b, W, APacket(e + 1, q, d, t)),
         e < q, q <= Len(b), b[e + 1].of = q - e - 1, b[e + 1].part = 1,
         NoneIn(W, e, e + 1)
  PROVE  Sound(b, W, TheItems(p, q, d, t))
<1>1. PICK S : Closed(b, W, S) /\ TheItems(p, e, d, t) \in S
  BY DEF Sound
<1>2. PICK T : Closed(b, W, T) /\ APacket(e + 1, q, d, t) \in T
  BY DEF Sound
<1> DEFINE Longer == {TheItems(y, q, d, t) : y \in {z \in 0..e : TheItems(z, e, d, t) \in S}}
           K == S \cup T \cup Longer \cup {TheItems(q, q, d, t)}
<1>3. ASSUME NEW y \in S \cup T PROVE WellFormed(b, W, K, y)
  <2>1. WellFormed(b, W, S, y) \/ WellFormed(b, W, T, y)
    BY <1>1, <1>2 DEF Closed
  <2>2. S \subseteq K /\ T \subseteq K
    OBVIOUS
  <2> HIDE DEF K
  <2> QED BY <2>1, <2>2 DEF WellFormed, Sized, BundleIn
<1>4. ASSUME NEW y \in 0..e, TheItems(y, e, d, t) \in S
      PROVE  WellFormed(b, W, K, TheItems(y, q, d, t))
  <2> DEFINE x == TheItems(y, q, d, t)
             v == TheItems(y, e, d, t)
  <2>1. /\ x.from = y /\ x.to = q /\ x.is = "items" /\ x.depth = d /\ x.timetag = t
        /\ v.from = y /\ v.to = e /\ v.is = "items" /\ v.depth = d /\ v.timetag = t
    BY DEF TheItems
  <2>2. WellFormed(b, W, S, v)
    BY <1>1, <1>4 DEF Closed
  <2> HIDE DEF x, v
  <2>3. y = e \/ Sized(b, W, S, y, e, d, t)
    BY <2>1, <2>2 DEF WellFormed
  <2>4. ASSUME y = e PROVE Sized(b, W, K, y, q, d, t)
    <3>1. y + 1 + b[y + 1].of = q /\ b[y + 1].of \in Nat /\ y < q
      <4>1. b[y + 1].of = q - e - 1
        BY <2>4
      <4>2. q - e - 1 \in Nat /\ e + 1 + (q - e - 1) = q
        OBVIOUS
      <4> QED BY <2>4, <4>1, <4>2
    <3>2. APacket(y + 1, q, d, t) \in K /\ TheItems(q, q, d, t) \in K
      BY <1>2, <2>4
    <3> QED BY SMTT(20), <2>4, <3>1, <3>2 DEF Sized
  <2>5. ASSUME Sized(b, W, S, y, e, d, t) PROVE Sized(b, W, K, y, q, d, t)
    <3> DEFINE r == y + 1 + b[y + 1].of
    <3>1. /\ y < e /\ b[y + 1].of \in Nat /\ r <= e
          /\ APacket(y + 1, r, d, t) \in S /\ TheItems(r, e, d, t) \in S
          /\ b[y + 1].part = 1 /\ NoneIn(W, y, y + 1)
      BY <2>5 DEF Sized
    <3>2. r \in 0..e
      BY <3>1
    <3>3. TheItems(r, q, d, t) \in K /\ APacket(y + 1, r, d, t) \in K
      BY <3>1, <3>2
    <3>4. y < q /\ r <= q
      BY <3>1, <3>2
    <3> HIDE DEF K
    <3> QED BY <3>1, <3>3, <3>4 DEF Sized
  <2>6. Sized(b, W, K, y, q, d, t)
    BY <2>3, <2>4, <2>5
  <2> HIDE DEF K
  <2>7. WellFormed(b, W, K, x)
    BY <2>1, <2>6 DEF WellFormed
  <2> QED BY <2>7 DEF x
<1>5. WellFormed(b, W, K, TheItems(q, q, d, t))
  <2> HIDE DEF K
  <2> QED BY DEF WellFormed, TheItems
<1>6. \A y \in K : y.from \in Nat /\ y.to \in Nat /\ y.depth \in Nat
  <2>1. \A y \in S \cup T : y.from \in Nat /\ y.to \in Nat /\ y.depth \in Nat
    BY <1>1, <1>2 DEF Closed
  <2>2. \A z \in 0..q : /\ TheItems(z, q, d, t).from \in Nat /\ TheItems(z, q, d, t).to \in Nat
                        /\ TheItems(z, q, d, t).depth \in Nat
    BY DEF TheItems
  <2>3. 0..e \subseteq 0..q /\ q \in 0..q
    OBVIOUS
  <2> QED BY <2>1, <2>2, <2>3
<1>7. \A y \in K : WellFormed(b, W, K, y)
  BY <1>3, <1>4, <1>5
<1>8. Closed(b, W, K)
  BY <1>6, <1>7 DEF Closed
<1>9. TheItems(p, q, d, t) \in K
  <2>1. p <= e
    BY ItemsFacts
  <2>2. p \in 0..e
    BY <2>1
  <2> QED BY <1>1, <2>2
<1> QED BY <1>8, <1>9 DEF Sound
-----------------------------------------------------------------------------
(* Words *)

(* A set of natural numbers that holds 0 and what follows each of its      *)
(* members holds all of them.                                              *)
LEMMA AllOfNat ==
  ASSUME NEW K \in SUBSET Nat, 0 \in K, \A n \in K : n + 1 \in K
  PROVE  \A n \in Nat : n \in K
<1> DEFINE T == Nat \ K
<1> SUFFICES ASSUME T # {} PROVE FALSE
  OBVIOUS
<1>1. PICK x \in T : \A y \in T : ~(<<y, x>> \in OpToRel(<, Nat))
  BY NatLessThanWellFounded, WFMin
<1>2. \A y \in T : ~(y < x)
  BY <1>1 DEF OpToRel
<1>3. x \in Nat /\ x # 0 /\ x \notin K
  OBVIOUS
<1>4. x - 1 \in Nat /\ x - 1 < x /\ (x - 1) + 1 = x
  BY <1>3
<1>5. x - 1 \in K
  BY <1>2, <1>4
<1> QED BY <1>3, <1>4, <1>5

(* f is what FlattenSeq computes for the first n members of ss.            *)
Flat(f, ss, n) == f = [i \in 1..n |-> IF i = 1 THEN ss[i] ELSE f[i - 1] \o ss[i]]

LEMMA FlatExists ==
  ASSUME NEW ss, NEW n \in Nat
  PROVE  \E f : Flat(f, ss, n)
<1> DEFINE K == {k \in Nat : \E f : Flat(f, ss, k)}
<1>1. 0 \in K
  <2>1. Flat([i \in {} |-> 0], ss, 0)
    BY DEF Flat
  <2> QED BY <2>1
<1>2. ASSUME NEW k \in K PROVE k + 1 \in K
  <2>1. PICK f : Flat(f, ss, k)
    OBVIOUS
  <2> DEFINE g == [i \in 1..(k + 1) |->
                     IF i <= k THEN f[i] ELSE IF i = 1 THEN ss[i] ELSE f[i - 1] \o ss[i]]
  <2>2. \A i \in 1..k : f[i] = IF i = 1 THEN ss[i] ELSE f[i - 1] \o ss[i]
    BY <2>1 DEF Flat
  <2>3. \A i \in 1..(k + 1) : g[i] = IF i = 1 THEN ss[i] ELSE g[i - 1] \o ss[i]
    <3> SUFFICES ASSUME NEW i \in 1..(k + 1)
                 PROVE  g[i] = IF i = 1 THEN ss[i] ELSE g[i - 1] \o ss[i]
      OBVIOUS
    <3>1. i # 1 => i - 1 \in 1..(k + 1) /\ i - 1 <= k
      OBVIOUS
    <3>2. i # 1 => g[i - 1] = f[i - 1]
      BY <3>1
    <3>3. i <= k => i \in 1..k
      OBVIOUS
    <3> QED BY <2>2, <3>2, <3>3
  <2>4. g = [i \in 1..(k + 1) |-> IF i = 1 THEN ss[i] ELSE g[i - 1] \o ss[i]]
    <3>1. g = [i \in 1..(k + 1) |-> g[i]]
      OBVIOUS
    <3> HIDE DEF g
    <3> QED BY <2>3, <3>1
  <2>5. Flat(g, ss, k + 1)
    BY <2>4 DEF Flat
  <2> HIDE DEF g
  <2> QED BY <2>5
<1> HIDE DEF K
<1>3. n \in K
  BY <1>1, <1>2, AllOfNat DEF K
<1> QED BY <1>3 DEF K

(* FlattenSeq, from the left to the right                                  *)
LEMMA FlattenIs ==
  ASSUME NEW T, NEW ss \in Seq(Seq(T)), ss # << >>
  PROVE  \E f : Flat(f, ss, Len(ss)) /\ FlattenSeq(ss) = f[Len(ss)]
<1>1. Len(ss) \in Nat /\ Len(ss) # 0
  OBVIOUS
<1> DEFINE f == CHOOSE h : Flat(h, ss, Len(ss))
<1>2. Flat(f, ss, Len(ss))
  BY <1>1, FlatExists
<1>3. FlattenSeq(ss) = f[Len(ss)]
  BY <1>1 DEF FlattenSeq, Flat
<1> QED BY <1>2, <1>3

LEMMA FlattenEmpty == FlattenSeq(<< >>) = << >>
  BY DEF FlattenSeq

LEMMA FlattenType ==
  ASSUME NEW T, NEW ss \in Seq(Seq(T))
  PROVE  FlattenSeq(ss) \in Seq(T)
<1>1. CASE ss = << >>
  <2>1. << >> \in Seq(T)
    OBVIOUS
  <2> QED BY <2>1, <1>1, FlattenEmpty
<1>2. CASE ss # << >>
  <2>1. PICK f : Flat(f, ss, Len(ss)) /\ FlattenSeq(ss) = f[Len(ss)]
    BY <1>2, FlattenIs
  <2> DEFINE K == {k \in Nat : k \in 1..Len(ss) => f[k] \in Seq(T)}
  <2>2. \A i \in 1..Len(ss) : f[i] = IF i = 1 THEN ss[i] ELSE f[i - 1] \o ss[i]
    BY <2>1 DEF Flat
  <2>3. 0 \in K
    OBVIOUS
  <2>4. ASSUME NEW k \in K PROVE k + 1 \in K
    <3> SUFFICES ASSUME k + 1 \in 1..Len(ss) PROVE f[k + 1] \in Seq(T)
      OBVIOUS
    <3>1. ss[k + 1] \in Seq(T) /\ (k + 1) - 1 = k
      OBVIOUS
    <3>2. k + 1 # 1 => k \in 1..Len(ss)
      OBVIOUS
    <3>3. f[k + 1] = IF k + 1 = 1 THEN ss[k + 1] ELSE f[k] \o ss[k + 1]
      BY <2>2, <3>1
    <3> QED BY <3>1, <3>2, <3>3
  <2>5. \A k \in Nat : k \in K
    <3> HIDE DEF K
    <3>1. K \in SUBSET Nat
      BY DEF K
    <3> QED BY <2>3, <2>4, <3>1, AllOfNat
  <2>6. Len(ss) \in 1..Len(ss)
    BY <1>2
  <2> QED BY <2>1, <2>5, <2>6
<1> QED BY <1>1, <1>2

WordsOf(V) == [of : V, part : Nat]
IsWords(s) == \E V : s \in Seq(WordsOf(V))

LEMMA ConcatFacts ==
  ASSUME NEW U, NEW ss \in Seq(U), NEW tt \in Seq(U)
  PROVE  /\ ss \o tt \in Seq(U) /\ Len(ss) \in Nat /\ Len(tt) \in Nat
         /\ Len(ss \o tt) = Len(ss) + Len(tt)
         /\ \A i \in 1..Len(ss) : (ss \o tt)[i] = ss[i]
         /\ \A i \in 1..Len(tt) : (ss \o tt)[Len(ss) + i] = tt[i]
  OBVIOUS

LEMMA WiderSeq ==
  ASSUME NEW U, NEW V, U \subseteq V, NEW s \in Seq(U)
  PROVE  s \in Seq(V)
  OBVIOUS

(* Words(n, value) is n words of value.                                    *)
LEMMA WordsFacts ==
  ASSUME NEW n \in Nat, NEW V, NEW value \in V
  PROVE  /\ Words(n, value) \in Seq(WordsOf(V)) /\ Len(Words(n, value)) = n
         /\ \A k \in 1..n : Words(n, value)[k] = [of |-> value, part |-> k]
         /\ \A k \in 1..n : Words(n, value)[k].of = value
<1>1. \A k \in 1..n : [of |-> value, part |-> k] \in WordsOf(V)
  BY DEF WordsOf
<1> QED BY <1>1 DEF Words

LEMMA PaddedFacts ==
  ASSUME NEW n \in Nat
  PROVE  PaddedWords(n) \in Nat /\ (n > 0 => PaddedWords(n) > 0)
  BY DEF PaddedWords

LEMMA StringFacts ==
  ASSUME NEW V, NEW s \in V, s.bytes \in Nat
  PROVE  /\ String(s) \in Seq(WordsOf(V)) /\ Len(String(s)) > 0
         /\ String(s)[1].of = s
<1> DEFINE n == PaddedWords(s.bytes + 1)
<1>1. n \in Nat /\ n > 0
  BY PaddedFacts
<1> HIDE DEF n
<1>2. /\ Words(n, s) \in Seq(WordsOf(V)) /\ Len(Words(n, s)) = n
      /\ \A k \in 1..n : Words(n, s)[k].of = s
  BY <1>1, WordsFacts
<1>3. 1 \in 1..n
  BY <1>1
<1> QED BY <1>1, <1>2, <1>3 DEF String, n

LEMMA ArgumentType ==
  ASSUME NEW V, NEW arg, arg.type \in {"T", "i", "h", "s", "b"},
         arg.value \in V, arg.value.bytes \in V,
         arg.type \in {"s", "b"} => arg.value.bytes \in Nat
  PROVE  Argument(arg) \in Seq(WordsOf(V))
<1>1. CASE arg.type = "T"
  <2>1. << >> \in Seq(WordsOf(V))
    OBVIOUS
  <2> QED BY <1>1, <2>1 DEF Argument
<1>2. CASE arg.type = "i"
  <2>1. Words(1, arg.value) \in Seq(WordsOf(V))
    BY WordsFacts
  <2> QED BY <1>2, <2>1 DEF Argument
<1>3. CASE arg.type = "h"
  <2>1. Words(2, arg.value) \in Seq(WordsOf(V))
    BY WordsFacts
  <2> QED BY <1>3, <2>1 DEF Argument
<1>4. CASE arg.type = "s"
  <2>1. String(arg.value) \in Seq(WordsOf(V))
    BY <1>4, StringFacts
  <2> QED BY <1>4, <2>1 DEF Argument
<1>5. CASE arg.type = "b"
  <2> DEFINE n == PaddedWords(arg.value.bytes)
  <2>1. n \in Nat
    BY <1>5, PaddedFacts
  <2>2. Words(1, arg.value.bytes) \in Seq(WordsOf(V))
    BY WordsFacts
  <2>3. Words(n, arg.value) \in Seq(WordsOf(V))
    <3> HIDE DEF n
    <3> QED BY <2>1, WordsFacts
  <2>4. Words(1, arg.value.bytes) \o Words(n, arg.value) \in Seq(WordsOf(V))
    BY <2>2, <2>3, ConcatFacts
  <2> QED BY <1>5, <2>4 DEF Argument
<1> QED BY <1>1, <1>2, <1>3, <1>4, <1>5

(* A message is some words, and not what a bundle begins with.             *)
LEMMA MessageFacts ==
  ASSUME NEW m \in Messages
  PROVE  /\ IsWords(MessageWords(m)) /\ Len(MessageWords(m)) > 0
         /\ MessageWords(m)[1].of # Bundle
<1> DEFINE args == m.args
           n == Len(args)
           fmt == [text |-> [k \in DOMAIN args |-> args[k].type], bytes |-> n + 1]
           V == {m.path, fmt} \cup {args[k].value : k \in 1..n}
                  \cup {args[k].value.bytes : k \in 1..n}
           ss == [k \in 1..n |-> Argument(args[k])]
<1>1. /\ m.path # Bundle /\ m.path.bytes \in Nat /\ n \in Nat /\ DOMAIN args = 1..n
      /\ \A k \in 1..n :
           /\ args[k].type \in {"T", "i", "h", "s", "b"}
           /\ args[k].type \in {"s", "b"} => args[k].value.bytes \in Nat
  BY MessagesAssumption
<1>2. ss \in Seq(Seq(WordsOf(V)))
  <2>1. ASSUME NEW k \in 1..n PROVE Argument(args[k]) \in Seq(WordsOf(V))
    <3>1. args[k].value \in V /\ args[k].value.bytes \in V
      OBVIOUS
    <3> HIDE DEF V
    <3> QED BY <1>1, <3>1, ArgumentType
  <2> HIDE DEF V, args, n
  <2> QED BY <1>1, <2>1
<1>3. FlattenSeq(ss) \in Seq(WordsOf(V))
  <2> HIDE DEF V, args, n, ss
  <2> QED BY <1>2, FlattenType
<1>4. /\ String(m.path) \in Seq(WordsOf(V)) /\ Len(String(m.path)) > 0
      /\ String(m.path)[1].of = m.path
  <2>1. m.path \in V
    OBVIOUS
  <2> HIDE DEF V
  <2> QED BY <1>1, <2>1, StringFacts
<1>5. String(fmt) \in Seq(WordsOf(V))
  <2>1. fmt \in V
    OBVIOUS
  <2>2. fmt.bytes \in Nat
    BY <1>1
  <2> HIDE DEF V, fmt
  <2> QED BY <2>1, <2>2, StringFacts
<1>6. MessageWords(m) = (String(m.path) \o String(fmt)) \o FlattenSeq(ss)
  BY <1>1 DEF MessageWords, Head2, Format
<1> DEFINE a == String(m.path)
           b == String(fmt)
           c == FlattenSeq(ss)
<1>7. a \in Seq(WordsOf(V)) /\ b \in Seq(WordsOf(V)) /\ c \in Seq(WordsOf(V))
  BY <1>3, <1>4, <1>5
<1> HIDE DEF a, b, c, V, fmt, ss, n
<1>8. /\ a \o b \in Seq(WordsOf(V)) /\ Len(a \o b) = Len(a) + Len(b)
      /\ Len(a) \in Nat /\ Len(b) \in Nat /\ \A i \in 1..Len(a) : (a \o b)[i] = a[i]
  BY <1>7, ConcatFacts
<1>9. /\ (a \o b) \o c \in Seq(WordsOf(V)) /\ Len((a \o b) \o c) = Len(a \o b) + Len(c)
      /\ Len(c) \in Nat /\ \A i \in 1..Len(a \o b) : ((a \o b) \o c)[i] = (a \o b)[i]
  BY <1>7, <1>8, ConcatFacts
<1>10. Len(a) > 0 /\ a[1].of = m.path
  BY <1>4 DEF a
<1>11. 1 \in 1..Len(a) /\ 1 \in 1..Len(a \o b) /\ Len((a \o b) \o c) > 0
  BY <1>8, <1>9, <1>10
<1>12. ((a \o b) \o c)[1].of = m.path
  BY <1>8, <1>9, <1>10, <1>11
<1>13. MessageWords(m) = (a \o b) \o c
  BY <1>6 DEF a, b, c
<1> QED BY <1>1, <1>9, <1>11, <1>12, <1>13 DEF IsWords

LEMMA Joined ==
  ASSUME NEW s, NEW t, IsWords(s), IsWords(t)
  PROVE  /\ IsWords(s \o t) /\ Len(s) \in Nat /\ Len(t) \in Nat
         /\ Len(s \o t) = Len(s) + Len(t)
         /\ \A i \in 1..Len(s) : (s \o t)[i] = s[i]
         /\ \A i \in 1..Len(t) : (s \o t)[Len(s) + i] = t[i]
<1>1. PICK V : s \in Seq(WordsOf(V))
  BY DEF IsWords
<1>2. PICK U : t \in Seq(WordsOf(U))
  BY DEF IsWords
<1> DEFINE W == WordsOf(V \cup U)
<1>3. WordsOf(V) \subseteq W /\ WordsOf(U) \subseteq W
  BY DEF WordsOf
<1>4. s \in Seq(W) /\ t \in Seq(W)
  <2> HIDE DEF W
  <2>1. s \in Seq(W)
    BY <1>1, <1>3, WiderSeq
  <2>2. t \in Seq(W)
    BY <1>2, <1>3, WiderSeq
  <2> QED BY <2>1, <2>2
<1>5. s \o t \in Seq(W)
  <2> HIDE DEF W
  <2> QED BY <1>4, ConcatFacts
<1>6. IsWords(s \o t)
  BY <1>5 DEF IsWords
<1> HIDE DEF W
<1>7. /\ Len(s) \in Nat /\ Len(t) \in Nat
      /\ Len(s \o t) = Len(s) + Len(t)
      /\ \A i \in 1..Len(s) : (s \o t)[i] = s[i]
      /\ \A i \in 1..Len(t) : (s \o t)[Len(s) + i] = t[i]
  BY <1>4, ConcatFacts
<1> QED BY <1>6, <1>7

LEMMA CutFacts ==
  ASSUME NEW U, NEW s \in Seq(U), NEW m \in Nat, m <= Len(s)
  PROVE  /\ SubSeq(s, 1, m) \in Seq(U) /\ Len(SubSeq(s, 1, m)) = m
         /\ \A i \in 1..m : SubSeq(s, 1, m)[i] = s[i]
  OBVIOUS

LEMMA FrontFacts ==
  ASSUME NEW U, NEW s \in Seq(U), Len(s) > 0
  PROVE  /\ Front(s) \in Seq(U) /\ Len(Front(s)) = Len(s) - 1 /\ Len(s) \in Nat
         /\ \A i \in 1..(Len(s) - 1) : Front(s)[i] = s[i]
         /\ Last(s) = s[Len(s)] /\ Last(s) \in U
<1>1. Len(s) \in Nat /\ Len(s) - 1 \in Nat /\ Len(s) - 1 <= Len(s)
  OBVIOUS
<1>2. /\ SubSeq(s, 1, Len(s) - 1) \in Seq(U) /\ Len(SubSeq(s, 1, Len(s) - 1)) = Len(s) - 1
      /\ \A i \in 1..(Len(s) - 1) : SubSeq(s, 1, Len(s) - 1)[i] = s[i]
  BY <1>1, CutFacts
<1>3. s[Len(s)] \in U
  BY <1>1
<1> QED BY <1>1, <1>2, <1>3 DEF Front, Last

LEMMA AppendFacts ==
  ASSUME NEW U, NEW s \in Seq(U), NEW u \in U
  PROVE  /\ Append(s, u) \in Seq(U) /\ Len(Append(s, u)) = Len(s) + 1 /\ Len(s) \in Nat
         /\ Append(s, u)[Len(s) + 1] = u
         /\ \A i \in 1..Len(s) : Append(s, u)[i] = s[i]
  OBVIOUS

LEMMA WordsCut ==
  ASSUME NEW s, IsWords(s), NEW m \in Nat, m <= Len(s)
  PROVE  /\ IsWords(SubSeq(s, 1, m)) /\ Len(SubSeq(s, 1, m)) = m
         /\ \A i \in 1..m : SubSeq(s, 1, m)[i] = s[i]
<1>1. PICK V : s \in Seq(WordsOf(V))
  BY DEF IsWords
<1> DEFINE W == WordsOf(V)
<1> HIDE DEF W
<1>2. s \in Seq(W)
  BY <1>1 DEF W
<1>3. /\ SubSeq(s, 1, m) \in Seq(W) /\ Len(SubSeq(s, 1, m)) = m
      /\ \A i \in 1..m : SubSeq(s, 1, m)[i] = s[i]
  BY <1>2, CutFacts
<1> QED BY <1>3 DEF IsWords, W

(* A size is put into its word.                                            *)
Filled(s, i, size) == [s EXCEPT ![i].of = size]

LEMMA WordsFilled ==
  ASSUME NEW s, IsWords(s), NEW i \in 1..Len(s), NEW size
  PROVE  /\ IsWords(Filled(s, i, size)) /\ Len(Filled(s, i, size)) = Len(s)
         /\ Filled(s, i, size)[i].of = size /\ Filled(s, i, size)[i].part = s[i].part
         /\ \A j \in 1..Len(s) : j # i => Filled(s, i, size)[j] = s[j]
<1>1. PICK V : s \in Seq(WordsOf(V))
  BY DEF IsWords
<1> DEFINE W == WordsOf(V \cup {size})
           u == [s[i] EXCEPT !.of = size]
           t == Filled(s, i, size)
<1>0. t = [s EXCEPT ![i] = u]
  BY DEF Filled
<1> HIDE DEF t
<1>2. s[i] \in WordsOf(V)
  BY <1>1
<1>3. u \in W /\ u.of = size /\ u.part = s[i].part
  BY <1>2 DEF WordsOf
<1>4. WordsOf(V) \subseteq W
  BY DEF WordsOf
<1>5. s \in Seq(W)
  <2> HIDE DEF W
  <2> QED BY <1>1, <1>4, WiderSeq
<1>6. /\ t \in Seq(W) /\ Len(t) = Len(s)
      /\ \A j \in 1..Len(s) : t[j] = IF j = i THEN u ELSE s[j]
  <2> HIDE DEF W, u
  <2> QED BY <1>0, <1>3, <1>5
<1>7. IsWords(t)
  BY <1>6 DEF IsWords
<1> QED BY <1>3, <1>6, <1>7 DEF t

(* The head of a bundle                                                    *)
LEMMA HeadFacts ==
  ASSUME NEW timetag
  PROVE  LET words == Words(2, Bundle) \o Words(2, timetag)
         IN  /\ IsWords(words) /\ Len(words) = 4
             /\ words[1].of = Bundle /\ words[3].of = timetag
<1> DEFINE a == Words(2, Bundle)
           b == Words(2, timetag)
<1>1. a \in Seq(WordsOf({Bundle})) /\ Len(a) = 2 /\ \A k \in 1..2 : a[k].of = Bundle
  BY WordsFacts
<1>2. b \in Seq(WordsOf({timetag})) /\ Len(b) = 2 /\ \A k \in 1..2 : b[k].of = timetag
  BY WordsFacts
<1> HIDE DEF a, b
<1>3. IsWords(a) /\ IsWords(b)
  BY <1>1, <1>2 DEF IsWords
<1>4. /\ IsWords(a \o b) /\ Len(a \o b) = Len(a) + Len(b)
      /\ \A i \in 1..Len(a) : (a \o b)[i] = a[i]
      /\ \A i \in 1..Len(b) : (a \o b)[Len(a) + i] = b[i]
  BY <1>3, Joined
<1>5. Len(a \o b) = 4
  BY <1>1, <1>2, <1>4
<1>6. (a \o b)[1] = a[1] /\ (a \o b)[3] = b[1]
  <2>1. 1 \in 1..Len(a) /\ 1 \in 1..Len(b) /\ Len(a) + 1 = 3
    BY <1>1, <1>2
  <2> QED BY <1>4, <2>1
<1>7. a[1].of = Bundle /\ b[1].of = timetag
  <2>1. 1 \in 1..2
    OBVIOUS
  <2> QED BY <1>1, <1>2, <2>1
<1> QED BY <1>4, <1>5, <1>6, <1>7 DEF a, b
-----------------------------------------------------------------------------
(* The writer *)

(* Where the packet in item k, or the outermost one, begins; where frame k *)
(* ends: at the frame inside it                                            *)
Starts(refs, k) == IF k = 0 THEN 0 ELSE refs[k] + 1
EndOf(w, k) == IF k < Len(w.refs) THEN w.refs[k + 1] ELSE Len(w.buf)

(* The timetag of the j-th bundle around                                   *)
TimetagOf(w, j) == IF j = 0 THEN Immediate ELSE w.buf[w.refs[2 * j - 1] + 3].of

(* The j-th bundle around begins where its item does, and holds items.     *)
BundleAt(w, W, j) ==
  /\ w.refs[2 * j - 1] = Starts(w.refs, 2 * j - 2)
  /\ HeadAt(w.buf, W, w.refs[2 * j - 1])
  /\ Sound(w.buf, W,
       TheItems(w.refs[2 * j - 1] + 4, EndOf(w, 2 * j - 1), MaxDepth - j, TimetagOf(w, j)))

(* Nothing begins in the size of the j-th item around.                     *)
SizeAt(w, W, j) ==
  w.buf[w.refs[2 * j] + 1].part = 1 /\ NoneIn(W, w.refs[2 * j], w.refs[2 * j] + 1)

(* What is in the innermost item, or the whole packet: nothing or a packet *)
ItemAt(w, W, j) ==
  \/ Len(w.buf) = Starts(w.refs, 2 * j)
  \/ Sound(w.buf, W,
       APacket(Starts(w.refs, 2 * j), Len(w.buf), MaxDepth - j, TimetagOf(w, j)))

(* Frames begin one behind the other, before the end of what is written.   *)
RefsInOrder(w) ==
  /\ \A i, j \in 1..Len(w.refs) : i < j => w.refs[i] < w.refs[j]
  /\ \A k \in 1..Len(w.refs) : w.refs[k] < Len(w.buf)

(* Messages begin before the end of what is written.                       *)
Within(w, W) == \A m \in W : m.at \in Nat /\ m.at < Len(w.buf)

Framed(w, W) ==
  /\ IsWords(w.buf)
  /\ w.refs \in Seq(Nat) /\ Len(w.refs) <= 2 * MaxDepth
  /\ RefsInOrder(w)
  /\ Within(w, W)
  /\ \A j \in 1..MaxDepth : 2 * j - 1 <= Len(w.refs) => BundleAt(w, W, j)
  /\ \A j \in 1..MaxDepth : 2 * j <= Len(w.refs) => SizeAt(w, W, j)
  /\ \A j \in 0..MaxDepth : 2 * j = Len(w.refs) => ItemAt(w, W, j)

(* Frames begin at numbers.                                                *)
LEMMA Places ==
  ASSUME NEW w, NEW W, Framed(w, W)
  PROVE  /\ Len(w.refs) \in Nat /\ Len(w.buf) \in Nat /\ MaxDepth \in Nat
         /\ \A k \in 1..Len(w.refs) : w.refs[k] \in Nat
         /\ w.refs = << >> <=> Len(w.refs) = 0
<1>1. w.refs \in Seq(Nat)
  BY DEF Framed
<1>2. PICK V : w.buf \in Seq(WordsOf(V))
  BY DEF Framed, IsWords
<1>3. Len(w.buf) \in Nat
  BY <1>2
<1> QED BY <1>1, <1>3, RoomAssumption

LEMMA OddOrEven ==
  ASSUME NEW n \in Nat
  PROVE  /\ n % 2 = 1 => \E j \in Nat : n = 2 * j + 1
         /\ n % 2 # 1 => \E j \in Nat : n = 2 * j
<1> DEFINE h == n \div 2
           r == n % 2
<1>1. h \in Nat
  OBVIOUS
<1>2. r \in {0, 1}
  OBVIOUS
<1>3. r = n - 2 * h
  OBVIOUS
<1> HIDE DEF h, r
<1>4. n = 2 * h + r
  BY <1>1, <1>2, <1>3
<1> QED BY <1>1, <1>2, <1>4 DEF r

LEMMA InBundleFacts ==
  ASSUME NEW w, NEW W, Framed(w, W), InBundle(w)
  PROVE  \E j \in 1..MaxDepth : Len(w.refs) = 2 * j - 1
<1>1. Len(w.refs) \in Nat /\ MaxDepth \in Nat /\ Len(w.refs) <= 2 * MaxDepth
  BY Places DEF Framed
<1>2. PICK j \in Nat : Len(w.refs) = 2 * j + 1
  BY <1>1, OddOrEven DEF InBundle
<1>3. j + 1 \in 1..MaxDepth /\ Len(w.refs) = 2 * (j + 1) - 1
  BY <1>1, <1>2
<1> QED BY <1>3

LEMMA InItemFacts ==
  ASSUME NEW w, NEW W, Framed(w, W), InItem(w)
  PROVE  \E j \in 1..MaxDepth : Len(w.refs) = 2 * j
<1>1. Len(w.refs) \in Nat /\ MaxDepth \in Nat /\ Len(w.refs) <= 2 * MaxDepth
  BY Places DEF Framed
<1>2. PICK j \in Nat : Len(w.refs) = 2 * j
  BY <1>1, OddOrEven DEF InItem, InBundle
<1>3. j \in 1..MaxDepth
  BY <1>1, <1>2 DEF InItem
<1> QED BY <1>2, <1>3

(* Where something may begin there is nothing since the item did.          *)
LEMMA FreshFacts ==
  ASSUME NEW w, NEW W, Framed(w, W), Fresh(w)
  PROVE  \E j \in 0..MaxDepth :
           /\ Len(w.refs) = 2 * j /\ Len(w.buf) = Starts(w.refs, 2 * j)
           /\ TimetagAround(w) = TimetagOf(w, j)
<1>1. Len(w.refs) \in Nat /\ MaxDepth \in Nat /\ (w.refs = << >> <=> Len(w.refs) = 0)
  BY Places
<1>2. CASE w.refs = << >>
  <2>1. 0 \in 0..MaxDepth /\ Len(w.refs) = 2 * 0 /\ Len(w.buf) = Starts(w.refs, 2 * 0)
    BY <1>1, <1>2 DEF Fresh, Starts
  <2>2. TimetagAround(w) = TimetagOf(w, 0)
    BY <1>2 DEF TimetagAround, TimetagOf
  <2> QED BY <2>1, <2>2
<1>3. CASE w.refs # << >>
  <2>1. InItem(w) /\ Len(w.buf) = w.refs[Len(w.refs)] + 1
    BY <1>3 DEF Fresh, Last
  <2>2. PICK j \in 1..MaxDepth : Len(w.refs) = 2 * j
    BY <2>1, InItemFacts
  <2>3. Len(w.buf) = Starts(w.refs, 2 * j)
    BY <1>1, <2>1, <2>2 DEF Starts
  <2>4. TimetagAround(w) = TimetagOf(w, j)
    BY <1>1, <1>3, <2>2 DEF TimetagAround, TimetagOf
  <2> QED BY <1>1, <2>2, <2>3, <2>4
<1> QED BY <1>2, <1>3

(* A bundle holds a head, and then items.                                  *)
LEMMA BundleFacts ==
  ASSUME NEW w, NEW W, NEW j \in 1..MaxDepth, Framed(w, W), 2 * j - 1 <= Len(w.refs)
  PROVE  /\ w.refs[2 * j - 1] \in Nat /\ MaxDepth - j \in Nat
         /\ EndOf(w, 2 * j - 1) \in Nat
         /\ w.refs[2 * j - 1] + 4 <= EndOf(w, 2 * j - 1)
         /\ EndOf(w, 2 * j - 1) <= Len(w.buf)
         /\ BundleAt(w, W, j)
<1>1. /\ Len(w.refs) \in Nat /\ Len(w.buf) \in Nat /\ MaxDepth \in Nat
      /\ \A k \in 1..Len(w.refs) : w.refs[k] \in Nat
  BY Places
<1>2. 2 * j - 1 \in 1..Len(w.refs) /\ MaxDepth - j \in Nat
      /\ (2 * j - 1 < Len(w.refs) => 2 * j - 1 + 1 \in 1..Len(w.refs))
  BY <1>1
<1>3. w.refs[2 * j - 1] \in Nat
  BY <1>1, <1>2
<1>4. EndOf(w, 2 * j - 1) \in Nat
  BY <1>1, <1>2 DEF EndOf
<1>5. BundleAt(w, W, j)
  BY DEF Framed
<1> DEFINE p == w.refs[2 * j - 1] + 4
           e == EndOf(w, 2 * j - 1)
           d == MaxDepth - j
           t == TimetagOf(w, j)
<1>6. p \in Nat /\ e \in Nat /\ d \in Nat /\ Sound(w.buf, W, TheItems(p, e, d, t))
  BY <1>2, <1>3, <1>4, <1>5 DEF BundleAt
<1>7. p <= e /\ e <= Len(w.buf)
  <2> HIDE DEF p, e, d, t
  <2> QED BY <1>6, ItemsFacts
<1> QED BY <1>2, <1>3, <1>4, <1>5, <1>7

(* A bundle stays what it is as long as nothing changes down to its end.   *)
LEMMA BundleKept ==
  ASSUME NEW w, NEW v, NEW W, NEW V, NEW j \in 1..MaxDepth,
         Framed(w, W), 2 * j - 1 <= Len(w.refs), v.refs[2 * j - 1] = w.refs[2 * j - 1],
         j # 1 => v.refs[2 * j - 2] = w.refs[2 * j - 2],
         NEW e, e = EndOf(w, 2 * j - 1), e = EndOf(v, 2 * j - 1), e <= Len(v.buf),
         Same(W, V, 0, e),
         \A i \in 1..e : v.buf[i] = w.buf[i]
  PROVE  BundleAt(v, V, j) /\ TimetagOf(v, j) = TimetagOf(w, j)
<1>1. BundleAt(w, W, j)
  BY DEF Framed
<1> DEFINE q == w.refs[2 * j - 1]
           d == MaxDepth - j
           t == TimetagOf(w, j)
           x == TheItems(q + 4, e, d, t)
<1>2. q \in Nat /\ e \in Nat /\ q + 4 <= e
  BY BundleFacts
<1>3. Starts(v.refs, 2 * j - 2) = Starts(w.refs, 2 * j - 2)
  <2>1. 2 * j - 2 = 0 <=> j = 1
    OBVIOUS
  <2> QED BY <2>1 DEF Starts
<1>4. HeadAt(v.buf, V, q) /\ v.buf[q + 3].of = w.buf[q + 3].of
  <2>1. HeadAt(w.buf, W, q)
    BY <1>1 DEF BundleAt
  <2> HIDE DEF q
  <2>2. \A i \in (q + 1)..(q + 4) : v.buf[i] = w.buf[i]
    <3>1. \A i \in (q + 1)..(q + 4) : i \in 1..e
      BY <1>2
    <3> QED BY <3>1
  <2>3. 0 \in Nat /\ 0 <= q
    BY <1>2
  <2> DEFINE b == w.buf
             c == v.buf
  <2>4. /\ q \in Nat /\ 0 \in Nat /\ e \in Nat /\ 0 <= q /\ q + 4 <= e /\ Same(W, V, 0, e)
        /\ \A i \in (q + 1)..(q + 4) : c[i] = b[i]
        /\ HeadAt(b, W, q)
    BY <1>2, <2>1, <2>2, <2>3
  <2> HIDE DEF b, c
  <2>5. HeadAt(c, V, q) /\ c[q + 3].of = b[q + 3].of
    BY <2>4, HeadKept
  <2> QED BY <2>5 DEF b, c
<1>5. TimetagOf(v, j) = t
  <2>1. j # 0
    OBVIOUS
  <2> QED BY <1>4, <2>1 DEF TimetagOf
<1>6. x.from = q + 4 /\ x.to = e
  BY DEF TheItems
<1>7. Sound(w.buf, W, x)
  BY <1>1 DEF BundleAt
<1> HIDE DEF x, q
<1>8. \A i \in (x.from + 1)..x.to : v.buf[i] = w.buf[i]
  <2>1. \A i \in (x.from + 1)..x.to : i \in 1..e
    BY <1>2, <1>6
  <2> QED BY <2>1
<1>9. Same(W, V, x.from, x.to)
  BY <1>2, <1>6 DEF Same
<1>10. Sound(v.buf, V, x)
  BY <1>6, <1>7, <1>8, <1>9, SpanKept
<1> QED BY <1>1, <1>3, <1>4, <1>5, <1>10 DEF BundleAt, x, q

(* So does the size of an item, until it is filled in.                     *)
LEMMA SizeKept ==
  ASSUME NEW w, NEW v, NEW W, NEW V, NEW j \in 1..MaxDepth,
         Framed(w, W), 2 * j <= Len(w.refs), v.refs[2 * j] = w.refs[2 * j],
         Same(W, V, 0, w.refs[2 * j] + 1),
         v.buf[w.refs[2 * j] + 1] = w.buf[w.refs[2 * j] + 1]
  PROVE  SizeAt(v, V, j)
<1> DEFINE q == w.refs[2 * j]
<1>1. q \in Nat
  <2>1. 2 * j \in 1..Len(w.refs)
    BY Places
  <2> QED BY <2>1, Places
<1>2. SizeAt(w, W, j)
  BY DEF Framed
<1>3. w.buf[q + 1].part = 1 /\ NoneIn(W, q, q + 1)
  BY <1>2 DEF SizeAt
<1>4. NoneIn(V, q, q + 1)
  <2>1. Same(W, V, 0, q + 1)
    OBVIOUS
  <2> HIDE DEF q
  <2>2. 0 \in Nat /\ q + 1 \in Nat /\ 0 <= q /\ q + 1 <= q + 1
    BY <1>1
  <2> QED BY <1>1, <1>3, <2>1, <2>2, NoneKept
<1> QED BY <1>3, <1>4 DEF SizeAt

(* What a message adds is behind everything else.                          *)
LEMMA SameBefore ==
  ASSUME NEW W, NEW n \in Nat, NEW m, \A l \in W : l.at \in Nat, m.at = n,
         NEW e \in Nat, e <= n
  PROVE  Same(W, W \cup {m}, 0, e)
  BY DEF Same

(* m is entered for a message of these words.                              *)
Enters(w, m, words) ==
  /\ m.message \in Messages /\ words = MessageWords(m.message)
  /\ m.at = Len(w.buf) /\ m.timetag = TimetagAround(w)

(* A message is added where nothing is yet: the item, or the packet, holds *)
(* it.                                                                     *)
LEMMA FramedMessage ==
  ASSUME NEW w, NEW v, NEW W, NEW m, NEW words, Framed(w, W), Fresh(w),
         Enters(w, m, words), v.buf = w.buf \o words, v.refs = w.refs
  PROVE  Framed(v, W \cup {m})
<1> DEFINE V == W \cup {m}
<1>1. /\ Len(w.refs) \in Nat /\ Len(w.buf) \in Nat /\ MaxDepth \in Nat
      /\ \A k \in 1..Len(w.refs) : w.refs[k] \in Nat
  BY Places
<1>0. IsWords(words) /\ Len(words) > 0
  BY MessageFacts DEF Enters
<1>2. /\ IsWords(v.buf) /\ Len(v.buf) = Len(w.buf) + Len(words) /\ Len(words) \in Nat
      /\ \A i \in 1..Len(w.buf) : v.buf[i] = w.buf[i]
      /\ \A i \in 1..Len(words) : v.buf[Len(w.buf) + i] = words[i]
  BY <1>0, Joined DEF Framed
<1>l. Len(v.buf) \in Nat /\ Len(w.buf) < Len(v.buf)
  BY <1>0, <1>1, <1>2
<1>3. PICK j \in 0..MaxDepth : /\ Len(w.refs) = 2 * j /\ Len(w.buf) = Starts(w.refs, 2 * j)
                               /\ TimetagAround(w) = TimetagOf(w, j)
  BY FreshFacts
<1>4. RefsInOrder(v)
  <2>1. \A k \in 1..Len(w.refs) : w.refs[k] < Len(v.buf)
    <3>1. \A k \in 1..Len(w.refs) : w.refs[k] < Len(w.buf)
      BY DEF Framed, RefsInOrder
    <3> QED BY <1>1, <1>l, <3>1
  <2> QED BY <2>1 DEF Framed, RefsInOrder
<1>w. \A l \in W : l.at \in Nat /\ l.at < Len(w.buf)
  BY DEF Framed, Within
<1>5. ASSUME NEW i \in 1..MaxDepth, 2 * i - 1 <= Len(v.refs)
      PROVE BundleAt(v, V, i) /\ TimetagOf(v, i) = TimetagOf(w, i)
  <2>1. 2 * i - 1 < Len(w.refs) /\ 2 * i - 1 + 1 \in 1..Len(w.refs)
    BY <1>1, <1>3, <1>5
  <2> DEFINE e == w.refs[2 * i - 1 + 1]
  <2>2. e = EndOf(w, 2 * i - 1) /\ e = EndOf(v, 2 * i - 1)
    BY <2>1 DEF EndOf
  <2>3. e < Len(w.buf) /\ e \in Nat
    BY <1>1, <2>1 DEF Framed, RefsInOrder
  <2> HIDE DEF e
  <2>4. e <= Len(v.buf) /\ \A k \in 1..e : v.buf[k] = w.buf[k]
    BY <1>1, <1>2, <1>l, <2>3
  <2>5. Same(W, V, 0, e)
    <3>1. e <= Len(w.buf) /\ \A l \in W : l.at \in Nat
      BY <1>1, <1>w, <2>3
    <3>2. m.at = Len(w.buf)
      BY DEF Enters
    <3> QED BY <1>1, <2>3, <3>1, <3>2, SameBefore
  <2> HIDE DEF V
  <2> QED BY <1>5, <2>2, <2>4, <2>5, BundleKept
<1>6. ASSUME NEW i \in 1..MaxDepth, 2 * i <= Len(v.refs) PROVE SizeAt(v, V, i)
  <2>1. 2 * i \in 1..Len(w.refs)
    BY <1>1, <1>6
  <2> DEFINE q == w.refs[2 * i]
  <2>2. q \in Nat /\ q < Len(w.buf)
    BY <1>1, <2>1 DEF Framed, RefsInOrder
  <2>3. q + 1 \in 1..Len(w.buf) /\ q + 1 \in Nat /\ q + 1 <= Len(w.buf)
    <3> HIDE DEF q
    <3> QED BY <1>1, <2>2
  <2>4. Same(W, V, 0, q + 1) /\ v.buf[q + 1] = w.buf[q + 1]
    <3> HIDE DEF q
    <3>1. m.at = Len(w.buf) /\ \A l \in W : l.at \in Nat
      BY <1>w DEF Enters
    <3>2. Same(W, V, 0, q + 1)
      BY <1>1, <2>3, <3>1, SameBefore
    <3> QED BY <1>2, <2>3, <3>2
  <2> HIDE DEF V
  <2> QED BY <1>6, <2>4, SizeKept
<1>7. ASSUME NEW i \in 0..MaxDepth, 2 * i = Len(v.refs) PROVE ItemAt(v, V, i)
  <2>1. i = j
    BY <1>1, <1>3, <1>7
  <2>2. Len(w.buf) = Starts(v.refs, 2 * i)
    BY <1>3, <2>1
  <2> DEFINE p == Len(w.buf)
             e == Len(v.buf)
             d == MaxDepth - i
             t == TimetagOf(v, i)
             x == APacket(p, e, d, t)
  <2>3. p \in Nat /\ e \in Nat /\ d \in Nat /\ p < e
    BY <1>1, <1>l
  <2>4. t = TimetagAround(w)
    <3>1. CASE i = 0
      BY <1>3, <2>1, <3>1 DEF TimetagOf
    <3>2. CASE i # 0
      <4>1. i \in 1..MaxDepth /\ 2 * i - 1 <= Len(v.refs)
        BY <1>1, <1>7, <3>2
      <4> QED BY <1>3, <1>5, <2>1, <4>1
    <3> QED BY <3>1, <3>2
  <2>5. x.from = p /\ x.to = e /\ x.timetag = t
    BY DEF APacket
  <2>6. MessageAt(v.buf, V, x)
    <3>1. NoneIn(V, p + 1, e)
      <4> SUFFICES ASSUME NEW l \in V, p + 1 <= l.at PROVE FALSE
        BY DEF NoneIn
      <4>1. l \in W \/ l = m
        OBVIOUS
      <4>2. m.at = Len(w.buf)
        BY DEF Enters
      <4>3. CASE l \in W
        <5>1. l.at \in Nat /\ l.at < Len(w.buf)
          BY <1>w, <4>3
        <5> QED BY <1>1, <5>1
      <4>4. CASE l = m
        BY <1>1, <4>2, <4>4
      <4> QED BY <4>1, <4>3, <4>4
    <3>2. m \in V
      OBVIOUS
    <3> HIDE DEF x, p, e, t, V, d
    <3>3. m.at = p /\ e = p + Len(words) /\ \A i_1 \in 1..Len(words) : v.buf[p + i_1] = words[i_1]
      BY <1>2 DEF p, e, Enters
    <3> QED BY <2>4, <2>5, <3>1, <3>2, <3>3 DEF MessageAt, Enters
  <2>7. Sound(v.buf, V, x)
    <3>1. e <= Len(v.buf)
      BY <2>3
    <3> HIDE DEF p, e, d, t, V
    <3> QED BY <2>3, <2>6, <3>1, MessageSound
  <2> QED BY <2>2, <2>7 DEF ItemAt
<1>8. Within(v, V)
  <2> SUFFICES ASSUME NEW l \in V PROVE l.at \in Nat /\ l.at < Len(v.buf)
    BY DEF Within
  <2>1. CASE l \in W
    <3>1. l.at \in Nat /\ l.at < Len(w.buf)
      BY <1>w, <2>1
    <3> QED BY <1>1, <1>l, <3>1
  <2>2. CASE l = m
    <3>1. l.at = Len(w.buf)
      BY <2>2 DEF Enters
    <3> QED BY <1>1, <1>l, <3>1
  <2> QED BY <2>1, <2>2
<1> HIDE DEF V
<1>9. Framed(v, V)
  BY <1>2, <1>4, <1>5, <1>6, <1>7, <1>8 DEF Framed
<1> QED BY <1>9 DEF V

(* A new frame begins behind the others.                                   *)
LEMMA RefsGrow ==
  ASSUME NEW w, NEW v, NEW W, Framed(w, W), Len(w.buf) < Len(v.buf), Len(v.buf) \in Nat,
         v.refs \in Seq(Nat), Len(v.refs) = Len(w.refs) + 1,
         v.refs[Len(w.refs) + 1] = Len(w.buf),
         \A k \in 1..Len(w.refs) : v.refs[k] = w.refs[k]
  PROVE  RefsInOrder(v)
<1>1. /\ Len(w.refs) \in Nat /\ Len(w.buf) \in Nat
      /\ \A k \in 1..Len(w.refs) : w.refs[k] \in Nat
  BY Places
<1>2. /\ \A k, l \in 1..Len(w.refs) : k < l => w.refs[k] < w.refs[l]
      /\ \A k \in 1..Len(w.refs) : w.refs[k] < Len(w.buf)
  BY DEF Framed, RefsInOrder
<1>3. ASSUME NEW k \in 1..Len(v.refs), NEW l \in 1..Len(v.refs), k < l
      PROVE  v.refs[k] < v.refs[l]
  <2>1. k \in 1..Len(w.refs) /\ (l \in 1..Len(w.refs) \/ l = Len(w.refs) + 1)
    BY <1>1, <1>3
  <2> QED BY <1>2, <1>3, <2>1
<1>4. ASSUME NEW k \in 1..Len(v.refs) PROVE v.refs[k] < Len(v.buf)
  <2>1. k \in 1..Len(w.refs) \/ k = Len(w.refs) + 1
    BY <1>1
  <2>2. v.refs[k] \in Nat /\ v.refs[k] <= Len(w.buf)
    BY SMTT(20), <1>1, <1>2, <2>1
  <2> QED BY <1>1, <2>2
<1> QED BY <1>3, <1>4 DEF RefsInOrder

(* What was open stays so when a frame is opened inside it.                *)
LEMMA OpenKept ==
  ASSUME NEW w, NEW v, NEW W, Framed(w, W), Len(w.buf) < Len(v.buf), Len(v.buf) \in Nat,
         Len(v.refs) = Len(w.refs) + 1, v.refs[Len(w.refs) + 1] = Len(w.buf),
         \A k \in 1..Len(w.refs) : v.refs[k] = w.refs[k],
         \A k \in 1..Len(w.buf) : v.buf[k] = w.buf[k],
         NEW i \in 1..MaxDepth
  PROVE  /\ 2 * i - 1 <= Len(w.refs) => BundleAt(v, W, i) /\ TimetagOf(v, i) = TimetagOf(w, i)
         /\ 2 * i <= Len(w.refs) => SizeAt(v, W, i)
<1>1. /\ Len(w.refs) \in Nat /\ Len(w.buf) \in Nat /\ MaxDepth \in Nat
      /\ \A k \in 1..Len(w.refs) : w.refs[k] \in Nat
  BY Places
<1>2. \A l \in W : l.at \in Nat
  BY DEF Framed, Within
<1>3. ASSUME 2 * i - 1 <= Len(w.refs)
      PROVE BundleAt(v, W, i) /\ TimetagOf(v, i) = TimetagOf(w, i)
  <2>1. 2 * i - 1 \in 1..Len(w.refs) /\ 2 * i - 1 < Len(v.refs)
    BY <1>1, <1>3
  <2> DEFINE e == EndOf(w, 2 * i - 1)
  <2>6. e = EndOf(w, 2 * i - 1)
    OBVIOUS
  <2> HIDE DEF e
  <2>2. e = EndOf(v, 2 * i - 1) /\ e \in Nat /\ e <= Len(w.buf)
    <3>1. CASE 2 * i - 1 < Len(w.refs)
      <4>1. 2 * i - 1 + 1 \in 1..Len(w.refs)
        BY <1>1, <3>1
      <4>2. e = w.refs[2 * i - 1 + 1] /\ EndOf(v, 2 * i - 1) = v.refs[2 * i - 1 + 1]
        BY <2>1, <2>6, <3>1 DEF EndOf
      <4>3. w.refs[2 * i - 1 + 1] < Len(w.buf)
        BY <4>1 DEF Framed, RefsInOrder
      <4> QED BY <1>1, <4>1, <4>2, <4>3
    <3>2. CASE 2 * i - 1 = Len(w.refs)
      BY SMTT(20), <1>1, <2>1, <2>6, <3>2 DEF EndOf
    <3>3. 2 * i - 1 < Len(w.refs) \/ 2 * i - 1 = Len(w.refs)
      <4>1. \A a, b \in Nat : a <= b => a < b \/ a = b
        OBVIOUS
      <4>2. 2 * i - 1 \in Nat
        BY <2>1
      <4> QED BY <1>1, <1>3, <4>1, <4>2
    <3> QED BY <3>1, <3>2, <3>3
  <2>3. e <= Len(v.buf) /\ \A k \in 1..e : v.buf[k] = w.buf[k]
    BY <1>1, <2>2
  <2>4. v.refs[2 * i - 1] = w.refs[2 * i - 1]
    BY <2>1
  <2>5. i # 1 => v.refs[2 * i - 2] = w.refs[2 * i - 2]
    <3>1. i # 1 => 2 * i - 2 \in 1..Len(w.refs)
      BY <1>1, <2>1
    <3> QED BY <3>1
  <2>7. Same(W, W, 0, e)
    BY <1>2, SameFacts
  <2> QED BY <1>3, <2>2, <2>3, <2>4, <2>5, <2>6, <2>7, BundleKept
<1>4. ASSUME 2 * i <= Len(w.refs) PROVE SizeAt(v, W, i)
  <2>1. 2 * i \in 1..Len(w.refs)
    BY <1>1, <1>4
  <2> DEFINE q == w.refs[2 * i]
  <2>2. q \in Nat /\ q < Len(w.buf)
    BY <1>1, <2>1 DEF Framed, RefsInOrder
  <2>3. q + 1 \in 1..Len(w.buf)
    <3> HIDE DEF q
    <3> QED BY <1>1, <2>2
  <2>4. v.buf[q + 1] = w.buf[q + 1] /\ v.refs[2 * i] = q
    BY <2>1, <2>3
  <2>5. Same(W, W, 0, q + 1)
    BY <1>2, SameFacts
  <2> QED BY <1>4, <2>4, <2>5, SizeKept
<1> QED BY <1>3, <1>4

IsHead(words, timetag) == words = Words(2, Bundle) \o Words(2, timetag)
IsSize(words) == words = Words(1, 0)

(* A bundle begins where nothing is yet; it has a head and no items.       *)
LEMMA FramedPushBundle ==
  ASSUME NEW w, NEW v, NEW W, NEW timetag, NEW words,
         Framed(w, W), Fresh(w), Len(w.refs) < 2 * MaxDepth,
         IsHead(words, timetag),
         v.buf = w.buf \o words, v.refs = Append(w.refs, Len(w.buf))
  PROVE  Framed(v, W)
<1>0. IsWords(words) /\ Len(words) = 4 /\ words[3].of = timetag
  BY HeadFacts DEF IsHead
<1>1. /\ Len(w.refs) \in Nat /\ Len(w.buf) \in Nat /\ MaxDepth \in Nat
      /\ \A k \in 1..Len(w.refs) : w.refs[k] \in Nat
  BY Places
<1>2. /\ IsWords(v.buf) /\ Len(v.buf) = Len(w.buf) + 4
      /\ \A i \in 1..Len(w.buf) : v.buf[i] = w.buf[i]
      /\ \A i \in 1..4 : v.buf[Len(w.buf) + i] = words[i]
  <2>1. IsWords(w.buf)
    BY DEF Framed
  <2>2. /\ IsWords(v.buf) /\ Len(v.buf) = Len(w.buf) + Len(words)
        /\ \A i \in 1..Len(w.buf) : v.buf[i] = w.buf[i]
        /\ \A i \in 1..Len(words) : v.buf[Len(w.buf) + i] = words[i]
    <3>1. IsWords(words)
      BY <1>0
    <3> QED BY <2>1, <3>1, Joined
  <2> QED BY <1>0, <2>2
<1>3. PICK j \in 0..MaxDepth : Len(w.refs) = 2 * j /\ Len(w.buf) = Starts(w.refs, 2 * j)
  BY FreshFacts
<1>4. /\ v.refs \in Seq(Nat) /\ Len(v.refs) = Len(w.refs) + 1
      /\ v.refs[Len(w.refs) + 1] = Len(w.buf)
      /\ \A k \in 1..Len(w.refs) : v.refs[k] = w.refs[k]
  BY <1>1, AppendFacts DEF Framed
<1>5. Len(v.refs) <= 2 * MaxDepth
  BY <1>1, <1>3, <1>4
<1>6. Len(w.buf) < Len(v.buf) /\ Len(v.buf) \in Nat
  BY <1>1, <1>2
<1>7. RefsInOrder(v)
  BY <1>4, <1>6, RefsGrow
<1>w. \A l \in W : l.at \in Nat /\ l.at < Len(w.buf)
  BY DEF Framed, Within
<1>8. ASSUME NEW i \in 1..MaxDepth, 2 * i - 1 <= Len(v.refs) PROVE BundleAt(v, W, i)
  <2>1. i <= j \/ i = j + 1
    BY <1>1, <1>3, <1>4, <1>8
  <2>2. CASE i <= j
    <3>1. 2 * i - 1 <= Len(w.refs)
      BY <1>1, <1>3, <2>2
    <3> QED BY <1>2, <1>4, <1>6, <3>1, OpenKept
  <2>3. CASE i = j + 1
    <3>1. 2 * i - 1 = Len(w.refs) + 1 /\ 2 * i - 2 = Len(w.refs) /\ 2 * i - 2 = 2 * j
      BY <1>1, <1>3, <2>3
    <3>2. v.refs[2 * i - 1] = Len(w.buf)
      BY <1>4, <3>1
    <3>3. Starts(v.refs, 2 * j) = Starts(w.refs, 2 * j)
      <4>1. 2 * j # 0 => 2 * j \in 1..Len(w.refs)
        BY <1>1, <1>3
      <4> QED BY <1>4, <4>1 DEF Starts
    <3>4. EndOf(v, 2 * i - 1) = Len(v.buf)
      BY <1>1, <1>4, <3>1 DEF EndOf
    <3> DEFINE q == Len(w.buf)
               p == Len(w.buf) + 4
               d == MaxDepth - i
               t == TimetagOf(v, i)
    <3>5. p \in Nat /\ d \in Nat /\ p <= Len(v.buf) /\ p = Len(v.buf) /\ q \in Nat
      BY <1>1, <1>2
    <3>6. Sound(v.buf, W, TheItems(p, p, d, t))
      <4> HIDE DEF p, d, t
      <4> QED BY <3>5, NoItemsSound
    <3>7. HeadAt(v.buf, W, q)
      <4>1. v.buf[q + 3] = words[3]
        BY <1>2
      <4>2. v.buf[q + 3].of = timetag
        BY <1>0, <4>1
      <4>3. NoneIn(W, q, q + 4)
        <5> SUFFICES ASSUME NEW l \in W, q <= l.at PROVE FALSE
          BY DEF NoneIn
        <5>1. l.at \in Nat /\ l.at < Len(w.buf)
          BY <1>w
        <5> QED BY <1>1, <5>1
      <4>4. \A i_1 \in 1..4 : v.buf[q + i_1] = words[i_1]
        BY <1>2
      <4> HIDE DEF q
      <4> QED BY <4>2, <4>3, <4>4 DEF HeadAt, IsHead
    <3> QED BY <1>3, <3>1, <3>2, <3>3, <3>4, <3>5, <3>6, <3>7 DEF BundleAt
  <2> QED BY <2>1, <2>2, <2>3
<1>9. ASSUME NEW i \in 1..MaxDepth, 2 * i <= Len(v.refs) PROVE SizeAt(v, W, i)
  <2>1. 2 * i <= Len(w.refs)
    BY <1>1, <1>3, <1>4, <1>9
  <2> QED BY <1>2, <1>4, <1>6, <2>1, OpenKept
<1>10. \A i \in 0..MaxDepth : 2 * i # Len(v.refs)
  BY <1>1, <1>3, <1>4
<1>11. Within(v, W)
  <2> SUFFICES ASSUME NEW l \in W PROVE l.at \in Nat /\ l.at < Len(v.buf)
    BY DEF Within
  <2>1. l.at \in Nat /\ l.at < Len(w.buf)
    BY <1>w
  <2> QED BY <1>1, <1>6, <2>1
<1> QED BY <1>2, <1>4, <1>5, <1>7, <1>8, <1>9, <1>10, <1>11 DEF Framed

(* An item begins behind those of its bundle, with nothing in it yet.      *)
LEMMA FramedPushItem ==
  ASSUME NEW w, NEW v, NEW W, NEW words, Framed(w, W), InBundle(w), IsSize(words),
         v.buf = w.buf \o words, v.refs = Append(w.refs, Len(w.buf))
  PROVE  Framed(v, W)
<1>0. IsWords(words) /\ Len(words) = 1 /\ words[1].part = 1
  <2> DEFINE a == Words(1, 0)
  <2>1. /\ a \in Seq(WordsOf({0})) /\ Len(a) = 1
        /\ \A k \in 1..1 : a[k] = [of |-> 0, part |-> k]
    BY WordsFacts
  <2>2. words = a
    BY DEF IsSize
  <2> HIDE DEF a
  <2>3. a[1].part = 1
    BY <2>1
  <2> QED BY <2>1, <2>2, <2>3 DEF IsWords
<1>1. /\ Len(w.refs) \in Nat /\ Len(w.buf) \in Nat /\ MaxDepth \in Nat
      /\ \A k \in 1..Len(w.refs) : w.refs[k] \in Nat
  BY Places
<1>2. /\ IsWords(v.buf) /\ Len(v.buf) = Len(w.buf) + 1
      /\ \A i \in 1..Len(w.buf) : v.buf[i] = w.buf[i]
      /\ v.buf[Len(w.buf) + 1].part = 1
  <2>1. IsWords(w.buf)
    BY DEF Framed
  <2>2. /\ IsWords(v.buf) /\ Len(v.buf) = Len(w.buf) + Len(words)
        /\ \A i \in 1..Len(w.buf) : v.buf[i] = w.buf[i]
        /\ \A i \in 1..Len(words) : v.buf[Len(w.buf) + i] = words[i]
    <3>1. IsWords(words)
      BY <1>0
    <3> QED BY <2>1, <3>1, Joined
  <2>3. 1 \in 1..Len(words)
    BY <1>0
  <2> QED BY <1>0, <2>2, <2>3
<1>3. PICK j \in 1..MaxDepth : Len(w.refs) = 2 * j - 1
  BY InBundleFacts
<1>4. /\ v.refs \in Seq(Nat) /\ Len(v.refs) = Len(w.refs) + 1
      /\ v.refs[Len(w.refs) + 1] = Len(w.buf)
      /\ \A k \in 1..Len(w.refs) : v.refs[k] = w.refs[k]
  BY <1>1, AppendFacts DEF Framed
<1>5. Len(v.refs) <= 2 * MaxDepth
  BY <1>1, <1>3, <1>4
<1>6. Len(w.buf) < Len(v.buf) /\ Len(v.buf) \in Nat
  BY <1>1, <1>2
<1>7. RefsInOrder(v)
  BY <1>4, <1>6, RefsGrow
<1>w. \A l \in W : l.at \in Nat /\ l.at < Len(w.buf)
  BY DEF Framed, Within
<1>8. ASSUME NEW i \in 1..MaxDepth, 2 * i - 1 <= Len(v.refs) PROVE BundleAt(v, W, i)
  <2>1. 2 * i - 1 <= Len(w.refs)
    BY <1>1, <1>3, <1>4, <1>8
  <2> QED BY <1>2, <1>4, <1>6, <2>1, OpenKept
<1>9. ASSUME NEW i \in 1..MaxDepth, 2 * i <= Len(v.refs) PROVE SizeAt(v, W, i)
  <2>1. 2 * i <= Len(w.refs) \/ i = j
    BY <1>1, <1>3, <1>4, <1>9
  <2>2. CASE 2 * i <= Len(w.refs)
    BY <1>2, <1>4, <1>6, <2>2, OpenKept
  <2>3. CASE i = j
    <3>1. v.refs[2 * i] = Len(w.buf)
      <4>1. 2 * i = Len(w.refs) + 1
        BY <1>1, <1>3, <2>3
      <4> QED BY <1>4, <4>1
    <3>2. NoneIn(W, Len(w.buf), Len(w.buf) + 1)
      <4> SUFFICES ASSUME NEW l \in W, Len(w.buf) <= l.at PROVE FALSE
        BY DEF NoneIn
      <4>1. l.at \in Nat /\ l.at < Len(w.buf)
        BY <1>w
      <4> QED BY <1>1, <4>1
    <3> QED BY <1>2, <3>1, <3>2 DEF SizeAt
  <2> QED BY <2>1, <2>2, <2>3
<1>10. ASSUME NEW i \in 0..MaxDepth, 2 * i = Len(v.refs) PROVE ItemAt(v, W, i)
  <2>1. 2 * i = Len(w.refs) + 1 /\ 2 * i # 0
    BY <1>1, <1>4, <1>10
  <2>2. Starts(v.refs, 2 * i) = Len(w.buf) + 1
    BY <1>4, <2>1 DEF Starts
  <2> QED BY <1>2, <2>2 DEF ItemAt
<1>11. Within(v, W)
  <2> SUFFICES ASSUME NEW l \in W PROVE l.at \in Nat /\ l.at < Len(v.buf)
    BY DEF Within
  <2>1. l.at \in Nat /\ l.at < Len(w.buf)
    BY <1>w
  <2> QED BY <1>1, <1>6, <2>1
<1> QED BY <1>2, <1>4, <1>5, <1>7, <1>8, <1>9, <1>10, <1>11 DEF Framed

(* When the innermost frame is closed, those around it stay.               *)
LEMMA RefsShrink ==
  ASSUME NEW w, NEW v, NEW W, Framed(w, W), Len(w.refs) > 0, v.refs = Front(w.refs),
         Last(w.refs) <= Len(v.buf), Len(v.buf) \in Nat
  PROVE  /\ v.refs \in Seq(Nat) /\ Len(v.refs) = Len(w.refs) - 1
         /\ \A k \in 1..(Len(w.refs) - 1) : v.refs[k] = w.refs[k]
         /\ Last(w.refs) = w.refs[Len(w.refs)]
         /\ Last(w.refs) \in Nat /\ Last(w.refs) < Len(w.buf)
         /\ RefsInOrder(v)
<1>1. Len(w.refs) \in Nat /\ Len(w.buf) \in Nat /\ \A k \in 1..Len(w.refs) : w.refs[k] \in Nat
  BY Places
<1>2. w.refs \in Seq(Nat)
  BY DEF Framed
<1>3. /\ v.refs \in Seq(Nat) /\ Len(v.refs) = Len(w.refs) - 1
      /\ \A k \in 1..(Len(w.refs) - 1) : v.refs[k] = w.refs[k]
      /\ Last(w.refs) = w.refs[Len(w.refs)] /\ Last(w.refs) \in Nat
  BY <1>2, FrontFacts
<1>4. /\ \A k, l \in 1..Len(w.refs) : k < l => w.refs[k] < w.refs[l]
      /\ \A k \in 1..Len(w.refs) : w.refs[k] < Len(w.buf)
  BY DEF Framed, RefsInOrder
<1>5. Last(w.refs) < Len(w.buf)
  <2>1. Len(w.refs) \in 1..Len(w.refs)
    BY <1>1
  <2> QED BY <1>3, <1>4, <2>1
<1>6. ASSUME NEW k \in 1..Len(v.refs), NEW l \in 1..Len(v.refs), k < l
      PROVE  v.refs[k] < v.refs[l]
  <2>1. /\ k \in 1..Len(w.refs) /\ l \in 1..Len(w.refs)
        /\ k \in 1..(Len(w.refs) - 1) /\ l \in 1..(Len(w.refs) - 1)
    BY <1>1, <1>3
  <2> QED BY <1>3, <1>4, <1>6, <2>1
<1>7. ASSUME NEW k \in 1..Len(v.refs) PROVE v.refs[k] < Len(v.buf)
  <2>1. /\ k \in 1..Len(w.refs) /\ k \in 1..(Len(w.refs) - 1)
        /\ Len(w.refs) \in 1..Len(w.refs) /\ k < Len(w.refs)
    BY <1>1, <1>3
  <2>2. w.refs[k] < Last(w.refs) /\ w.refs[k] \in Nat
    BY <1>1, <1>3, <1>4, <2>1
  <2>3. v.refs[k] = w.refs[k]
    BY <1>3, <2>1
  <2>4. \A a, b, c \in Nat : a < b /\ b <= c => a < c
    OBVIOUS
  <2> QED BY <1>3, <2>2, <2>3, <2>4
<1> QED BY <1>3, <1>5, <1>6, <1>7 DEF RefsInOrder

(* Bundles and items around the frame that is closed are what they were.   *)
LEMMA BundlesAround ==
  ASSUME NEW w, NEW v, NEW W, Framed(w, W), Len(w.refs) > 0, v.refs = Front(w.refs),
         Last(w.refs) <= Len(v.buf), Len(v.buf) \in Nat,
         \A k \in 1..Last(w.refs) : v.buf[k] = w.buf[k],
         NEW i \in 1..MaxDepth, 2 * i < Len(w.refs)
  PROVE  BundleAt(v, W, i) /\ TimetagOf(v, i) = TimetagOf(w, i) /\ SizeAt(v, W, i)
<1>1. Len(w.refs) \in Nat /\ MaxDepth \in Nat /\ \A k \in 1..Len(w.refs) : w.refs[k] \in Nat
  BY Places
<1>2. /\ Len(v.refs) = Len(w.refs) - 1
      /\ \A k \in 1..(Len(w.refs) - 1) : v.refs[k] = w.refs[k]
      /\ Last(w.refs) = w.refs[Len(w.refs)] /\ Last(w.refs) \in Nat
  BY RefsShrink
<1>3. /\ 2 * i \in 1..(Len(w.refs) - 1) /\ 2 * i - 1 \in 1..(Len(w.refs) - 1)
      /\ 2 * i \in 1..Len(w.refs) /\ Len(w.refs) \in 1..Len(w.refs)
      /\ 2 * i - 1 < Len(w.refs) /\ 2 * i - 1 < Len(v.refs) /\ 2 * i - 1 <= Len(w.refs)
      /\ 2 * i - 1 + 1 = 2 * i
  BY <1>1, <1>2
<1> DEFINE e == w.refs[2 * i]
<1>4. e = EndOf(w, 2 * i - 1) /\ e = EndOf(v, 2 * i - 1)
  BY <1>2, <1>3 DEF EndOf
<1>5. e < Last(w.refs) /\ e \in Nat
  BY <1>1, <1>2, <1>3 DEF Framed, RefsInOrder
<1>6. e <= Len(v.buf) /\ \A k \in 1..e : v.buf[k] = w.buf[k]
  <2>1. \A a, b, c \in Nat : a < b /\ b <= c => a <= c
    OBVIOUS
  <2>2. \A k \in 1..e : k \in 1..Last(w.refs)
    BY <1>2, <1>5
  <2> QED BY <1>2, <1>5, <2>1, <2>2
<1>7. i # 1 => v.refs[2 * i - 2] = w.refs[2 * i - 2]
  <2>1. i # 1 => 2 * i - 2 \in 1..(Len(w.refs) - 1)
    BY <1>1, <1>3
  <2> QED BY <1>2, <2>1
<1>8. v.refs[2 * i - 1] = w.refs[2 * i - 1]
  BY <1>2, <1>3
<1>9. \A l \in W : l.at \in Nat
  BY DEF Framed, Within
<1> HIDE DEF e
<1>10. Same(W, W, 0, e)
  BY <1>9, SameFacts
<1>11. BundleAt(v, W, i) /\ TimetagOf(v, i) = TimetagOf(w, i)
  BY <1>3, <1>4, <1>6, <1>7, <1>8, <1>10, BundleKept
<1>12. SizeAt(v, W, i)
  <2>1. e + 1 \in 1..Last(w.refs)
    BY <1>2, <1>5
  <2>2. v.buf[e + 1] = w.buf[e + 1] /\ v.refs[2 * i] = w.refs[2 * i] /\ w.refs[2 * i] = e
    BY <1>2, <1>3, <2>1 DEF e
  <2>3. Same(W, W, 0, e + 1) /\ 2 * i <= Len(w.refs)
    BY <1>3, <1>9, SameFacts
  <2> QED BY <2>2, <2>3, SizeKept
<1> QED BY <1>11, <1>12

(* An item without anything in it is taken back.                           *)
LEMMA FramedUndoItem ==
  ASSUME NEW w, NEW v, NEW W, Framed(w, W), InItem(w), Len(w.buf) - Last(w.refs) - 1 <= 0,
         v.buf = SubSeq(w.buf, 1, Last(w.refs)), v.refs = Front(w.refs)
  PROVE  Framed(v, W)
<1>1. Len(w.refs) \in Nat /\ Len(w.buf) \in Nat /\ MaxDepth \in Nat
  BY Places
<1>2. PICK j \in 1..MaxDepth : Len(w.refs) = 2 * j
  BY InItemFacts
<1> DEFINE m == Last(w.refs)
<1>3. m \in Nat /\ m <= Len(w.buf) /\ m = w.refs[2 * j]
  <2>1. 2 * j \in 1..Len(w.refs)
    BY <1>1, <1>2
  <2>2. m = w.refs[2 * j]
    BY <1>2 DEF Last
  <2>3. w.refs[2 * j] \in Nat
    BY <2>1, Places
  <2>4. w.refs[2 * j] < Len(w.buf)
    BY <2>1 DEF Framed, RefsInOrder
  <2> QED BY <1>1, <2>2, <2>3, <2>4
<1>4. IsWords(v.buf) /\ Len(v.buf) = m /\ \A k \in 1..m : v.buf[k] = w.buf[k]
  <2>1. IsWords(w.buf)
    BY DEF Framed
  <2> HIDE DEF m
  <2>2. /\ IsWords(SubSeq(w.buf, 1, m)) /\ Len(SubSeq(w.buf, 1, m)) = m
        /\ \A k \in 1..m : SubSeq(w.buf, 1, m)[k] = w.buf[k]
    BY <1>3, <2>1, WordsCut
  <2> QED BY <2>2 DEF m
<1>5. m <= Len(v.buf) /\ Len(v.buf) \in Nat /\ Len(w.refs) > 0
  BY <1>1, <1>2, <1>3, <1>4
<1>6. /\ v.refs \in Seq(Nat) /\ Len(v.refs) = Len(w.refs) - 1
      /\ \A k \in 1..(Len(w.refs) - 1) : v.refs[k] = w.refs[k]
      /\ RefsInOrder(v)
  BY <1>5, RefsShrink
<1>w. \A l \in W : l.at \in Nat /\ l.at < Len(w.buf)
  BY DEF Framed, Within
<1>7. ASSUME NEW i \in 1..MaxDepth, 2 * i - 1 <= Len(v.refs) PROVE BundleAt(v, W, i)
  <2>1. CASE 2 * i < Len(w.refs)
    BY <1>4, <1>5, <2>1, BundlesAround
  <2>2. CASE ~(2 * i < Len(w.refs))
    <3>1. i = j
      BY <1>1, <1>2, <1>6, <1>7, <2>2
    <3>2. /\ 2 * j - 1 < Len(w.refs) /\ 2 * j - 1 + 1 = 2 * j /\ 2 * j - 1 = Len(v.refs)
          /\ 2 * j - 1 \in 1..(Len(w.refs) - 1) /\ 2 * j - 1 <= Len(w.refs)
          /\ ~(2 * j - 1 < Len(v.refs))
      BY <1>1, <1>2, <1>6
    <3>3. m = EndOf(w, 2 * j - 1) /\ m = EndOf(v, 2 * j - 1)
      BY <1>3, <1>4, <3>2 DEF EndOf
    <3>4. v.refs[2 * j - 1] = w.refs[2 * j - 1]
      BY <1>6, <3>2
    <3>5. j # 1 => v.refs[2 * j - 2] = w.refs[2 * j - 2]
      <4>1. j # 1 => 2 * j - 2 \in 1..(Len(w.refs) - 1)
        BY <1>1, <1>2
      <4> QED BY <1>6, <4>1
    <3>6. Same(W, W, 0, m)
      BY <1>w, SameFacts
    <3> HIDE DEF m
    <3> QED BY <1>4, <1>5, <3>1, <3>2, <3>3, <3>4, <3>5, <3>6, BundleKept
  <2> QED BY <2>1, <2>2
<1>8. \A i \in 0..MaxDepth : 2 * i # Len(v.refs)
  BY <1>1, <1>2, <1>6
<1>9. Len(v.refs) <= 2 * MaxDepth
  BY <1>1, <1>2, <1>6
<1>s. ASSUME NEW i \in 1..MaxDepth, 2 * i <= Len(v.refs) PROVE SizeAt(v, W, i)
  <2>1. 2 * i < Len(w.refs)
    BY <1>1, <1>2, <1>6, <1>s
  <2> QED BY <1>4, <1>5, <2>1, BundlesAround
<1>10. Within(v, W)
  <2> SUFFICES ASSUME NEW l \in W PROVE l.at \in Nat /\ l.at < Len(v.buf)
    BY DEF Within
  <2>1. l.at \in Nat /\ l.at < Len(w.buf)
    BY <1>w
  <2>2. ~(m <= l.at /\ l.at < m + 1)
    <3>1. SizeAt(w, W, j)
      <4>1. 2 * j <= Len(w.refs)
        BY <1>1, <1>2
      <4> QED BY <4>1 DEF Framed
    <3> QED BY <1>3, <3>1 DEF SizeAt, NoneIn
  <2>3. Len(w.buf) <= m + 1
    BY <1>1, <1>3
  <2>4. \A a, c, k \in Nat : a < c /\ c <= k + 1 /\ ~(k <= a /\ a < k + 1) => a < k
    OBVIOUS
  <2>5. l.at < m
    BY <1>1, <1>3, <2>1, <2>2, <2>3, <2>4
  <2> QED BY <1>4, <2>1, <2>5
<1> QED BY <1>4, <1>6, <1>7, <1>8, <1>9, <1>10, <1>s DEF Framed

(* An item gets its size, and becomes one more of the bundle around it.    *)
LEMMA FramedPopItem ==
  ASSUME NEW w, NEW v, NEW W, Framed(w, W), InItem(w),
         NEW size, size = Len(w.buf) - Last(w.refs) - 1, size > 0,
         v.buf = Filled(w.buf, Last(w.refs) + 1, size), v.refs = Front(w.refs)
  PROVE  Framed(v, W)
<1>1. Len(w.refs) \in Nat /\ Len(w.buf) \in Nat /\ MaxDepth \in Nat
  BY Places
<1>2. PICK j \in 1..MaxDepth : Len(w.refs) = 2 * j
  BY InItemFacts
<1> DEFINE m == Last(w.refs)
           n == Len(w.buf)
           d == MaxDepth - j
<1>3. m \in Nat /\ m < n /\ m = w.refs[2 * j] /\ d \in Nat
  <2>1. 2 * j \in 1..Len(w.refs)
    BY <1>1, <1>2
  <2>2. m = w.refs[2 * j]
    BY <1>2 DEF Last
  <2>3. w.refs[2 * j] \in Nat
    BY <2>1, Places
  <2>4. w.refs[2 * j] < Len(w.buf)
    BY <2>1 DEF Framed, RefsInOrder
  <2> QED BY <1>1, <2>2, <2>3, <2>4
<1>4. /\ IsWords(v.buf) /\ Len(v.buf) = n /\ v.buf[m + 1].of = size
      /\ v.buf[m + 1].part = w.buf[m + 1].part
      /\ \A k \in 1..n : k # m + 1 => v.buf[k] = w.buf[k]
  <2>1. IsWords(w.buf)
    BY DEF Framed
  <2> HIDE DEF m
  <2>2. m + 1 \in 1..Len(w.buf)
    BY <1>1, <1>3
  <2>3. v.buf = Filled(w.buf, m + 1, size)
    BY DEF m
  <2>4. /\ IsWords(v.buf) /\ Len(v.buf) = Len(w.buf) /\ v.buf[m + 1].of = size
        /\ v.buf[m + 1].part = w.buf[m + 1].part
        /\ \A k \in 1..Len(w.buf) : k # m + 1 => v.buf[k] = w.buf[k]
    BY <2>1, <2>2, <2>3, WordsFilled
  <2> QED BY <2>4
<1>5. /\ m <= Len(v.buf) /\ Len(v.buf) \in Nat /\ Len(w.refs) > 0 /\ n \in Nat
      /\ \A k \in 1..m : v.buf[k] = w.buf[k]
  <2>1. n \in Nat /\ Len(w.refs) > 0
    BY <1>1, <1>2
  <2> HIDE DEF m, n
  <2>2. m <= n /\ \A k \in 1..m : k \in 1..n /\ k # m + 1
    BY <1>3, <2>1
  <2> QED BY <1>4, <2>1, <2>2
<1>6. /\ v.refs \in Seq(Nat) /\ Len(v.refs) = Len(w.refs) - 1
      /\ \A k \in 1..(Len(w.refs) - 1) : v.refs[k] = w.refs[k]
      /\ RefsInOrder(v)
  <2>1. Last(w.refs) <= Len(v.buf) /\ Len(v.buf) \in Nat /\ Len(w.refs) > 0
    BY <1>5
  <2> QED BY <2>1, RefsShrink
<1>w. \A l \in W : l.at \in Nat /\ l.at < Len(w.buf)
  BY DEF Framed, Within
<1>7. BundleAt(v, W, j)
  <2>1. /\ 2 * j - 1 < Len(w.refs) /\ 2 * j - 1 + 1 = 2 * j /\ 2 * j - 1 = Len(v.refs)
        /\ 2 * j - 1 \in 1..(Len(w.refs) - 1) /\ 2 * j - 1 <= Len(w.refs)
        /\ ~(2 * j - 1 < Len(v.refs)) /\ 2 * j - 1 \in 1..Len(w.refs)
    BY SMTT(20), <1>1, <1>2, <1>6
  <2> DEFINE q == w.refs[2 * j - 1]
             p == q + 4
             t == TimetagOf(w, j)
  <2>2. p \in Nat /\ q \in Nat /\ p <= m
    <3>1. EndOf(w, 2 * j - 1) = m
      BY <1>3, <2>1 DEF EndOf
    <3>2. 2 * j - 1 <= Len(w.refs)
      BY <2>1
    <3>3. w.refs[2 * j - 1] \in Nat /\ w.refs[2 * j - 1] + 4 <= EndOf(w, 2 * j - 1)
      BY <3>2, BundleFacts
    <3> QED BY <3>1, <3>3
  <2>3. /\ w.refs[2 * j - 1] = Starts(w.refs, 2 * j - 2) /\ HeadAt(w.buf, W, q)
        /\ Sound(w.buf, W, TheItems(p, m, d, t))
    <3>1. BundleAt(w, W, j)
      BY <2>1 DEF Framed
    <3>2. EndOf(w, 2 * j - 1) = m
      BY <1>3, <2>1 DEF EndOf
    <3> QED BY <3>1, <3>2 DEF BundleAt
  <2>h. HeadAt(v.buf, W, q) /\ v.buf[q + 3].of = w.buf[q + 3].of
    <3>1. \A k \in (q + 1)..(q + 4) : k \in 1..m
      <4> HIDE DEF q, m
      <4> QED BY <1>3, <2>2
    <3>2. \A k \in (q + 1)..(q + 4) : v.buf[k] = w.buf[k]
      BY <1>5, <3>1
    <3>3. Same(W, W, 0, m) /\ HeadAt(w.buf, W, q)
      BY <1>w, <2>3, SameFacts
    <3>4. 0 \in Nat /\ 0 <= q /\ q \in Nat /\ q + 4 <= m /\ m \in Nat
      BY <1>3, <2>2
    <3> HIDE DEF q, m
    <3> QED BY SMTT(20), <3>2, <3>3, <3>4, HeadKept
  <2>t. TimetagOf(v, j) = t
    <3>1. v.refs[2 * j - 1] = w.refs[2 * j - 1]
      BY <1>6, <2>1
    <3>2. j # 0
      OBVIOUS
    <3> QED BY <2>h, <3>1, <3>2 DEF TimetagOf
  <2> HIDE DEF t
  <2>i. w.buf[m + 1].part = 1 /\ NoneIn(W, m, m + 1)
    <3>1. SizeAt(w, W, j)
      <4>1. 2 * j <= Len(w.refs)
        BY <1>1, <1>2
      <4> QED BY <4>1 DEF Framed
    <3> QED BY <1>3, <3>1 DEF SizeAt
  <2>4. Sound(w.buf, W, APacket(m + 1, n, d, t))
    <3>1. ItemAt(w, W, j)
      <4>1. j \in 0..MaxDepth
        BY <1>1
      <4> QED BY <1>2, <4>1 DEF Framed
    <3>2. Starts(w.refs, 2 * j) = m + 1
      <4>1. 2 * j # 0
        BY <1>1
      <4> QED BY <1>3, <4>1 DEF Starts
    <3>3. n # m + 1
      BY <1>1, <1>3
    <3> QED BY <3>1, <3>2, <3>3 DEF ItemAt, t
  <2>5. Sound(v.buf, W, TheItems(p, m, d, t))
    <3> DEFINE x == TheItems(p, m, d, t)
    <3>1. x.from = p /\ x.to = m
      BY DEF TheItems
    <3>2. \A k \in (x.from + 1)..x.to : v.buf[k] = w.buf[k]
      <4> HIDE DEF x, m, p
      <4>1. \A k \in (x.from + 1)..x.to : k \in 1..m
        BY <1>3, <2>2, <3>1
      <4> QED BY <1>5, <4>1
    <3>s. Same(W, W, x.from, x.to)
      BY <1>w, SameFacts
    <3> HIDE DEF x
    <3>3. Sound(v.buf, W, x)
      <4>1. Sound(w.buf, W, x) /\ x.to <= Len(v.buf)
        BY <1>5, <2>3, <3>1 DEF x
      <4> QED BY <3>2, <3>s, <4>1, SpanKept
    <3> QED BY <3>3 DEF x
  <2>6. Sound(v.buf, W, APacket(m + 1, n, d, t))
    <3> DEFINE x == APacket(m + 1, n, d, t)
    <3>1. x.from = m + 1 /\ x.to = n
      BY DEF APacket
    <3>2. \A k \in (x.from + 1)..x.to : v.buf[k] = w.buf[k]
      <4> HIDE DEF x, m, n
      <4>1. \A k \in (x.from + 1)..x.to : k \in 1..n /\ k # m + 1
        BY SMTT(20), <1>3, <1>5, <3>1
      <4> QED BY <1>4, <4>1
    <3>s. Same(W, W, x.from, x.to)
      BY <1>w, SameFacts
    <3> HIDE DEF x
    <3>3. Sound(v.buf, W, x)
      <4>1. Sound(w.buf, W, x) /\ x.to <= Len(v.buf)
        BY <1>4, <1>5, <2>4, <3>1 DEF x
      <4> QED BY <3>2, <3>s, <4>1, SpanKept
    <3> QED BY <3>3 DEF x
  <2>7. Sound(v.buf, W, TheItems(p, n, d, t))
    <3>1. /\ v.buf[m + 1].of = n - m - 1 /\ n <= Len(v.buf) /\ v.buf[m + 1].part = 1
          /\ NoneIn(W, m, m + 1)
      BY <1>4, <1>5, <2>i
    <3> HIDE DEF p, n, m, d
    <3> QED BY <1>3, <1>5, <2>2, <2>5, <2>6, <3>1, OneMoreItem
  <2>8. EndOf(v, 2 * j - 1) = n
    BY <1>4, <2>1 DEF EndOf
  <2>9. v.refs[2 * j - 1] = w.refs[2 * j - 1]
    BY <1>6, <2>1
  <2>10. Starts(v.refs, 2 * j - 2) = Starts(w.refs, 2 * j - 2)
    <3>1. 2 * j - 2 # 0 => 2 * j - 2 \in 1..(Len(w.refs) - 1)
      BY <1>1, <1>2
    <3> QED BY <1>6, <3>1 DEF Starts
  <2> QED BY <2>3, <2>7, <2>8, <2>9, <2>10, <2>h, <2>t DEF BundleAt
<1>8. ASSUME NEW i \in 1..MaxDepth, 2 * i - 1 <= Len(v.refs) PROVE BundleAt(v, W, i)
  <2>1. CASE 2 * i < Len(w.refs)
    BY <1>5, <2>1, BundlesAround
  <2>2. CASE ~(2 * i < Len(w.refs))
    <3>1. i = j
      BY <1>1, <1>2, <1>6, <1>8, <2>2
    <3> QED BY <1>7, <3>1
  <2> QED BY <2>1, <2>2
<1>9. \A i \in 0..MaxDepth : 2 * i # Len(v.refs)
  BY <1>1, <1>2, <1>6
<1>10. Len(v.refs) <= 2 * MaxDepth
  BY <1>1, <1>2, <1>6
<1>s. ASSUME NEW i \in 1..MaxDepth, 2 * i <= Len(v.refs) PROVE SizeAt(v, W, i)
  <2>1. 2 * i < Len(w.refs)
    BY <1>1, <1>2, <1>6, <1>s
  <2> QED BY <1>5, <2>1, BundlesAround
<1>11. Within(v, W)
  <2> HIDE DEF n
  <2>1. \A l \in W : l.at < n
    BY <1>w DEF n
  <2> QED BY <1>4, <1>w, <2>1 DEF Within
<1> QED BY <1>4, <1>6, <1>8, <1>9, <1>10, <1>11, <1>s DEF Framed

(* A bundle without items is taken back.                                   *)
LEMMA FramedUndoBundle ==
  ASSUME NEW w, NEW v, NEW W, Framed(w, W), InBundle(w), Len(w.buf) - Last(w.refs) - 4 <= 0,
         v.buf = SubSeq(w.buf, 1, Last(w.refs)), v.refs = Front(w.refs)
  PROVE  Framed(v, W)
<1>1. Len(w.refs) \in Nat /\ Len(w.buf) \in Nat /\ MaxDepth \in Nat
  BY Places
<1>2. PICK j \in 1..MaxDepth : Len(w.refs) = 2 * j - 1
  BY InBundleFacts
<1> DEFINE m == Last(w.refs)
<1>3. m \in Nat /\ m <= Len(w.buf) /\ m = w.refs[2 * j - 1]
  <2>1. 2 * j - 1 \in 1..Len(w.refs)
    BY <1>1, <1>2
  <2>2. m = w.refs[2 * j - 1]
    BY <1>2 DEF Last
  <2>3. w.refs[2 * j - 1] \in Nat
    BY <2>1, Places
  <2>4. w.refs[2 * j - 1] < Len(w.buf)
    BY <2>1 DEF Framed, RefsInOrder
  <2> QED BY <1>1, <2>2, <2>3, <2>4
<1>4. IsWords(v.buf) /\ Len(v.buf) = m /\ \A k \in 1..m : v.buf[k] = w.buf[k]
  <2>1. IsWords(w.buf)
    BY DEF Framed
  <2> HIDE DEF m
  <2>2. /\ IsWords(SubSeq(w.buf, 1, m)) /\ Len(SubSeq(w.buf, 1, m)) = m
        /\ \A k \in 1..m : SubSeq(w.buf, 1, m)[k] = w.buf[k]
    BY <1>3, <2>1, WordsCut
  <2> QED BY <2>2 DEF m
<1>5. m <= Len(v.buf) /\ Len(v.buf) \in Nat /\ Len(w.refs) > 0
  BY <1>1, <1>2, <1>3, <1>4
<1>6. /\ v.refs \in Seq(Nat) /\ Len(v.refs) = Len(w.refs) - 1
      /\ \A k \in 1..(Len(w.refs) - 1) : v.refs[k] = w.refs[k]
      /\ RefsInOrder(v)
  BY <1>5, RefsShrink
<1>w. \A l \in W : l.at \in Nat /\ l.at < Len(w.buf)
  BY DEF Framed, Within
<1>b. BundleAt(w, W, j) /\ w.refs[2 * j - 1] + 4 <= EndOf(w, 2 * j - 1)
  <2>1. 2 * j - 1 <= Len(w.refs)
    BY <1>1, <1>2
  <2> QED BY <2>1, BundleFacts
<1>7. ASSUME NEW i \in 1..MaxDepth, 2 * i - 1 <= Len(v.refs) PROVE BundleAt(v, W, i)
  <2>1. 2 * i < Len(w.refs)
    BY <1>1, <1>2, <1>6, <1>7
  <2> QED BY <1>4, <1>5, <2>1, BundlesAround
<1>8. ASSUME NEW i \in 0..MaxDepth, 2 * i = Len(v.refs) PROVE ItemAt(v, W, i)
  <2>1. 2 * i = 2 * j - 2
    BY <1>1, <1>2, <1>6, <1>8
  <2>2. BundleAt(w, W, j)
    BY <1>b
  <2>3. Starts(v.refs, 2 * i) = Starts(w.refs, 2 * i)
    <3>1. 2 * i # 0 => 2 * i \in 1..(Len(w.refs) - 1)
      BY <1>1, <1>2, <1>6, <1>8
    <3> QED BY <1>6, <3>1 DEF Starts
  <2> QED BY <1>3, <1>4, <2>1, <2>2, <2>3 DEF BundleAt, ItemAt
<1>9. Len(v.refs) <= 2 * MaxDepth
  BY <1>1, <1>2, <1>6
<1>s. ASSUME NEW i \in 1..MaxDepth, 2 * i <= Len(v.refs) PROVE SizeAt(v, W, i)
  <2>1. 2 * i < Len(w.refs)
    BY <1>1, <1>2, <1>6, <1>s
  <2> QED BY <1>4, <1>5, <2>1, BundlesAround
<1>10. Within(v, W)
  <2> SUFFICES ASSUME NEW l \in W PROVE l.at \in Nat /\ l.at < Len(v.buf)
    BY DEF Within
  <2>1. l.at \in Nat /\ l.at < Len(w.buf)
    BY <1>w
  <2>2. ~(m <= l.at /\ l.at < m + 4)
    BY <1>3, <1>b DEF BundleAt, HeadAt, NoneIn
  <2> QED BY <1>1, <1>3, <1>4, <2>1, <2>2
<1> QED BY <1>4, <1>6, <1>7, <1>8, <1>9, <1>10, <1>s DEF Framed

(* A bundle is closed: it is what is in the item around it.                *)
LEMMA FramedPopBundle ==
  ASSUME NEW w, NEW v, NEW W, Framed(w, W), InBundle(w), Len(w.buf) - Last(w.refs) - 4 > 0,
         v.buf = w.buf, v.refs = Front(w.refs)
  PROVE  Framed(v, W)
<1>1. Len(w.refs) \in Nat /\ Len(w.buf) \in Nat /\ MaxDepth \in Nat
  BY Places
<1>2. PICK j \in 1..MaxDepth : Len(w.refs) = 2 * j - 1
  BY InBundleFacts
<1> DEFINE m == Last(w.refs)
           n == Len(w.buf)
<1>3. m \in Nat /\ m < n /\ m = w.refs[2 * j - 1]
  <2>1. 2 * j - 1 \in 1..Len(w.refs)
    BY <1>1, <1>2
  <2>2. m = w.refs[2 * j - 1]
    BY <1>2 DEF Last
  <2>3. w.refs[2 * j - 1] \in Nat
    BY <2>1, Places
  <2>4. w.refs[2 * j - 1] < Len(w.buf)
    BY <2>1 DEF Framed, RefsInOrder
  <2> QED BY <1>1, <2>2, <2>3, <2>4
<1>4. m <= Len(v.buf) /\ Len(v.buf) \in Nat /\ Len(w.refs) > 0
  BY <1>1, <1>2, <1>3
<1>5. \A k \in 1..m : v.buf[k] = w.buf[k]
  OBVIOUS
<1>6. /\ v.refs \in Seq(Nat) /\ Len(v.refs) = Len(w.refs) - 1
      /\ \A k \in 1..(Len(w.refs) - 1) : v.refs[k] = w.refs[k]
      /\ RefsInOrder(v)
  BY <1>4, RefsShrink
<1>7. ASSUME NEW i \in 1..MaxDepth, 2 * i - 1 <= Len(v.refs) PROVE BundleAt(v, W, i)
  <2>1. 2 * i < Len(w.refs)
    BY <1>1, <1>2, <1>6, <1>7
  <2> QED BY <1>4, <1>5, <2>1, BundlesAround
<1>8. ASSUME NEW i \in 0..MaxDepth, 2 * i = Len(v.refs) PROVE ItemAt(v, W, i)
  <2>1. 2 * i = 2 * j - 2 /\ i = j - 1
    BY <1>1, <1>2, <1>6, <1>8
  <2>2. BundleAt(w, W, j)
    <3>1. 2 * j - 1 <= Len(w.refs)
      BY <1>1, <1>2
    <3> QED BY <3>1 DEF Framed
  <2>3. Starts(v.refs, 2 * i) = Starts(w.refs, 2 * i)
    <3>1. 2 * i # 0 => 2 * i \in 1..(Len(w.refs) - 1)
      BY <1>1, <1>2, <1>6, <1>8
    <3> QED BY <1>6, <3>1 DEF Starts
  <2>4. EndOf(w, 2 * j - 1) = n
    BY <1>1, <1>2 DEF EndOf
  <2> DEFINE d == MaxDepth - i
             t == TimetagOf(v, i)
  <2>5. d \in Nat /\ d > 0 /\ d - 1 = MaxDepth - j /\ m + 4 < n /\ n \in Nat
    BY <1>1, <1>3, <2>1
  <2>6. /\ m = Starts(w.refs, 2 * i) /\ HeadAt(w.buf, W, m)
        /\ Sound(w.buf, W, TheItems(m + 4, n, d - 1, w.buf[m + 3].of))
    <3>1. TimetagOf(w, j) = w.buf[m + 3].of
      BY <1>3 DEF TimetagOf
    <3> QED BY <1>3, <2>1, <2>2, <2>4, <2>5, <3>1 DEF BundleAt
  <2>7. Sound(w.buf, W, APacket(m, n, d, t))
    <3> HIDE DEF m, n, d, t
    <3> QED BY <1>3, <2>5, <2>6, BundleSound
  <2> QED BY <2>3, <2>6, <2>7 DEF ItemAt
<1>9. Len(v.refs) <= 2 * MaxDepth
  BY <1>1, <1>2, <1>6
<1>10. IsWords(v.buf)
  BY DEF Framed
<1>s. ASSUME NEW i \in 1..MaxDepth, 2 * i <= Len(v.refs) PROVE SizeAt(v, W, i)
  <2>1. 2 * i < Len(w.refs)
    BY <1>1, <1>2, <1>6, <1>s
  <2> QED BY <1>4, <1>5, <2>1, BundlesAround
<1>11. Within(v, W)
  BY DEF Framed, Within
<1> QED BY <1>6, <1>7, <1>8, <1>9, <1>10, <1>11, <1>s DEF Framed
-----------------------------------------------------------------------------
(* The inductive invariant *)

(* The log of the messages: entries, one behind the other                  *)
Begun(ws) == {ws[k] : k \in 1..Len(ws)}
Entry(V) == [message : Messages, timetag : V, at : Nat]
Logged(ws) ==
  /\ \E V : ws \in Seq(Entry(V))
  /\ \A i, j \in 1..Len(ws) : i < j => ws[i].at < ws[j].at

(* Where the k-th item of the outermost bundle begins                      *)
StartOf(its, k) == IF k = 1 THEN 4 ELSE its[k - 1]

(* Items of the outermost bundle lie behind its head, one behind the       *)
(* other, each with its size in front of it, up to what is open in it.     *)
ItemsInside(w, its) ==
  /\ \A k \in 1..Len(its) :
       /\ 4 < its[k] /\ its[k] <= EndOf(w, 1)
       /\ \A j \in 1..Len(its) : j < k => its[j] < its[k]
       /\ w.buf[StartOf(its, k) + 1].of = its[k] - StartOf(its, k) - 1
  /\ its # << >> => its[Len(its)] = EndOf(w, 1)
  /\ its = << >> /\ w.refs # << >> => EndOf(w, 1) = 4
  /\ its = << >> /\ w.refs = << >> => w.buf = << >> \/ w.buf[1].of # Bundle

IsWriter(w) == w \in [buf : {w.buf}, refs : {w.refs}, ok : BOOLEAN]

(* The reader is at a packet of the k-th bundle, which ends where the      *)
(* packet around it does, or else where that was cut; what follows are     *)
(* items.                                                                  *)
StackedAt(b, W, n, s, k) ==
  /\ s[k].to = IF k = 1 THEN n ELSE s[k - 1].from + s[k - 1].size
  /\ s[k].from + s[k].size <= s[k].to
  /\ Sound(b, W, APacket(s[k].from, s[k].from + s[k].size, MaxDepth - k, s[k].timetag))
  /\ Sound(b, W, TheItems(s[k].from + s[k].size, IF k = 1 THEN Len(b) ELSE s[k].to,
                          MaxDepth - k, s[k].timetag))

FrameOf(V) == [from : Nat, size : Nat, to : Nat, timetag : V]

Stacked(b, W, n, s) ==
  /\ \E V : s \in Seq(FrameOf(V))
  /\ \A k \in 1..Len(s) : StackedAt(b, W, n, s, k)

AllSent == APacket(0, Len(buf), MaxDepth, Immediate)

PacketInv ==
  /\ TypeOK
  /\ IsWriter(writer) /\ IsWords(buf) /\ items \in Seq(Nat) /\ Logged(written)
  /\ pc = "write" => Framed(writer, Begun(written)) /\ ItemsInside(writer, items)
  /\ pc \in {"write", "failed"} => stack = << >> /\ end = 0
  /\ pc \notin {"write", "failed"} =>
       /\ writer.refs = << >> /\ ItemsInside(writer, items)
       /\ Sound(buf, Begun(written), AllSent)
  /\ Stacked(buf, Begun(written), end, stack)
-----------------------------------------------------------------------------
(* Writing *)

LEMMA LengthOfWords == ASSUME NEW b, IsWords(b) PROVE Len(b) \in Nat
<1>1. PICK V : b \in Seq(WordsOf(V))
  BY DEF IsWords
<1> QED BY <1>1

LEMMA NothingStacked == ASSUME NEW b, NEW W, NEW n PROVE Stacked(b, W, n, << >>)
<1>1. << >> \in Seq(FrameOf({})) /\ Len(<< >>) = 0
  OBVIOUS
<1> QED BY <1>1 DEF Stacked

(* The log                                                                 *)
LEMMA LoggedFacts ==
  ASSUME NEW ws, Logged(ws)
  PROVE  /\ Len(ws) \in Nat /\ DOMAIN ws = 1..Len(ws)
         /\ \A k \in 1..Len(ws) : ws[k].message \in Messages /\ ws[k].at \in Nat
<1>1. PICK V : ws \in Seq(Entry(V))
  BY DEF Logged
<1> DEFINE E == Entry(V)
<1>2. \A e \in E : e.message \in Messages /\ e.at \in Nat
  BY DEF Entry
<1>3. ws \in Seq(E)
  BY <1>1
<1> HIDE DEF E
<1> QED BY <1>2, <1>3

LEMMA LogGrows ==
  ASSUME NEW ws, Logged(ws), NEW m, m.message \in Messages, m.at \in Nat,
         m = [message |-> m.message, timetag |-> m.timetag, at |-> m.at],
         \A l \in Begun(ws) : l.at < m.at
  PROVE  Logged(Append(ws, m)) /\ Begun(Append(ws, m)) = Begun(ws) \cup {m}
<1>1. PICK V : ws \in Seq(Entry(V))
  BY DEF Logged
<1> DEFINE E == Entry(V \cup {m.timetag})
           vs == Append(ws, m)
           n == Len(ws)
<1>2. ws \in Seq(E)
  <2>1. Entry(V) \subseteq E
    BY DEF Entry
  <2> HIDE DEF E
  <2> QED BY <1>1, <2>1, WiderSeq
<1>3. m \in E
  <2> DEFINE e == [message |-> m.message, timetag |-> m.timetag, at |-> m.at]
  <2>1. e \in E
    BY DEF Entry
  <2> HIDE DEF e, E
  <2>2. m = e
    BY DEF e
  <2> QED BY <2>1, <2>2
<1> HIDE DEF E
<1>4. /\ vs \in Seq(E) /\ Len(vs) = n + 1 /\ n \in Nat /\ vs[n + 1] = m
      /\ \A i \in 1..n : vs[i] = ws[i]
  BY <1>2, <1>3, AppendFacts
<1> HIDE DEF vs
<1>5. ASSUME NEW i \in 1..Len(vs), NEW j \in 1..Len(vs), i < j PROVE vs[i].at < vs[j].at
  <2>1. i \in 1..n
    BY <1>4, <1>5
  <2>2. CASE j = n + 1
    <3>1. ws[i] \in Begun(ws)
      BY <2>1 DEF Begun
    <3> QED BY <1>4, <2>1, <2>2, <3>1
  <2>3. CASE j # n + 1
    <3>1. j \in 1..n
      BY <1>4, <2>3
    <3> QED BY <1>4, <1>5, <2>1, <3>1 DEF Logged
  <2> QED BY <2>2, <2>3
<1>6. Logged(vs)
  BY <1>4, <1>5 DEF Logged, E
<1>7. Begun(vs) = Begun(ws) \cup {m}
  <2>1. 1..Len(vs) = (1..n) \cup {n + 1}
    BY <1>4
  <2> QED BY <1>4, <2>1 DEF Begun
<1> QED BY <1>6, <1>7 DEF vs

(* Words are added, if they fit.                                           *)
LEMMA AddFacts ==
  ASSUME NEW w, NEW words, IsWriter(w), IsWords(w.buf), IsWords(words), Len(w.buf) < Room
  PROVE  LET v == Add(w, words)
         IN  /\ IsWriter(v) /\ IsWords(v.buf) /\ v.refs = w.refs
             /\ Len(w.buf) <= Len(v.buf) /\ Len(v.buf) < Room
             /\ v.ok => v.buf = w.buf \o words
<1>1. /\ IsWords(w.buf \o words) /\ Len(w.buf) \in Nat /\ Len(words) \in Nat
      /\ Len(w.buf \o words) = Len(w.buf) + Len(words)
  BY Joined
<1>2. CASE Len(w.buf) + Len(words) < Room
  <2>1. Add(w, words) = [w EXCEPT !.buf = w.buf \o words]
    BY <1>2 DEF Add
  <2>2. Add(w, words) = [buf |-> w.buf \o words, refs |-> w.refs, ok |-> w.ok]
    BY <2>1 DEF IsWriter
  <2> QED BY <1>1, <1>2, <2>2 DEF IsWriter
<1>3. CASE ~(Len(w.buf) + Len(words) < Room)
  <2>1. Add(w, words) = [w EXCEPT !.ok = FALSE]
    BY <1>3 DEF Add
  <2>2. Add(w, words) = [buf |-> w.buf, refs |-> w.refs, ok |-> FALSE]
    BY <2>1 DEF IsWriter
  <2> QED BY <1>1, <2>2 DEF IsWriter
<1> QED BY <1>2, <1>3

(* A frame is opened, with the words it begins with if they fit.           *)
LEMMA PushFacts ==
  ASSUME NEW w, NEW words, IsWriter(w), IsWords(w.buf), IsWords(words), Len(w.buf) < Room
  PROVE  LET v == push(w, words)
         IN  /\ IsWriter(v) /\ IsWords(v.buf) /\ v.refs = Append(w.refs, Len(w.buf))
             /\ Len(w.buf) <= Len(v.buf) /\ Len(v.buf) < Room
             /\ v.ok => v.buf = w.buf \o words
<1> DEFINE u == Add(w, words)
<1>1. /\ IsWriter(u) /\ IsWords(u.buf) /\ u.refs = w.refs
      /\ Len(w.buf) <= Len(u.buf) /\ Len(u.buf) < Room
      /\ u.ok => u.buf = w.buf \o words
  BY AddFacts
<1>2. push(w, words) = [u EXCEPT !.refs = Append(u.refs, Len(w.buf))]
  BY DEF push
<1> HIDE DEF u
<1>3. push(w, words) = [buf |-> u.buf, refs |-> Append(w.refs, Len(w.buf)), ok |-> u.ok]
  BY <1>1, <1>2 DEF IsWriter
<1> QED BY <1>1, <1>3 DEF IsWriter

LEMMA EndOfFacts ==
  ASSUME NEW w, NEW W, Framed(w, W)
  PROVE  EndOf(w, 1) \in Nat /\ EndOf(w, 1) <= Len(w.buf)
<1>1. /\ Len(w.refs) \in Nat /\ Len(w.buf) \in Nat
      /\ \A l \in 1..Len(w.refs) : w.refs[l] \in Nat
  BY Places
<1>2. \A l \in 1..Len(w.refs) : w.refs[l] < Len(w.buf)
  BY DEF Framed, RefsInOrder
<1>3. 1 < Len(w.refs) => 1 + 1 \in 1..Len(w.refs)
  BY <1>1
<1> QED BY <1>1, <1>2, <1>3 DEF EndOf

(* What any of the writer's functions has to leave behind                  *)
LEMMA WriterStep ==
  ASSUME PacketInv, NEW v, Writes(v), IsWriter(v), IsWords(v.buf), Len(v.buf) < Room,
         items' \in Seq(Nat), Logged(written'),
         v.ok => Framed(v, Begun(written')) /\ ItemsInside(v, items'),
         ~v.ok => \A k \in 1..Len(items') : items'[k] <= Len(v.buf)
  PROVE  PacketInv'
<1>1. /\ pc = "write" /\ writer' = v /\ pc' = (IF v.ok THEN "write" ELSE "failed")
      /\ UNCHANGED <<consumer, end, stack, calling>>
  BY DEF Writes
<1>2. buf' = v.buf
  BY <1>1 DEF buf
<1>3. stack = << >> /\ end = 0 /\ stack' = << >> /\ end' = 0
  BY <1>1 DEF PacketInv
<1>4. Len(v.buf) \in Nat
  BY LengthOfWords
<1>5. \A k \in 1..Len(items') : items'[k] <= Len(v.buf)
  <2> SUFFICES ASSUME v.ok, NEW k \in 1..Len(items') PROVE items'[k] <= Len(v.buf)
    OBVIOUS
  <2>1. Framed(v, Begun(written')) /\ items'[k] <= EndOf(v, 1) /\ items'[k] \in Nat
    BY DEF ItemsInside
  <2>2. EndOf(v, 1) <= Len(v.buf) /\ EndOf(v, 1) \in Nat
    BY <2>1, EndOfFacts
  <2> QED BY <1>4, <2>1, <2>2
<1>6. TypeOK'
  <2>1. pc' \in {"write", "failed", "read"} \cup Ended
    BY <1>1
  <2>2. consumer' \in {"app", "forge"} /\ calling' \in BOOLEAN
    BY <1>1 DEF PacketInv, TypeOK
  <2>3. end' \in 0..Len(v.buf)
    BY <1>3, <1>4
  <2>4. Len(stack') <= MaxDepth
    BY <1>3, RoomAssumption
  <2> QED BY <1>2, <1>5, <2>1, <2>2, <2>3, <2>4 DEF TypeOK
<1>7. Stacked(buf', Begun(written'), end', stack')
  BY <1>3, NothingStacked
<1>8. pc' = "write" => v.ok
  BY <1>1
<1>9. pc' \in {"write", "failed"}
  BY <1>1
<1> QED BY <1>1, <1>2, <1>3, <1>6, <1>7, <1>8, <1>9 DEF PacketInv

(* While nothing is closed, items stay where they are.                     *)
LEMMA ItemsStay ==
  ASSUME NEW w, NEW v, NEW its \in Seq(Nat), ItemsInside(w, its),
         EndOf(v, 1) = EndOf(w, 1), EndOf(w, 1) \in Nat,
         \A i \in 1..EndOf(w, 1) : v.buf[i] = w.buf[i],
         its = << >> => w.refs # << >> /\ v.refs # << >>
  PROVE  ItemsInside(v, its)
<1>1. ASSUME NEW k \in 1..Len(its)
      PROVE  v.buf[StartOf(its, k) + 1].of = its[k] - StartOf(its, k) - 1
  <2>1. /\ its[k] \in Nat /\ 4 < its[k] /\ its[k] <= EndOf(w, 1)
        /\ w.buf[StartOf(its, k) + 1].of = its[k] - StartOf(its, k) - 1
    BY DEF ItemsInside
  <2>2. StartOf(its, k) \in Nat /\ StartOf(its, k) < its[k]
    <3>1. CASE k = 1
      BY <2>1, <3>1 DEF StartOf
    <3>2. CASE k # 1
      <4>1. k - 1 \in 1..Len(its) /\ k - 1 < k
        BY <3>2
      <4> QED BY <3>2, <4>1 DEF StartOf, ItemsInside
    <3> QED BY <3>1, <3>2
  <2>3. StartOf(its, k) + 1 \in 1..EndOf(w, 1)
    BY <2>1, <2>2
  <2> QED BY <2>1, <2>3
<1> QED BY <1>1 DEF ItemsInside

(* Before anything is written there are no items.                          *)
LEMMA NoItemsYet ==
  ASSUME NEW w, NEW W, Framed(w, W), Fresh(w), w.refs = << >>,
         NEW its \in Seq(Nat), ItemsInside(w, its)
  PROVE  its = << >> /\ Len(w.buf) = 0
<1>1. w.buf = << >> /\ Len(w.refs) = 0
  BY DEF Fresh
<1>2. EndOf(w, 1) = 0
  BY <1>1 DEF EndOf
<1>3. ASSUME its # << >> PROVE FALSE
  <2>1. 1 \in 1..Len(its)
    BY <1>3
  <2>2. 4 < its[1] /\ its[1] <= 0 /\ its[1] \in Nat
    BY <1>2, <2>1 DEF ItemsInside
  <2> QED BY <2>2
<1> QED BY <1>1, <1>3

LEMMA WritingFacts ==
  ASSUME PacketInv, pc = "write"
  PROVE  /\ Framed(writer, Begun(written)) /\ ItemsInside(writer, items) /\ IsWriter(writer)
         /\ IsWords(writer.buf) /\ Len(writer.buf) < Room /\ items \in Seq(Nat)
         /\ \A k \in 1..Len(items) : items[k] \in Nat /\ items[k] <= Len(writer.buf)
         /\ Logged(written)
  BY DEF PacketInv, TypeOK, buf

(* Items are kept also if nothing more fits.                               *)
LEMMA ItemsBefore ==
  ASSUME NEW w, NEW v, NEW its \in Seq(Nat), IsWords(w.buf), IsWords(v.buf),
         \A k \in 1..Len(its) : its[k] <= Len(w.buf), Len(w.buf) <= Len(v.buf)
  PROVE  \A k \in 1..Len(its) : its[k] <= Len(v.buf)
<1>1. Len(w.buf) \in Nat /\ Len(v.buf) \in Nat
  BY LengthOfWords
<1> SUFFICES ASSUME NEW k \in 1..Len(its) PROVE its[k] <= Len(v.buf)
  OBVIOUS
<1>2. its[k] \in Nat /\ its[k] <= Len(w.buf)
  OBVIOUS
<1> QED BY <1>1, <1>2

LEMMA AddMessageInv ==
  ASSUME PacketInv, NEW message \in Messages, AddMessage(message)
  PROVE  PacketInv'
<1> DEFINE words == MessageWords(message)
           v == Add(writer, words)
           W == Begun(written)
           m == [message |-> message, timetag |-> TimetagAround(writer), at |-> Len(writer.buf)]
<1>1. /\ pc = "write" /\ Fresh(writer) /\ Writes(v) /\ items' = items
      /\ written' = Append(written, m)
  BY DEF AddMessage, Writes, buf
<1>2. /\ Framed(writer, W) /\ ItemsInside(writer, items) /\ IsWriter(writer)
      /\ IsWords(writer.buf) /\ Len(writer.buf) < Room /\ items \in Seq(Nat)
      /\ \A k \in 1..Len(items) : items[k] \in Nat /\ items[k] <= Len(writer.buf)
      /\ Logged(written)
  BY <1>1, WritingFacts
<1>3. IsWords(words) /\ Len(words) > 0 /\ words[1].of # Bundle
  BY MessageFacts
<1>4. /\ IsWriter(v) /\ IsWords(v.buf) /\ v.refs = writer.refs
      /\ Len(writer.buf) <= Len(v.buf) /\ Len(v.buf) < Room
      /\ v.ok => v.buf = writer.buf \o words
  <2> HIDE DEF words
  <2> QED BY <1>2, <1>3, AddFacts
<1>m. m.message = message /\ m.timetag = TimetagAround(writer) /\ m.at = Len(writer.buf)
  OBVIOUS
<1>n. m = [message |-> m.message, timetag |-> m.timetag, at |-> m.at]
  OBVIOUS
<1>e. Enters(writer, m, words)
  BY <1>m DEF Enters
<1> HIDE DEF words, v, m
<1>l. Logged(written') /\ Begun(written') = W \cup {m}
  <2>1. Len(writer.buf) \in Nat
    BY <1>2, LengthOfWords
  <2>2. \A l \in W : l.at < m.at
    BY <1>2, <1>m DEF Framed, Within
  <2> QED BY <1>1, <1>2, <1>m, <1>n, <2>1, <2>2, LogGrows
<1>5. ASSUME v.ok PROVE Framed(v, Begun(written')) /\ ItemsInside(v, items)
  <2>1. Framed(v, W \cup {m})
    BY <1>1, <1>2, <1>4, <1>5, <1>e, FramedMessage
  <2>j. /\ \A i \in 1..Len(writer.buf) : v.buf[i] = writer.buf[i]
        /\ \A i \in 1..Len(words) : v.buf[Len(writer.buf) + i] = words[i]
    <3>1. /\ \A i \in 1..Len(writer.buf) : (writer.buf \o words)[i] = writer.buf[i]
          /\ \A i \in 1..Len(words) : (writer.buf \o words)[Len(writer.buf) + i] = words[i]
      BY <1>2, <1>3, Joined
    <3> QED BY <1>4, <1>5, <3>1
  <2>2. CASE writer.refs = << >>
    <3>1. items = << >> /\ Len(writer.buf) = 0
      BY <1>1, <1>2, <2>2, NoItemsYet
    <3>2. v.buf[1] = words[1]
      <4>1. Len(words) \in Nat
        BY <1>3, LengthOfWords
      <4>2. 1 \in 1..Len(words) /\ Len(writer.buf) + 1 = 1
        BY <1>3, <3>1, <4>1
      <4> QED BY <2>j, <4>2
    <3> QED BY <1>3, <1>4, <1>l, <2>1, <2>2, <3>1, <3>2 DEF ItemsInside
  <2>3. CASE writer.refs # << >>
    <3>1. EndOf(v, 1) = EndOf(writer, 1)
      <4>1. PICK j \in 0..MaxDepth : Len(writer.refs) = 2 * j
        BY <1>1, <1>2, FreshFacts
      <4>2. 1 < Len(writer.refs)
        <5>1. Len(writer.refs) # 0 /\ MaxDepth \in Nat
          BY <1>2, <2>3, Places
        <5> QED BY <4>1, <5>1
      <4> QED BY <1>4, <4>2 DEF EndOf
    <3>2. EndOf(writer, 1) \in Nat /\ EndOf(writer, 1) <= Len(writer.buf)
      BY <1>2, EndOfFacts
    <3>3. Len(writer.buf) \in Nat
      BY <1>2, LengthOfWords
    <3>4. \A i \in 1..EndOf(writer, 1) : v.buf[i] = writer.buf[i]
      BY <2>j, <3>2, <3>3
    <3>5. v.refs # << >>
      BY <1>4, <2>3
    <3> QED BY <1>2, <1>l, <2>1, <2>3, <3>1, <3>2, <3>4, <3>5, ItemsStay
  <2> QED BY <2>2, <2>3
<1>6. \A k \in 1..Len(items) : items[k] <= Len(v.buf)
  BY <1>2, <1>4, ItemsBefore
<1> QED BY <1>1, <1>2, <1>4, <1>5, <1>6, <1>l, WriterStep

LEMMA AppendedSome ==
  ASSUME NEW U, NEW s \in Seq(U), NEW u \in U PROVE Append(s, u) # << >>
  OBVIOUS

LEMMA PushedItems ==
  ASSUME NEW w, NEW v, NEW W, NEW its \in Seq(Nat),
         Framed(w, W), Framed(v, W), ItemsInside(w, its), w.refs # << >>,
         v.refs = Append(w.refs, Len(w.buf)), \A i \in 1..Len(w.buf) : v.buf[i] = w.buf[i]
  PROVE  ItemsInside(v, its)
<1>1. /\ Len(w.refs) \in Nat /\ Len(w.buf) \in Nat /\ Len(v.buf) \in Nat
      /\ w.refs \in Seq(Nat) /\ Len(w.refs) # 0
  BY Places DEF Framed
<1>2. /\ Len(v.refs) = Len(w.refs) + 1 /\ v.refs[Len(w.refs) + 1] = Len(w.buf)
      /\ \A k \in 1..Len(w.refs) : v.refs[k] = w.refs[k]
  BY <1>1, AppendFacts
<1>3. EndOf(w, 1) = EndOf(v, 1)
  <2>1. CASE Len(w.refs) = 1
    BY <1>1, <1>2, <2>1 DEF EndOf
  <2>2. CASE Len(w.refs) # 1
    <3>0. \A n \in Nat : n # 0 /\ n # 1 => 1 + 1 \in 1..n /\ 1 < n /\ 1 < n + 1
      OBVIOUS
    <3>1. 1 + 1 \in 1..Len(w.refs) /\ 1 < Len(w.refs) /\ 1 < Len(v.refs)
      BY <1>1, <1>2, <2>2, <3>0
    <3> QED BY <1>2, <3>1 DEF EndOf
  <2> QED BY <2>1, <2>2
<1>4. EndOf(w, 1) \in Nat /\ EndOf(w, 1) <= Len(w.buf)
  BY EndOfFacts
<1>5. \A i \in 1..EndOf(w, 1) : v.buf[i] = w.buf[i]
  BY <1>1, <1>4
<1>6. v.refs # << >>
  BY <1>1, AppendedSome
<1> QED BY <1>3, <1>4, <1>5, <1>6, ItemsStay

LEMMA PushBundleInv ==
  ASSUME PacketInv, NEW timetag \in Timetags, PushBundle(timetag)
  PROVE  PacketInv'
<1> DEFINE words == Words(2, Bundle) \o Words(2, timetag)
           v == push(writer, words)
           W == Begun(written)
<1>1. /\ pc = "write" /\ Fresh(writer) /\ Len(writer.refs) < 2 * MaxDepth
      /\ Writes(v) /\ items' = items /\ written' = written
  BY DEF PushBundle, push_bundle, Writes
<1>2. /\ Framed(writer, W) /\ ItemsInside(writer, items) /\ IsWriter(writer)
      /\ IsWords(writer.buf) /\ Len(writer.buf) < Room /\ items \in Seq(Nat)
      /\ \A k \in 1..Len(items) : items[k] \in Nat /\ items[k] <= Len(writer.buf)
      /\ Logged(written)
  BY <1>1, WritingFacts
<1>3. IsWords(words) /\ Len(words) = 4
  BY HeadFacts
<1>h. IsHead(words, timetag)
  BY DEF IsHead
<1>4. /\ IsWriter(v) /\ IsWords(v.buf) /\ v.refs = Append(writer.refs, Len(writer.buf))
      /\ Len(writer.buf) <= Len(v.buf) /\ Len(v.buf) < Room
      /\ v.ok => v.buf = writer.buf \o words
  <2> HIDE DEF words
  <2> QED BY <1>2, <1>3, PushFacts
<1> HIDE DEF words, v
<1>5. ASSUME v.ok PROVE Framed(v, W) /\ ItemsInside(v, items)
  <2>1. Framed(v, W)
    BY <1>1, <1>2, <1>4, <1>5, <1>h, FramedPushBundle
  <2>2. /\ Len(v.buf) = Len(writer.buf) + 4
        /\ \A i \in 1..Len(writer.buf) : v.buf[i] = writer.buf[i]
    <3>1. /\ Len(writer.buf \o words) = Len(writer.buf) + Len(words)
          /\ \A i \in 1..Len(writer.buf) : (writer.buf \o words)[i] = writer.buf[i]
      <4> DEFINE b == writer.buf
      <4>1. IsWords(b) /\ IsWords(words)
        BY <1>2, <1>3
      <4> HIDE DEF b
      <4>2. Len(b \o words) = Len(b) + Len(words) /\ \A i \in 1..Len(b) : (b \o words)[i] = b[i]
        BY <4>1, Joined
      <4> QED BY <4>2 DEF b
    <3> QED BY <1>3, <1>4, <1>5, <3>1
  <2>3. CASE writer.refs = << >>
    <3>1. items = << >> /\ Len(writer.buf) = 0
      BY <1>1, <1>2, <2>3, NoItemsYet
    <3>2. v.refs = <<0>>
      BY <1>4, <2>3, <3>1
    <3>3. Len(v.refs) = 1 /\ v.refs # << >>
      BY <3>2
    <3>4. EndOf(v, 1) = 4
      BY <2>2, <3>1, <3>3 DEF EndOf
    <3> QED BY <2>1, <3>1, <3>3, <3>4 DEF ItemsInside
  <2>4. CASE writer.refs # << >>
    BY <1>2, <1>4, <2>1, <2>2, <2>4, PushedItems
  <2> QED BY <2>3, <2>4
<1>6. \A k \in 1..Len(items) : items[k] <= Len(v.buf)
  BY <1>2, <1>4, ItemsBefore
<1> QED BY <1>1, <1>2, <1>4, <1>5, <1>6, WriterStep

LEMMA PushItemInv ==
  ASSUME PacketInv, PushItem
  PROVE  PacketInv'
<1> DEFINE words == Words(1, 0)
           v == push(writer, words)
           W == Begun(written)
<1>1. /\ pc = "write" /\ InBundle(writer) /\ Writes(v) /\ items' = items
      /\ written' = written
  BY DEF PushItem, push_item, Writes
<1>2. /\ Framed(writer, W) /\ ItemsInside(writer, items) /\ IsWriter(writer)
      /\ IsWords(writer.buf) /\ Len(writer.buf) < Room /\ items \in Seq(Nat)
      /\ \A k \in 1..Len(items) : items[k] \in Nat /\ items[k] <= Len(writer.buf)
      /\ Logged(written)
  BY <1>1, WritingFacts
<1>3. IsWords(words) /\ Len(words) = 1
  <2>1. words \in Seq(WordsOf({0})) /\ Len(words) = 1
    BY WordsFacts
  <2> QED BY <2>1 DEF IsWords
<1>h. IsSize(words)
  BY DEF IsSize
<1>4. /\ IsWriter(v) /\ IsWords(v.buf) /\ v.refs = Append(writer.refs, Len(writer.buf))
      /\ Len(writer.buf) <= Len(v.buf) /\ Len(v.buf) < Room
      /\ v.ok => v.buf = writer.buf \o words
  <2> HIDE DEF words
  <2> QED BY <1>2, <1>3, PushFacts
<1> HIDE DEF words, v
<1>5. ASSUME v.ok PROVE Framed(v, W) /\ ItemsInside(v, items)
  <2>1. Framed(v, W)
    BY <1>1, <1>2, <1>4, <1>5, <1>h, FramedPushItem
  <2>2. \A i \in 1..Len(writer.buf) : v.buf[i] = writer.buf[i]
    <3>1. \A i \in 1..Len(writer.buf) : (writer.buf \o words)[i] = writer.buf[i]
      BY <1>2, <1>3, Joined
    <3> QED BY <1>4, <1>5, <3>1
  <2>3. writer.refs # << >>
    <3>1. PICK j \in 1..MaxDepth : Len(writer.refs) = 2 * j - 1
      BY <1>1, <1>2, InBundleFacts
    <3>2. Len(writer.refs) # 0
      BY <3>1
    <3> QED BY <3>2
  <2> QED BY <1>2, <1>4, <2>1, <2>2, <2>3, PushedItems
<1>6. \A k \in 1..Len(items) : items[k] <= Len(v.buf)
  BY <1>2, <1>4, ItemsBefore
<1> QED BY <1>1, <1>2, <1>4, <1>5, <1>6, WriterStep

(* What is left of a writer by a pop that dropped a frame, filled it in or *)
(* closed it                                                               *)
Dropped(w, b, r) == [[w EXCEPT !.buf = b, !.refs = r, !.ok = FALSE] EXCEPT !.ok = TRUE]
Completed(w, b, r) == [[w EXCEPT !.buf = b, !.refs = r] EXCEPT !.ok = TRUE]
ClosedTo(w, r) == [[w EXCEPT !.refs = r] EXCEPT !.ok = TRUE]

LEMMA WriterChanged ==
  ASSUME NEW w, IsWriter(w), NEW b, NEW r
  PROVE  /\ IsWriter(Dropped(w, b, r)) /\ Dropped(w, b, r).buf = b
         /\ Dropped(w, b, r).refs = r /\ Dropped(w, b, r).ok
         /\ IsWriter(Completed(w, b, r)) /\ Completed(w, b, r).buf = b
         /\ Completed(w, b, r).refs = r /\ Completed(w, b, r).ok
         /\ IsWriter(ClosedTo(w, r)) /\ ClosedTo(w, r).buf = w.buf
         /\ ClosedTo(w, r).refs = r /\ ClosedTo(w, r).ok
<1> DEFINE B == {w.buf, b}
           R == {w.refs, r}
<1>1. w \in [buf : B, refs : R, ok : BOOLEAN] /\ b \in B /\ r \in R
  BY DEF IsWriter
<1> HIDE DEF B, R
<1>2. /\ IsWriter(Dropped(w, b, r)) /\ Dropped(w, b, r).buf = b
      /\ Dropped(w, b, r).refs = r /\ Dropped(w, b, r).ok
  BY <1>1 DEF IsWriter, Dropped
<1>3. /\ IsWriter(Completed(w, b, r)) /\ Completed(w, b, r).buf = b
      /\ Completed(w, b, r).refs = r /\ Completed(w, b, r).ok
  BY <1>1 DEF IsWriter, Completed
<1>4. /\ IsWriter(ClosedTo(w, r)) /\ ClosedTo(w, r).buf = w.buf
      /\ ClosedTo(w, r).refs = r /\ ClosedTo(w, r).ok
  BY <1>1 DEF IsWriter, ClosedTo
<1> QED BY <1>2, <1>3, <1>4

LEMMA PopItemFacts ==
  ASSUME NEW w, IsWriter(w)
  PROVE  LET v == [pop_item(w) EXCEPT !.ok = TRUE]
             size == Len(w.buf) - Last(w.refs) - 1
         IN  /\ IsWriter(v) /\ v.refs = Front(w.refs) /\ v.ok
             /\ size <= 0 => v.buf = SubSeq(w.buf, 1, Last(w.refs))
             /\ ~(size <= 0) => v.buf = Filled(w.buf, Last(w.refs) + 1, size)
<1> DEFINE size == Len(w.buf) - Last(w.refs) - 1
           v == [pop_item(w) EXCEPT !.ok = TRUE]
<1>1. CASE size <= 0
  <2> DEFINE b == SubSeq(w.buf, 1, Last(w.refs))
             r == Front(w.refs)
  <2>1. v = Dropped(w, b, r)
    BY <1>1 DEF pop_item, Undo, Dropped
  <2> HIDE DEF v, b, r
  <2>2. IsWriter(v) /\ v.buf = b /\ v.refs = r /\ v.ok
    BY <2>1, WriterChanged
  <2> QED BY <1>1, <2>2 DEF v, b, r
<1>2. CASE ~(size <= 0)
  <2> DEFINE b == Filled(w.buf, Last(w.refs) + 1, size)
             r == Front(w.refs)
  <2>1. v = Completed(w, b, r)
    <3>1. pop_item(w) = [w EXCEPT !.buf[Last(w.refs) + 1].of = size, !.refs = Front(w.refs)]
      BY <1>2 DEF pop_item
    <3> HIDE DEF size
    <3> QED BY <3>1 DEF Filled, Completed
  <2> HIDE DEF v, b, r
  <2>2. IsWriter(v) /\ v.buf = b /\ v.refs = r /\ v.ok
    BY <2>1, WriterChanged
  <2> QED BY <1>2, <2>2 DEF v, b, r
<1> QED BY <1>1, <1>2

LEMMA PopBundleFacts ==
  ASSUME NEW w, IsWriter(w)
  PROVE  LET v == [pop_bundle(w) EXCEPT !.ok = TRUE]
             size == Len(w.buf) - Last(w.refs) - 4
         IN  /\ IsWriter(v) /\ v.refs = Front(w.refs) /\ v.ok
             /\ size <= 0 => v.buf = SubSeq(w.buf, 1, Last(w.refs))
             /\ ~(size <= 0) => v.buf = w.buf
<1> DEFINE size == Len(w.buf) - Last(w.refs) - 4
           v == [pop_bundle(w) EXCEPT !.ok = TRUE]
           r == Front(w.refs)
<1>1. CASE size <= 0
  <2> DEFINE b == SubSeq(w.buf, 1, Last(w.refs))
  <2>1. v = Dropped(w, b, r)
    BY <1>1 DEF pop_bundle, Undo, Dropped
  <2> HIDE DEF v, b, r
  <2>2. IsWriter(v) /\ v.buf = b /\ v.refs = r /\ v.ok
    BY <2>1, WriterChanged
  <2> QED BY <1>1, <2>2 DEF v, b, r
<1>2. CASE ~(size <= 0)
  <2>1. v = ClosedTo(w, r)
    BY <1>2 DEF pop_bundle, ClosedTo
  <2> HIDE DEF v, r
  <2>2. IsWriter(v) /\ v.buf = w.buf /\ v.refs = r /\ v.ok
    BY <2>1, WriterChanged
  <2> QED BY <1>2, <2>2 DEF v, r
<1> QED BY <1>1, <1>2

(* The frame that was closed is the innermost; if it was neither of the    *)
(* outermost bundle nor its item, nothing changes there.                   *)
LEMMA PoppedItems ==
  ASSUME NEW w, NEW v, NEW W, NEW its \in Seq(Nat), Framed(w, W), ItemsInside(w, its),
         v.refs = Front(w.refs), 2 < Len(w.refs),
         \A i \in 1..Last(w.refs) : v.buf[i] = w.buf[i]
  PROVE  ItemsInside(v, its)
<1>1. Len(w.refs) \in Nat /\ Len(w.refs) > 0 /\ w.refs \in Seq(Nat)
  BY Places DEF Framed
<1>2. /\ Len(v.refs) = Len(w.refs) - 1 /\ Last(w.refs) = w.refs[Len(w.refs)]
      /\ \A k \in 1..(Len(w.refs) - 1) : v.refs[k] = w.refs[k]
  BY <1>1, FrontFacts
<1>3. /\ 1 + 1 \in 1..(Len(w.refs) - 1) /\ 1 < Len(v.refs) /\ 1 < Len(w.refs)
      /\ 1 + 1 \in 1..Len(w.refs) /\ Len(w.refs) \in 1..Len(w.refs) /\ 1 + 1 < Len(w.refs)
  BY <1>1, <1>2
<1>4. EndOf(w, 1) = EndOf(v, 1) /\ EndOf(w, 1) = w.refs[1 + 1]
  BY <1>2, <1>3 DEF EndOf
<1>5. w.refs[1 + 1] < w.refs[Len(w.refs)]
  BY <1>3 DEF Framed, RefsInOrder
<1>6. w.refs[1 + 1] \in Nat /\ w.refs[Len(w.refs)] \in Nat
  BY <1>1, <1>3
<1>7. \A i \in 1..EndOf(w, 1) : v.buf[i] = w.buf[i]
  <2> DEFINE a == w.refs[1 + 1]
             b == w.refs[Len(w.refs)]
  <2>1. a \in Nat /\ b \in Nat /\ a < b
    BY <1>5, <1>6
  <2> HIDE DEF a, b
  <2>2. \A i \in 1..a : i \in 1..b
    BY <2>1
  <2> QED BY <1>2, <1>4, <2>2 DEF a, b
<1>8. v.refs # << >> /\ w.refs # << >>
  BY <1>1, <1>2, <1>3
<1> QED BY <1>4, <1>6, <1>7, <1>8, ItemsStay

(* The item of the outermost bundle is complete.                           *)
LEMMA ItemAdded ==
  ASSUME NEW w, NEW v, NEW its \in Seq(Nat), ItemsInside(w, its), NEW m \in Nat, NEW n \in Nat,
         w.refs # << >>, EndOf(w, 1) = m, EndOf(v, 1) = n, 4 <= m, m + 1 < n,
         v.refs # << >>,
         \A i \in 1..m : v.buf[i] = w.buf[i], v.buf[m + 1].of = n - m - 1
  PROVE  ItemsInside(v, Append(its, n))
<1> DEFINE l == Len(its)
           new == Append(its, n)
<1>1. /\ Len(new) = l + 1 /\ l \in Nat /\ new[l + 1] = n
      /\ \A k \in 1..l : new[k] = its[k]
  BY AppendFacts
<1> HIDE DEF new
<1>2. \A k \in 1..l : StartOf(new, k) = StartOf(its, k)
  <2> SUFFICES ASSUME NEW k \in 1..l PROVE StartOf(new, k) = StartOf(its, k)
    OBVIOUS
  <2>1. k # 1 => k - 1 \in 1..l
    OBVIOUS
  <2> QED BY <1>1, <2>1 DEF StartOf
<1>3. StartOf(new, l + 1) = m
  <2>1. CASE its = << >>
    <3>1. l = 0 /\ m = 4
      BY <2>1 DEF ItemsInside
    <3> QED BY <3>1 DEF StartOf
  <2>2. CASE its # << >>
    <3>1. l \in 1..l /\ its[l] = m /\ l + 1 # 1 /\ (l + 1) - 1 = l
      BY <2>2 DEF ItemsInside
    <3> QED BY <1>1, <3>1 DEF StartOf
  <2> QED BY <2>1, <2>2
<1>4. ASSUME NEW k \in 1..l
      PROVE  /\ 4 < its[k] /\ its[k] <= m /\ its[k] \in Nat
             /\ \A j \in 1..l : j < k => its[j] < its[k]
             /\ v.buf[StartOf(its, k) + 1].of = its[k] - StartOf(its, k) - 1
  <2>1. /\ its[k] \in Nat /\ 4 < its[k] /\ its[k] <= m
        /\ \A j \in 1..l : j < k => its[j] < its[k]
        /\ w.buf[StartOf(its, k) + 1].of = its[k] - StartOf(its, k) - 1
    BY DEF ItemsInside
  <2>2. StartOf(its, k) \in Nat /\ StartOf(its, k) < its[k]
    <3>1. CASE k = 1
      BY <2>1, <3>1 DEF StartOf
    <3>2. CASE k # 1
      <4>1. k - 1 \in 1..l /\ k - 1 < k
        BY <3>2
      <4>2. its[k - 1] \in Nat
        BY <4>1
      <4> QED BY <2>1, <3>2, <4>1, <4>2 DEF StartOf
    <3> QED BY <3>1, <3>2
  <2>3. StartOf(its, k) + 1 \in 1..m
    <3> DEFINE f == StartOf(its, k)
               g == its[k]
    <3>1. f \in Nat /\ f < g /\ g \in Nat /\ g <= m
      BY <2>1, <2>2
    <3> HIDE DEF f, g
    <3>2. f + 1 \in 1..m
      BY <3>1
    <3> QED BY <3>2 DEF f
  <2> QED BY <2>1, <2>3
<1>5. ASSUME NEW k \in 1..Len(new)
      PROVE  /\ 4 < new[k] /\ new[k] <= n
             /\ \A j \in 1..Len(new) : j < k => new[j] < new[k]
             /\ v.buf[StartOf(new, k) + 1].of = new[k] - StartOf(new, k) - 1
  <2>1. CASE k = l + 1
    <3>1. \A j \in 1..Len(new) : j < k => new[j] < n
      <4> SUFFICES ASSUME NEW j \in 1..Len(new), j < k PROVE new[j] < n
        OBVIOUS
      <4>1. j \in 1..l
        BY <1>1, <2>1
      <4>2. its[j] \in Nat /\ its[j] <= m /\ new[j] = its[j]
        BY <1>1, <1>4, <4>1
      <4> QED BY <4>2
    <3> QED BY <1>1, <1>3, <2>1, <3>1
  <2>2. CASE k # l + 1
    <3>1. k \in 1..l
      <4> HIDE DEF l
      <4> QED BY SMTT(20), <1>1, <2>2
    <3>2. \A j \in 1..Len(new) : j < k => j \in 1..l
      BY <1>1, <3>1
    <3>3. new[k] = its[k] /\ StartOf(new, k) = StartOf(its, k)
      BY <1>1, <1>2, <3>1
    <3>4. \A j \in 1..Len(new) : j < k => new[j] < new[k]
      BY <1>1, <1>4, <3>1, <3>2, <3>3
    <3>5. new[k] <= n
      BY <1>4, <3>1, <3>3
    <3> QED BY <1>4, <3>1, <3>3, <3>4, <3>5
  <2> QED BY <2>1, <2>2
<1>6. new # << >> /\ new[Len(new)] = n
  BY <1>1
<1>7. ItemsInside(v, new)
  BY <1>5, <1>6 DEF ItemsInside
<1> QED BY <1>7 DEF new

LEMMA NoWords == ASSUME NEW b, IsWords(b), Len(b) = 0 PROVE b = << >>
<1>1. PICK V : b \in Seq(WordsOf(V))
  BY DEF IsWords
<1> DEFINE W == WordsOf(V)
<1>2. b \in Seq(W)
  BY <1>1
<1> HIDE DEF W
<1> QED BY <1>2

LEMMA PopItemInv ==
  ASSUME PacketInv, PopItem
  PROVE  PacketInv'
<1> DEFINE w == writer
           v == [pop_item(w) EXCEPT !.ok = TRUE]
           m == Last(w.refs)
           W == Begun(written)
           size == Len(w.buf) - m - 1
<1>1. /\ pc = "write" /\ InItem(w) /\ Writes(v)
      /\ items' = IF Len(w.refs) = 2 /\ ~Fresh(w) THEN Append(items, Len(w.buf)) ELSE items
      /\ written' = written
  BY DEF PopItem, Writes, buf
<1>2. /\ Framed(w, W) /\ ItemsInside(w, items) /\ IsWriter(w)
      /\ IsWords(w.buf) /\ Len(w.buf) < Room /\ items \in Seq(Nat)
      /\ \A k \in 1..Len(items) : items[k] \in Nat /\ items[k] <= Len(w.buf)
      /\ Logged(written)
  BY <1>1, WritingFacts
<1>3. /\ IsWriter(v) /\ v.refs = Front(w.refs) /\ v.ok
      /\ size <= 0 => v.buf = SubSeq(w.buf, 1, m)
      /\ ~(size <= 0) => v.buf = Filled(w.buf, m + 1, size)
  BY <1>1, <1>2, PopItemFacts
<1> HIDE DEF v, w
<1>4. PICK j \in 1..MaxDepth : Len(w.refs) = 2 * j
  BY <1>1, <1>2, InItemFacts
<1>5. /\ Len(w.refs) \in Nat /\ Len(w.buf) \in Nat /\ Len(w.refs) > 0 /\ MaxDepth \in Nat
      /\ m = w.refs[Len(w.refs)] /\ m \in Nat /\ m < Len(w.buf) /\ size \in Int
      /\ w.refs \in Seq(Nat)
  <2>1. Len(w.refs) \in Nat /\ Len(w.buf) \in Nat /\ MaxDepth \in Nat /\ w.refs \in Seq(Nat)
    BY <1>2, Places DEF Framed
  <2>2. Len(w.refs) > 0
    BY <2>1, <1>4
  <2>3. m = w.refs[Len(w.refs)] /\ m \in Nat
    BY <2>1, <2>2, FrontFacts
  <2>4. m < Len(w.buf)
    <3>1. Len(w.refs) \in 1..Len(w.refs)
      BY <2>1, <2>2
    <3> QED BY <1>2, <2>3, <3>1 DEF Framed, RefsInOrder
  <2> QED BY <2>1, <2>2, <2>3, <2>4
<1>6. size <= 0 => Fresh(w)
  <2>1. size <= 0 => Len(w.buf) = m + 1
    BY <1>5
  <2>2. w.refs # << >>
    BY <1>5
  <2> QED BY <1>1, <2>1, <2>2 DEF Fresh
<1>7. Framed(v, W) /\ Len(v.buf) <= Len(w.buf) /\ Len(v.buf) \in Nat
      /\ (size <= 0 => Len(v.buf) = m) /\ (~(size <= 0) => Len(v.buf) = Len(w.buf))
  <2>1. CASE size <= 0
    <3>1. Framed(v, W)
      BY <1>1, <1>2, <1>3, <2>1, FramedUndoItem
    <3>2. Len(SubSeq(w.buf, 1, m)) = m
      <4>1. m <= Len(w.buf)
        BY <1>5
      <4> HIDE DEF m
      <4> QED BY <1>2, <1>5, <4>1, WordsCut
    <3>3. Len(v.buf) = m
      BY <1>3, <2>1, <3>2
    <3> HIDE DEF m
    <3> QED BY <1>5, <2>1, <3>1, <3>3
  <2>2. CASE ~(size <= 0)
    <3>1. Framed(v, W)
      <4>1. size > 0
        BY <1>5, <2>2
      <4> QED BY <1>1, <1>2, <1>3, <2>2, <4>1, FramedPopItem
    <3>2. m + 1 \in 1..Len(w.buf)
      BY <1>5
    <3>3. Len(Filled(w.buf, m + 1, size)) = Len(w.buf)
      <4> HIDE DEF m, size
      <4> QED BY <1>2, <3>2, WordsFilled
    <3> QED BY <1>3, <1>5, <2>2, <3>1, <3>3
  <2> QED BY <2>1, <2>2
<1>b. \A i \in 1..m : v.buf[i] = w.buf[i]
  <2>1. /\ m <= Len(w.buf) /\ m + 1 \in 1..Len(w.buf)
        /\ \A i \in 1..m : i \in 1..Len(w.buf) /\ i # m + 1
    <3> DEFINE z == Len(w.buf)
    <3>1. m \in Nat /\ z \in Nat /\ m < z
      BY <1>5
    <3> HIDE DEF m, z
    <3>2. m <= z /\ m + 1 \in 1..z /\ \A i \in 1..m : i \in 1..z /\ i # m + 1
      BY <3>1
    <3> QED BY <3>2 DEF z
  <2>2. CASE size <= 0
    <3>1. \A i \in 1..m : SubSeq(w.buf, 1, m)[i] = w.buf[i]
      <4> HIDE DEF m
      <4> QED BY <1>2, <1>5, <2>1, WordsCut
    <3> QED BY <1>3, <2>2, <3>1
  <2>3. CASE ~(size <= 0)
    <3>1. \A i \in 1..m : Filled(w.buf, m + 1, size)[i] = w.buf[i]
      <4> HIDE DEF m, size
      <4> QED BY <1>2, <2>1, WordsFilled
    <3> QED BY <1>3, <2>3, <3>1
  <2> QED BY <2>2, <2>3
<1>s. ~(size <= 0) => v.buf[m + 1].of = size
  <2>1. m + 1 \in 1..Len(w.buf)
    BY <1>5
  <2>2. Filled(w.buf, m + 1, size)[m + 1].of = size
    <3> HIDE DEF m, size
    <3> QED BY <1>2, <2>1, WordsFilled
  <2> QED BY <1>3, <2>2
<1>8. items' \in Seq(Nat)
  BY <1>1, <1>2, <1>5
<1>9. ItemsInside(v, items')
  <2>1. CASE 2 < Len(w.refs)
    <3>1. items' = items
      <4>1. Len(w.refs) # 2
        BY <1>5, <2>1
      <4> QED BY <1>1, <4>1
    <3> QED BY <1>2, <1>3, <1>b, <2>1, <3>1, PoppedItems
  <2>2. CASE Len(w.refs) = 2
    <3>1. Len(v.refs) = 1 /\ v.refs # << >> /\ w.refs # << >>
      <4>1. Len(Front(w.refs)) = Len(w.refs) - 1
        BY <1>5, FrontFacts
      <4>2. Len(v.refs) = 1
        BY <1>3, <2>2, <4>1
      <4> QED BY <2>2, <4>2
    <3>2. EndOf(v, 1) = Len(v.buf) /\ EndOf(w, 1) = m
      BY <1>5, <2>2, <3>1 DEF EndOf
    <3>3. 4 <= m
      <4>1. j = 1
        BY <1>4, <1>5, <2>2
      <4>2. 1 \in 1..MaxDepth /\ 2 * 1 - 1 <= Len(w.refs) /\ 2 * 1 - 1 = 1
        BY <2>2, <4>1
      <4>3. BundleAt(w, W, 1) /\ w.refs[2 * 1 - 1] + 4 <= EndOf(w, 2 * 1 - 1)
        BY <1>2, <4>2, BundleFacts
      <4>4. w.refs[2 * 1 - 1] = 0
        BY <4>3 DEF BundleAt, Starts
      <4>5. 0 + 4 <= EndOf(w, 1)
        BY <4>2, <4>3, <4>4
      <4> HIDE DEF m
      <4> QED BY <3>2, <4>5
    <3>4. CASE Fresh(w)
      <4>1. items' = items /\ Len(w.buf) = m + 1
        BY <1>1, <1>5, <3>4 DEF Fresh
      <4>2. size <= 0
        BY <1>5, <4>1
      <4>3. EndOf(v, 1) = m
        BY <1>7, <3>2, <4>2
      <4> HIDE DEF m, W
      <4> QED BY <1>2, <1>5, <1>b, <3>1, <3>2, <4>1, <4>3, ItemsStay
    <3>5. CASE ~Fresh(w)
      <4>1. items' = Append(items, Len(w.buf)) /\ ~(size <= 0)
        BY <1>1, <1>6, <2>2, <3>5
      <4>2. EndOf(v, 1) = Len(w.buf)
        BY <1>7, <3>2, <4>1
      <4>3. m + 1 < Len(w.buf)
        BY <1>5, <4>1
      <4>4. v.buf[m + 1].of = Len(w.buf) - m - 1
        BY <1>s, <4>1
      <4> HIDE DEF m, W, size
      <4> QED BY <1>2, <1>5, <1>b, <3>1, <3>2, <3>3, <4>1, <4>2, <4>3, <4>4, ItemAdded
    <3> QED BY <3>4, <3>5
  <2>3. Len(w.refs) = 2 \/ 2 < Len(w.refs)
    BY <1>4, <1>5
  <2> QED BY <2>1, <2>2, <2>3
<1>10. IsWords(v.buf)
  BY <1>7 DEF Framed
<1>11. Len(v.buf) < Room
  <2>1. Room \in Nat
    BY RoomAssumption
  <2> QED BY <1>2, <1>5, <1>7, <2>1
<1> QED BY <1>1, <1>2, <1>3, <1>7, <1>8, <1>9, <1>10, <1>11, WriterStep

LEMMA PopBundleInv ==
  ASSUME PacketInv, PopBundle
  PROVE  PacketInv'
<1> DEFINE w == writer
           v == [pop_bundle(w) EXCEPT !.ok = TRUE]
           m == Last(w.refs)
           W == Begun(written)
           size == Len(w.buf) - m - 4
<1>1. pc = "write" /\ InBundle(w) /\ Writes(v) /\ items' = items /\ written' = written
  BY DEF PopBundle, Writes
<1>2. /\ Framed(w, W) /\ ItemsInside(w, items) /\ IsWriter(w)
      /\ IsWords(w.buf) /\ Len(w.buf) < Room /\ items \in Seq(Nat)
      /\ \A k \in 1..Len(items) : items[k] \in Nat /\ items[k] <= Len(w.buf)
      /\ Logged(written)
  BY <1>1, WritingFacts
<1>3. /\ IsWriter(v) /\ v.refs = Front(w.refs) /\ v.ok
      /\ size <= 0 => v.buf = SubSeq(w.buf, 1, m)
      /\ ~(size <= 0) => v.buf = w.buf
  BY <1>2, PopBundleFacts
<1> HIDE DEF v, w
<1>4. PICK j \in 1..MaxDepth : Len(w.refs) = 2 * j - 1
  BY <1>1, <1>2, InBundleFacts
<1>5. /\ Len(w.refs) \in Nat /\ Len(w.buf) \in Nat /\ Len(w.refs) > 0 /\ MaxDepth \in Nat
      /\ m = w.refs[Len(w.refs)] /\ m \in Nat /\ m < Len(w.buf) /\ size \in Int
      /\ w.refs \in Seq(Nat)
  <2>1. Len(w.refs) \in Nat /\ Len(w.buf) \in Nat /\ MaxDepth \in Nat /\ w.refs \in Seq(Nat)
    BY <1>2, Places DEF Framed
  <2>2. Len(w.refs) > 0
    BY <2>1, <1>4
  <2>3. m = w.refs[Len(w.refs)] /\ m \in Nat
    BY <2>1, <2>2, FrontFacts
  <2>4. m < Len(w.buf)
    <3>1. Len(w.refs) \in 1..Len(w.refs)
      BY <2>1, <2>2
    <3> QED BY <1>2, <2>3, <3>1 DEF Framed, RefsInOrder
  <2> QED BY <2>1, <2>2, <2>3, <2>4
<1>6. Framed(v, W) /\ Len(v.buf) <= Len(w.buf) /\ Len(v.buf) \in Nat
      /\ (size <= 0 => Len(v.buf) = m) /\ (~(size <= 0) => Len(v.buf) = Len(w.buf))
  <2>1. CASE size <= 0
    <3>1. Framed(v, W)
      BY <1>1, <1>2, <1>3, <2>1, FramedUndoBundle
    <3>2. Len(SubSeq(w.buf, 1, m)) = m
      <4>1. m <= Len(w.buf)
        BY <1>5
      <4> HIDE DEF m
      <4> QED BY <1>2, <1>5, <4>1, WordsCut
    <3>3. Len(v.buf) = m
      BY <1>3, <2>1, <3>2
    <3> HIDE DEF m
    <3> QED BY <1>5, <2>1, <3>1, <3>3
  <2>2. CASE ~(size <= 0)
    <3>1. Framed(v, W)
      <4>1. size > 0
        BY <1>5, <2>2
      <4> QED BY <1>1, <1>2, <1>3, <2>2, <4>1, FramedPopBundle
    <3> QED BY <1>3, <1>5, <2>2, <3>1
  <2> QED BY <2>1, <2>2
<1>b. \A i \in 1..m : v.buf[i] = w.buf[i]
  <2>1. m <= Len(w.buf)
    BY <1>5
  <2>2. \A i \in 1..m : SubSeq(w.buf, 1, m)[i] = w.buf[i]
    <3> HIDE DEF m
    <3> QED BY <1>2, <1>5, <2>1, WordsCut
  <2> QED BY <1>3, <2>2
<1>7. ItemsInside(v, items)
  <2>1. CASE 2 < Len(w.refs)
    BY <1>2, <1>3, <1>b, <2>1, PoppedItems
  <2>2. CASE Len(w.refs) = 1
    <3>1. Len(v.refs) = 0 /\ v.refs = << >> /\ w.refs # << >>
      <4>1. Len(Front(w.refs)) = Len(w.refs) - 1 /\ Front(w.refs) \in Seq(Nat)
        BY <1>5, FrontFacts
      <4>2. Len(v.refs) = 0 /\ v.refs \in Seq(Nat)
        BY <1>3, <2>2, <4>1
      <4> QED BY <2>2, <4>2
    <3>2. EndOf(v, 1) = Len(v.buf) /\ EndOf(w, 1) = Len(w.buf)
      BY <2>2, <3>1 DEF EndOf
    <3>0. m = 0
      <4>1. BundleAt(w, W, 1)
        <5>1. 1 \in 1..MaxDepth /\ 2 * 1 - 1 <= Len(w.refs)
          BY <1>4, <1>5, <2>2
        <5> QED BY <1>2, <5>1 DEF Framed
      <4>2. w.refs[1] = 0
        BY <4>1 DEF BundleAt, Starts
      <4> QED BY <1>5, <2>2, <4>2
    <3>3. CASE size <= 0
      <4>2. Len(w.buf) <= 4
        BY <1>5, <3>0, <3>3
      <4>3. items = << >>
        <5> SUFFICES ASSUME items # << >> PROVE FALSE
          OBVIOUS
        <5>1. 1 \in 1..Len(items)
          BY <1>2
        <5>2. items[1] \in Nat /\ 4 < items[1] /\ items[1] <= Len(w.buf)
          BY <1>2, <5>1 DEF ItemsInside
        <5> QED BY <1>5, <4>2, <5>2
      <4>4. v.buf = << >>
        <5>1. Len(v.buf) = 0
          BY <1>6, <3>0, <3>3
        <5>2. IsWords(v.buf)
          BY <1>6 DEF Framed
        <5> QED BY <5>1, <5>2, NoWords
      <4> QED BY <3>1, <4>3, <4>4 DEF ItemsInside
    <3>4. CASE ~(size <= 0)
      <4>1. v.buf = w.buf /\ EndOf(v, 1) = EndOf(w, 1)
        BY <1>3, <3>2, <3>4
      <4>2. items # << >>
        <5>1. Len(w.buf) # 4
          <6>1. ~(Len(w.buf) - m - 4 <= 0)
            BY <3>4
          <6>2. \A a \in Nat : \A i : i = 0 /\ ~(a - i - 4 <= 0) => a # 4
            OBVIOUS
          <6> HIDE DEF m
          <6> QED BY <1>5, <3>0, <6>1, <6>2
        <5> QED BY <1>2, <3>1, <3>2, <5>1 DEF ItemsInside
      <4>3. EndOf(w, 1) \in Nat
        BY <1>2, EndOfFacts
      <4> HIDE DEF W
      <4> QED BY <1>2, <4>1, <4>2, <4>3, ItemsStay
    <3> QED BY <3>3, <3>4
  <2>3. Len(w.refs) = 1 \/ 2 < Len(w.refs)
    BY <1>4, <1>5
  <2> QED BY <2>1, <2>2, <2>3
<1>8. IsWords(v.buf)
  BY <1>6 DEF Framed
<1>9. Len(v.buf) < Room
  <2>1. Room \in Nat
    BY RoomAssumption
  <2> QED BY <1>2, <1>5, <1>6, <2>1
<1>10. items' \in Seq(Nat)
  BY <1>1, <1>2
<1> QED BY <1>1, <1>2, <1>3, <1>6, <1>7, <1>8, <1>9, <1>10, WriterStep

(* What is handed on is a packet as a whole.                               *)
LEMMA TransmitInv ==
  ASSUME PacketInv, Transmit
  PROVE  PacketInv'
<1>1. /\ pc = "write" /\ writer.refs = << >> /\ buf # << >> /\ pc' = "read"
      /\ end' \in 0..Len(buf) /\ consumer' \in {"app", "forge"}
      /\ writer' = writer /\ stack' = stack /\ calling' = calling /\ items' = items
      /\ buf' = buf /\ written' = written
  BY DEF Transmit, buf
<1>2. Framed(writer, Begun(written)) /\ ItemsInside(writer, items) /\ Logged(written) /\ IsWords(buf) /\ stack = << >> /\ buf = writer.buf
  BY <1>1 DEF PacketInv, buf
<1>3. Sound(buf, Begun(written), AllSent)
  <2>1. Len(writer.refs) = 0 /\ MaxDepth \in Nat
    BY <1>1, <1>2, Places
  <2>2. 0 \in 0..MaxDepth /\ 2 * 0 = Len(writer.refs)
    BY <2>1
  <2>3. ItemAt(writer, Begun(written), 0)
    BY <1>2, <2>2 DEF Framed
  <2>4. Starts(writer.refs, 2 * 0) = 0
    BY DEF Starts
  <2>5. Len(writer.buf) # 0
    <3>1. PICK V : buf \in Seq(WordsOf(V))
      BY <1>2 DEF IsWords
    <3> DEFINE W == WordsOf(V)
    <3> HIDE DEF W
    <3>2. buf \in Seq(W)
      BY <3>1 DEF W
    <3> QED BY <1>1, <1>2, <3>2
  <2>6. MaxDepth - 0 = MaxDepth /\ TimetagOf(writer, 0) = Immediate
    BY <2>1 DEF TimetagOf
  <2> QED BY <1>2, <2>3, <2>4, <2>5, <2>6 DEF ItemAt, AllSent
<1>4. TypeOK'
  BY <1>1 DEF PacketInv, TypeOK, Ended
<1>5. Stacked(buf', Begun(written'), end', stack')
  BY <1>1, <1>2, NothingStacked
<1>6. pc' # "write" /\ pc' \notin {"write", "failed"}
  BY <1>1
<1>7. IsWriter(writer)' /\ IsWords(buf') /\ items' \in Seq(Nat) /\ Logged(written')
      /\ writer'.refs = << >> /\ ItemsInside(writer', items')
  BY <1>1, <1>2 DEF PacketInv, IsWriter
<1>8. Sound(buf', Begun(written'), AllSent')
  BY <1>1, <1>3 DEF AllSent
<1> QED BY <1>4, <1>5, <1>6, <1>7, <1>8 DEF PacketInv
-----------------------------------------------------------------------------
(* Reading *)

(* Whoever reads changes nothing but where it is.                          *)
LEMMA ReaderStep ==
  ASSUME PacketInv, pc = "read", UNCHANGED <<writer, consumer, end, written, items>>,
         pc' \in {"read"} \cup Ended, calling' \in BOOLEAN,
         Len(stack') <= MaxDepth, Stacked(buf, Begun(written), end, stack')
  PROVE  PacketInv'
<1>1. /\ buf' = buf /\ writer' = writer /\ consumer' = consumer /\ end' = end
      /\ items' = items /\ written' = written
  BY DEF buf
<1>2. pc' \notin {"write", "failed"}
  BY DEF Ended
<1>3. TypeOK'
  BY <1>1 DEF PacketInv, TypeOK
<1>4. IsWriter(writer)' /\ IsWords(buf') /\ items' \in Seq(Nat) /\ Logged(written')
  BY <1>1 DEF PacketInv, IsWriter
<1>5. /\ Sound(buf', Begun(written'), AllSent')
      /\ writer'.refs = << >> /\ ItemsInside(writer', items')
  <2>1. pc \notin {"write", "failed"}
    OBVIOUS
  <2> QED BY <1>1, <2>1 DEF PacketInv, AllSent
<1>6. Stacked(buf', Begun(written'), end', stack')
  BY <1>1
<1> QED BY <1>2, <1>3, <1>4, <1>5, <1>6 DEF PacketInv

LEMMA StackFacts ==
  ASSUME PacketInv, pc = "read"
  PROVE  /\ Len(stack) \in Nat /\ Len(stack) <= MaxDepth /\ MaxDepth \in Nat
         /\ end \in Nat /\ Len(buf) \in Nat /\ end <= Len(buf)
         /\ Stacked(buf, Begun(written), end, stack) /\ Sound(buf, Begun(written), AllSent)
         /\ writer.refs = << >> /\ ItemsInside(writer, items) /\ Logged(written)
         /\ IsWords(buf) /\ items \in Seq(Nat)
         /\ stack = << >> <=> Len(stack) = 0
         /\ \A k \in 1..Len(stack) :
              /\ stack[k].from \in Nat /\ stack[k].size \in Nat /\ stack[k].to \in Nat
              /\ StackedAt(buf, Begun(written), end, stack, k)
<1>1. /\ Stacked(buf, Begun(written), end, stack) /\ Len(stack) <= MaxDepth /\ end \in 0..Len(buf)
      /\ Sound(buf, Begun(written), AllSent) /\ IsWords(buf)
      /\ writer.refs = << >> /\ ItemsInside(writer, items) /\ Logged(written)
      /\ items \in Seq(Nat)
  BY DEF PacketInv, TypeOK
<1>2. PICK V : stack \in Seq(FrameOf(V))
  BY <1>1 DEF Stacked
<1> DEFINE F == FrameOf(V)
<1>3. \A f \in F : f.from \in Nat /\ f.size \in Nat /\ f.to \in Nat
  BY DEF FrameOf
<1> HIDE DEF F
<1>4. stack \in Seq(F)
  BY <1>2 DEF F
<1>5. /\ Len(stack) \in Nat /\ (stack = << >> <=> Len(stack) = 0)
      /\ \A k \in 1..Len(stack) : stack[k] \in F
  BY <1>4
<1>6. Len(buf) \in Nat
  BY <1>1, LengthOfWords
<1>7. \A k \in 1..Len(stack) : StackedAt(buf, Begun(written), end, stack, k)
  BY <1>1 DEF Stacked
<1> QED BY <1>1, <1>3, <1>5, <1>6, <1>7, RoomAssumption

(* A message does not begin like a bundle.                                 *)
LEMMA MessageStart ==
  ASSUME NEW b, NEW W, NEW x, MessageAt(b, W, x)
  PROVE  b[x.from + 1].of # Bundle
<1>1. PICK m \in W :
        /\ m.message \in Messages
        /\ \A i \in 1..Len(MessageWords(m.message)) :
             b[x.from + i] = MessageWords(m.message)[i]
  BY DEF MessageAt
<1>2. /\ Len(MessageWords(m.message)) \in Nat /\ Len(MessageWords(m.message)) > 0
      /\ MessageWords(m.message)[1].of # Bundle
  BY <1>1, MessageFacts, LengthOfWords
<1>3. 1 \in 1..Len(MessageWords(m.message))
  BY <1>2
<1> QED BY <1>1, <1>2, <1>3

(* The packet that is looked at is sound; of the outermost, what arrived   *)
(* is looked at.                                                           *)
LEMMA CurrentFacts ==
  ASSUME PacketInv, pc = "read"
  PROVE  \E e \in Nat :
           /\ Current.from \in Nat /\ Current.to \in Nat /\ Current.to <= e
           /\ Sound(buf, Begun(written),
                   APacket(Current.from, e, MaxDepth - Len(stack), Current.timetag))
           /\ stack = << >> => e = Len(buf) /\ Current.to = end
           /\ stack # << >> =>
                /\ e = Current.to
                /\ Current.to = stack[Len(stack)].from + stack[Len(stack)].size
<1>1. CASE stack = << >>
  <2>1. Current.from = 0 /\ Current.to = end /\ Current.timetag = Immediate
    BY <1>1 DEF Current
  <2>2. Len(stack) = 0 /\ MaxDepth - Len(stack) = MaxDepth
    BY <1>1, StackFacts
  <2> QED BY <1>1, <2>1, <2>2, StackFacts DEF AllSent
<1>2. CASE stack # << >>
  <2> DEFINE n == Len(stack)
  <2>1. n \in 1..Len(stack) /\ Last(stack) = stack[n]
    BY <1>2, StackFacts DEF Last
  <2>2. /\ Current.from = stack[n].from /\ Current.to = stack[n].from + stack[n].size
        /\ Current.timetag = stack[n].timetag
    BY <1>2, <2>1 DEF Current
  <2>3. /\ stack[n].from \in Nat /\ stack[n].size \in Nat
        /\ Sound(buf, Begun(written),
             APacket(stack[n].from, stack[n].from + stack[n].size, MaxDepth - n,
                     stack[n].timetag))
    BY <2>1, StackFacts DEF StackedAt
  <2>4. Current.from \in Nat /\ Current.to \in Nat /\ Current.to <= Current.to
    BY <2>2, <2>3
  <2> QED BY <1>2, <2>2, <2>3, <2>4
<1> QED BY <1>1, <1>2

(* The size of a bundle's first item is one, and the item is a packet.     *)
LEMMA EnterBundleInv ==
  ASSUME PacketInv, EnterBundle
  PROVE  PacketInv'
<1> DEFINE p == Current.from
           n == Len(stack)
           first == p + 4
           size == Word(first)
           d == MaxDepth - n
           tag == Word(p + 2)
           W == Begun(written)
           frame == [from |-> first + 1, size |-> size, to |-> Current.to, timetag |-> tag]
<1>1. /\ pc = "read" /\ IsBundle /\ Itemised /\ stack' = Append(stack, frame)
      /\ UNCHANGED <<writer, consumer, end, written, items, pc, calling>>
  BY DEF EnterBundle, Reads
<1>2. PICK e \in Nat :
           /\ p \in Nat /\ Current.to \in Nat /\ Current.to <= e
           /\ Sound(buf, W, APacket(p, e, d, Current.timetag))
           /\ stack = << >> => e = Len(buf) /\ Current.to = end
           /\ stack # << >> =>
                /\ e = Current.to
                /\ Current.to = stack[n].from + stack[n].size
  BY <1>1, CurrentFacts
<1>3. n \in Nat /\ n <= MaxDepth /\ MaxDepth \in Nat /\ d \in Nat
  BY <1>1, StackFacts
<1>4. buf[p + 1].of = Bundle
  BY <1>1 DEF IsBundle, Word
<1>5. d > 0 /\ first < e /\ Sound(buf, W, TheItems(first, e, d - 1, tag))
  <2>1. tag = buf[p + 3].of
    <3>1. p + 2 + 1 = p + 3
      BY <1>2
    <3> QED BY <3>1 DEF Word
  <2> HIDE DEF p, d, tag, W
  <2>2. p < e
    BY <1>2, <1>3, PacketFacts
  <2>3. ~MessageAt(buf, W, APacket(p, e, d, Current.timetag))
    BY <1>4, MessageStart DEF APacket
  <2> QED BY <1>2, <1>3, <2>1, <2>3, PacketFacts
<1>6. first \in Nat /\ d - 1 \in Nat /\ first # e /\ n + 1 <= MaxDepth /\ d - 1 = MaxDepth - (n + 1)
  BY <1>2, <1>3, <1>5
<1>7. /\ size \in Nat /\ first + 1 + size <= e
      /\ Sound(buf, W, APacket(first + 1, first + 1 + size, d - 1, tag))
      /\ Sound(buf, W, TheItems(first + 1 + size, e, d - 1, tag))
  <2> DEFINE q == first
             c == d - 1
  <2>1. q \in Nat /\ c \in Nat /\ q # e /\ Sound(buf, W, TheItems(q, e, c, tag)) /\ size = buf[q + 1].of
    BY <1>5, <1>6 DEF Word
  <2> HIDE DEF q, c, size, tag, W
  <2>2. /\ size \in Nat /\ q + 1 + size <= e
        /\ Sound(buf, W, APacket(q + 1, q + 1 + size, c, tag))
        /\ Sound(buf, W, TheItems(q + 1 + size, e, c, tag))
    BY <1>2, <2>1, ItemsFacts
  <2> QED BY <2>2 DEF q, c
<1>8. first + 1 + size <= Current.to
  BY <1>1 DEF Itemised, HasItem
<1>9. PICK V : stack \in Seq(FrameOf(V))
  BY <1>1, StackFacts DEF Stacked
<1> DEFINE F == FrameOf(V \cup {tag})
<1>10. frame \in F
  <2>1. first + 1 \in Nat
    BY <1>6
  <2> HIDE DEF first, size, p, tag
  <2> QED BY <1>2, <1>7, <2>1 DEF FrameOf
<1>11. stack \in Seq(F)
  <2>1. FrameOf(V) \subseteq F
    BY DEF FrameOf
  <2> HIDE DEF F
  <2> QED BY <1>9, <2>1, WiderSeq
<1>12. /\ frame.from = first + 1 /\ frame.size = size /\ frame.to = Current.to
       /\ frame.timetag = tag
  OBVIOUS
<1> HIDE DEF F, frame
<1>13. /\ stack' \in Seq(F) /\ Len(stack') = n + 1 /\ stack'[n + 1] = frame
       /\ \A k \in 1..n : stack'[k] = stack[k]
  BY <1>1, <1>10, <1>11, AppendFacts
<1> HIDE DEF size, first, d, tag
<1>14. ASSUME NEW k \in 1..n PROVE StackedAt(buf, Begun(written), end, stack', k)
  <2>1. StackedAt(buf, Begun(written), end, stack, k)
    BY <1>1, StackFacts
  <2>2. stack'[k] = stack[k] /\ (k # 1 => stack'[k - 1] = stack[k - 1])
    <3>1. k # 1 => k - 1 \in 1..n
      BY <1>3
    <3> QED BY <1>13, <3>1
  <2> QED BY <2>1, <2>2 DEF StackedAt
<1>15. StackedAt(buf, Begun(written), end, stack', n + 1)
  <2> DEFINE k == n + 1
  <2>1. /\ stack'[k].from = first + 1 /\ stack'[k].size = size /\ stack'[k].to = Current.to
        /\ stack'[k].timetag = tag
    BY <1>12, <1>13
  <2>2. CASE stack = << >>
    <3>1. k = 1
      BY <1>1, <2>2, StackFacts
    <3>2. MaxDepth - k = d - 1
      BY <1>6
    <3> HIDE DEF k
    <3> QED BY <1>2, <1>7, <1>8, <2>1, <2>2, <3>1, <3>2 DEF StackedAt
  <2>3. CASE stack # << >>
    <3>1. k # 1 /\ k - 1 = n /\ n \in 1..n
      BY <1>1, <1>3, <2>3, StackFacts
    <3>2. MaxDepth - k = d - 1
      BY <1>6
    <3>3. stack'[n] = stack[n]
      BY <1>13, <3>1
    <3>4. Current.to = stack'[k - 1].from + stack'[k - 1].size /\ e = Current.to
      BY <1>2, <2>3, <3>1, <3>3
    <3>5. stack'[k].from + stack'[k].size <= stack'[k].to
      BY <1>8, <2>1
    <3>6. /\ Sound(buf, W, APacket(stack'[k].from, stack'[k].from + stack'[k].size, MaxDepth - k,
                                   stack'[k].timetag))
          /\ Sound(buf, W, TheItems(stack'[k].from + stack'[k].size, stack'[k].to, MaxDepth - k,
                                    stack'[k].timetag))
      BY <1>7, <2>1, <3>2, <3>4
    <3> HIDE DEF k
    <3>7. StackedAt(buf, Begun(written), end, stack', k)
      BY <2>1, <3>1, <3>4, <3>5, <3>6 DEF StackedAt
    <3> QED BY <3>7 DEF k
  <2> QED BY <2>2, <2>3
<1>16. Stacked(buf, Begun(written), end, stack')
  <2>1. \A k \in 1..Len(stack') : StackedAt(buf, Begun(written), end, stack', k)
    <3> SUFFICES ASSUME NEW k \in 1..Len(stack') PROVE StackedAt(buf, Begun(written), end, stack', k)
      OBVIOUS
    <3>1. k \in 1..n \/ k = n + 1
      BY <1>3, <1>13
    <3> QED BY <1>14, <1>15, <3>1
  <2> QED BY <1>13, <2>1 DEF Stacked, F
<1>17. calling' \in BOOLEAN /\ pc' \in {"read"} \cup Ended /\ Len(stack') <= MaxDepth
  BY <1>1, <1>6, <1>13 DEF PacketInv, TypeOK
<1> QED BY <1>1, <1>16, <1>17, ReaderStep

(* The reader of the innermost bundle has another item before it.          *)
Moved(s, n, f, z) == [s EXCEPT ![n].from = f, ![n].size = z]

LEMMA MovedFacts ==
  ASSUME NEW V, NEW s \in Seq(FrameOf(V)), NEW n \in 1..Len(s), NEW f \in Nat, NEW z \in Nat
  PROVE  /\ Moved(s, n, f, z) \in Seq(FrameOf(V)) /\ Len(Moved(s, n, f, z)) = Len(s)
         /\ Moved(s, n, f, z)[n].from = f /\ Moved(s, n, f, z)[n].size = z
         /\ Moved(s, n, f, z)[n].to = s[n].to /\ Moved(s, n, f, z)[n].timetag = s[n].timetag
         /\ \A k \in 1..Len(s) : k # n => Moved(s, n, f, z)[k] = s[k]
<1> DEFINE F == FrameOf(V)
           new == [s[n] EXCEPT !.from = f, !.size = z]
<1>1. s[n] \in FrameOf(V)
  <2> HIDE DEF F
  <2>1. s \in Seq(F)
    BY DEF F
  <2>2. s[n] \in F
    BY <2>1
  <2> QED BY <2>2 DEF F
<1>2. /\ new \in F /\ new.from = f /\ new.size = z /\ new.to = s[n].to
      /\ new.timetag = s[n].timetag
  BY <1>1 DEF FrameOf
<1>3. Moved(s, n, f, z) = [s EXCEPT ![n] = new]
  <2>1. DOMAIN s = 1..Len(s)
    <3> HIDE DEF F
    <3>1. s \in Seq(F)
      BY DEF F
    <3> QED BY <3>1
  <2> QED BY <2>1 DEF Moved
<1> HIDE DEF F, new
<1>4. s \in Seq(F)
  BY DEF F
<1>5. /\ [s EXCEPT ![n] = new] \in Seq(F) /\ Len([s EXCEPT ![n] = new]) = Len(s)
      /\ [s EXCEPT ![n] = new][n] = new
      /\ \A k \in 1..Len(s) : k # n => [s EXCEPT ![n] = new][k] = s[k]
  BY <1>2, <1>4
<1> QED BY <1>2, <1>3, <1>5 DEF F

LEMMA NextItemInv ==
  ASSUME PacketInv, NextItem
  PROVE  PacketInv'
<1> DEFINE n == Len(stack)
           to == stack[n].to
           q == stack[n].from + stack[n].size
           size == Word(q)
           d == MaxDepth - n
           e == IF n = 1 THEN Len(buf) ELSE to
           W == Begun(written)
           t == stack[n].timetag
<1>1. /\ pc = "read" /\ stack # << >> /\ HasItem(Behind, Last(stack).to)
      /\ stack' = [stack EXCEPT ![n].from = Behind + 1, ![n].size = Word(Behind)]
      /\ calling' = TRUE
      /\ UNCHANGED <<pc, writer, consumer, end, written, items>>
  BY DEF NextItem, Iterates
<1>2. n \in 1..Len(stack) /\ Last(stack) = stack[n] /\ Behind = q
  BY <1>1, StackFacts DEF Last, Behind
<1>3. /\ n \in Nat /\ n <= MaxDepth /\ MaxDepth \in Nat /\ d \in Nat
      /\ q \in Nat /\ to \in Nat /\ e \in Nat /\ end <= Len(buf) /\ Len(buf) \in Nat
  BY SMTT(20), <1>1, <1>2, StackFacts
<1>4. StackedAt(buf, Begun(written), end, stack, n)
  BY <1>1, <1>2, StackFacts
<1>5. Sound(buf, W, TheItems(q, e, d, t))
  BY <1>4 DEF StackedAt
<1>6. /\ to = IF n = 1 THEN end ELSE stack[n - 1].from + stack[n - 1].size
  BY <1>4 DEF StackedAt
<1>7. to <= e
  BY <1>3, <1>6
<1>8. q + 1 <= to /\ q + 1 + size <= to
  BY <1>1, <1>2 DEF HasItem
<1>9. q # e
  <2> HIDE DEF q, e, to
  <2> QED BY <1>3, <1>7, <1>8
<1>10. /\ size \in Nat
       /\ Sound(buf, W, APacket(q + 1, q + 1 + size, d, t))
       /\ Sound(buf, W, TheItems(q + 1 + size, e, d, t))
  <2>1. size = buf[q + 1].of
    BY DEF Word
  <2> HIDE DEF q, e, d, size, W, t
  <2> QED BY <1>3, <1>5, <1>9, <2>1, ItemsFacts
<1>11. PICK V : stack \in Seq(FrameOf(V))
  BY <1>1, StackFacts DEF Stacked
<1>12. stack' = Moved(stack, n, q + 1, size)
  BY <1>1, <1>2 DEF Moved
<1>13. q + 1 \in Nat /\ n = Len(stack) /\ (n # 1 => n - 1 \in 1..n /\ n - 1 # n)
  <2>1. n \in Nat /\ 1 <= n /\ q + 1 \in Nat
    BY <1>2, <1>3
  <2>2. \A i \in Nat : 1 <= i /\ i # 1 => i - 1 \in 1..i /\ i - 1 # i
    OBVIOUS
  <2> QED BY <2>1, <2>2
<1> HIDE DEF q, size, d, e, n, t
<1>14. /\ stack' \in Seq(FrameOf(V)) /\ Len(stack') = n
       /\ stack'[n].from = q + 1 /\ stack'[n].size = size /\ stack'[n].to = to
       /\ stack'[n].timetag = t
       /\ \A k \in 1..n : k # n => stack'[k] = stack[k]
  BY <1>2, <1>10, <1>11, <1>12, <1>13, MovedFacts DEF t
<1>15. ASSUME NEW k \in 1..n, k # n PROVE StackedAt(buf, Begun(written), end, stack', k)
  <2>1. StackedAt(buf, Begun(written), end, stack, k)
    BY <1>1, <1>13, StackFacts
  <2>2. k # 1 => k - 1 \in 1..n /\ k - 1 # n
    BY <1>3, <1>15
  <2>3. stack'[k] = stack[k] /\ (k # 1 => stack'[k - 1] = stack[k - 1])
    BY <1>14, <1>15, <2>2
  <2> QED BY <2>1, <2>3 DEF StackedAt
<1>16. StackedAt(buf, Begun(written), end, stack', n)
  <2>1. n # 1 => stack'[n - 1] = stack[n - 1]
    BY <1>13, <1>14
  <2>2. stack'[n].to = IF n = 1 THEN end ELSE stack'[n - 1].from + stack'[n - 1].size
    BY <1>6, <1>14, <2>1
  <2>3. stack'[n].from + stack'[n].size <= stack'[n].to
    BY <1>8, <1>14
  <2>4. Sound(buf, W, APacket(stack'[n].from, stack'[n].from + stack'[n].size, MaxDepth - n,
                                stack'[n].timetag))
    BY <1>10, <1>14 DEF d
  <2>5. Sound(buf, W, TheItems(stack'[n].from + stack'[n].size,
                               IF n = 1 THEN Len(buf) ELSE stack'[n].to, MaxDepth - n,
                               stack'[n].timetag))
    BY <1>10, <1>14 DEF d, e
  <2> QED BY <2>2, <2>3, <2>4, <2>5 DEF StackedAt
<1>17. Stacked(buf, Begun(written), end, stack')
  <2>1. \A k \in 1..Len(stack') : StackedAt(buf, Begun(written), end, stack', k)
    BY <1>14, <1>15, <1>16
  <2> QED BY <1>14, <2>1 DEF Stacked
<1>18. calling' \in BOOLEAN /\ pc' \in {"read"} \cup Ended /\ Len(stack') <= MaxDepth
  BY <1>1, <1>3, <1>14
<1> QED BY <1>1, <1>17, <1>18, ReaderStep

LEMMA LeaveInv ==
  ASSUME PacketInv, Leave
  PROVE  PacketInv'
<1> DEFINE n == Len(stack)
<1>1. /\ pc = "read" /\ stack # << >> /\ stack' = Front(stack)
      /\ UNCHANGED <<pc, writer, consumer, end, written, items, calling>>
  BY DEF Leave, Iterates
<1>2. PICK V : stack \in Seq(FrameOf(V))
  BY <1>1, StackFacts DEF Stacked
<1>3. n \in Nat /\ n > 0 /\ n <= MaxDepth /\ MaxDepth \in Nat
  BY <1>1, StackFacts
<1>4. /\ stack' \in Seq(FrameOf(V)) /\ Len(stack') = n - 1
      /\ \A k \in 1..(n - 1) : stack'[k] = stack[k]
  <2> DEFINE F == FrameOf(V)
  <2>1. stack \in Seq(F)
    BY <1>2
  <2> HIDE DEF F
  <2>2. /\ stack' \in Seq(F) /\ Len(stack') = n - 1
        /\ \A k \in 1..(n - 1) : stack'[k] = stack[k]
    BY <1>1, <1>3, <2>1, FrontFacts
  <2> QED BY <2>2 DEF F
<1>5. ASSUME NEW k \in 1..Len(stack') PROVE StackedAt(buf, Begun(written), end, stack', k)
  <2>1. k \in 1..n /\ k \in 1..(n - 1) /\ (k # 1 => k - 1 \in 1..(n - 1))
    BY <1>3, <1>4
  <2>2. StackedAt(buf, Begun(written), end, stack, k)
    BY <1>1, <2>1, StackFacts
  <2>3. stack'[k] = stack[k] /\ (k # 1 => stack'[k - 1] = stack[k - 1])
    BY <1>4, <2>1
  <2> QED BY <2>2, <2>3 DEF StackedAt
<1>6. Stacked(buf, Begun(written), end, stack')
  BY <1>4, <1>5 DEF Stacked
<1>7. calling' \in BOOLEAN /\ pc' \in {"read"} \cup Ended /\ Len(stack') <= MaxDepth
  BY <1>1, <1>3, <1>4 DEF PacketInv, TypeOK
<1> QED BY <1>1, <1>6, <1>7, ReaderStep

(* Where nothing is entered, moved on or left, the reader stays where it   *)
(* is.                                                                     *)
LEMMA StandingInv ==
  ASSUME PacketInv,
         SkipBundle \/ HandleMessage \/ NullMessage \/ NothingThere \/ Done
  PROVE  PacketInv'
<1>1. /\ pc = "read" /\ stack' = stack
      /\ UNCHANGED <<writer, consumer, end, written, items>>
  BY DEF SkipBundle, HandleMessage, NullMessage, NothingThere, Done, Reads
<1>2. calling \in BOOLEAN
  BY DEF PacketInv, TypeOK
<1>3. calling' \in BOOLEAN
  BY <1>2 DEF SkipBundle, HandleMessage, NullMessage, NothingThere, Done, Reads,
              GoesOnOrRefuses
<1>4. pc' \in {"read"} \cup Ended
  BY <1>1 DEF SkipBundle, HandleMessage, NullMessage, NothingThere, Done, Reads,
              GoesOnOrRefuses, Ended
<1>5. Len(stack') <= MaxDepth /\ Stacked(buf, Begun(written), end, stack')
  BY <1>1, StackFacts
<1> QED BY <1>1, <1>3, <1>4, <1>5, ReaderStep
-----------------------------------------------------------------------------
(* The theorems *)

LEMMA PacketInvInit == ASSUME Init PROVE PacketInv
<1>1. /\ pc = "write" /\ writer = Empty /\ consumer = "app" /\ end = 0
      /\ stack = << >> /\ calling = TRUE /\ items = << >> /\ written = << >>
  BY DEF Init
<1>2. writer.buf = << >> /\ writer.refs = << >> /\ writer.ok = TRUE /\ buf = << >>
  BY <1>1 DEF Empty, buf
<1>3. IsWriter(writer)
  BY <1>1 DEF Empty, IsWriter
<1>4. << >> \in Seq(Nat) /\ Len(<< >>) = 0
  OBVIOUS
<1>5. IsWords(<< >>)
  <2>1. << >> \in Seq(WordsOf({}))
    OBVIOUS
  <2> QED BY <2>1 DEF IsWords
<1>6. TypeOK
  <2>1. Room \in Nat /\ 0 < Room /\ 0 <= MaxDepth
    BY RoomAssumption
  <2> QED BY <1>1, <1>2, <1>4, <2>1 DEF TypeOK
<1>7. Framed(writer, Begun(written)) /\ Logged(written)
  <2>1. MaxDepth \in Nat /\ 0 <= 2 * MaxDepth
    BY RoomAssumption
  <2>2. RefsInOrder(writer)
    BY <1>2, <1>4 DEF RefsInOrder
  <2>3. \A j \in 1..MaxDepth : ~(2 * j - 1 <= 0)
    BY <2>1
  <2>4. ASSUME NEW j \in 0..MaxDepth, 2 * j = 0 PROVE ItemAt(writer, Begun(written), j)
    BY <1>2, <1>4, <2>4 DEF ItemAt, Starts
  <2>5. Begun(written) = {}
    BY <1>1, <1>4 DEF Begun
  <2>6. Within(writer, Begun(written))
    BY <2>5 DEF Within
  <2>7. Logged(written)
    <3>1. << >> \in Seq(Entry({})) /\ Len(<< >>) = 0
      OBVIOUS
    <3> QED BY <1>1, <3>1 DEF Logged
  <2>8. \A j \in 1..MaxDepth : ~(2 * j <= 0)
    BY <2>1
  <2> QED BY <1>2, <1>4, <1>5, <2>1, <2>2, <2>3, <2>4, <2>6, <2>7, <2>8 DEF Framed
<1>8. ItemsInside(writer, items)
  BY <1>1, <1>2, <1>4 DEF ItemsInside
<1>9. Stacked(buf, Begun(written), end, stack)
  BY <1>1, NothingStacked
<1> QED BY <1>1, <1>2, <1>3, <1>4, <1>5, <1>6, <1>7, <1>8, <1>9 DEF PacketInv

LEMMA PacketInvNext == ASSUME PacketInv, [Next]_vars PROVE PacketInv'
<1>1. ASSUME NEW timetag \in Timetags, PushBundle(timetag) PROVE PacketInv'
  BY <1>1, PushBundleInv
<1>2. ASSUME NEW message \in Messages, AddMessage(message) PROVE PacketInv'
  BY <1>2, AddMessageInv
<1>3. ASSUME PushItem \/ PopItem \/ PopBundle \/ Transmit PROVE PacketInv'
  BY <1>3, PushItemInv, PopItemInv, PopBundleInv, TransmitInv
<1>4. ASSUME Read PROVE PacketInv'
  BY <1>4, EnterBundleInv, NextItemInv, LeaveInv, StandingInv DEF Read
<1>5. ASSUME UNCHANGED vars PROVE PacketInv'
  <2>1. /\ pc' = pc /\ writer' = writer /\ consumer' = consumer /\ end' = end
        /\ stack' = stack /\ calling' = calling /\ items' = items /\ buf' = buf
        /\ written' = written
    BY <1>5 DEF vars, buf
  <2>2. TypeOK'
    BY <2>1 DEF PacketInv, TypeOK
  <2> QED BY <2>1, <2>2 DEF PacketInv, IsWriter, AllSent
<1> QED BY <1>1, <1>2, <1>3, <1>4, <1>5 DEF Next

-----------------------------------------------------------------------------
(* Flattening *)

(* So do f and g as far as ss and tt agree.                                *)
Agree(f, g, ss, tt, n, m) ==
  n <= m /\ Flat(f, ss, n) /\ Flat(g, tt, m) /\ (\A i \in 1..n : ss[i] = tt[i])
    => \A i \in 1..n : f[i] = g[i]

LEMMA FlatAgrees ==
  ASSUME NEW f, NEW g, NEW ss, NEW tt, NEW n \in Nat, NEW m \in Nat
  PROVE  Agree(f, g, ss, tt, n, m)
<1> SUFFICES ASSUME n <= m, Flat(f, ss, n), Flat(g, tt, m), \A i \in 1..n : ss[i] = tt[i]
             PROVE  \A i \in 1..n : f[i] = g[i]
  BY DEF Agree
<1> DEFINE K == {k \in Nat : k \in 1..n => f[k] = g[k]}
<1>0. /\ \A i \in 1..n : f[i] = IF i = 1 THEN ss[i] ELSE f[i - 1] \o ss[i]
      /\ \A i \in 1..m : g[i] = IF i = 1 THEN tt[i] ELSE g[i - 1] \o tt[i]
  BY DEF Flat
<1>1. 0 \in K
  OBVIOUS
<1>2. ASSUME NEW k \in K PROVE k + 1 \in K
  <2> SUFFICES ASSUME k + 1 \in 1..n PROVE f[k + 1] = g[k + 1]
    OBVIOUS
  <2>1. k + 1 \in 1..m /\ ss[k + 1] = tt[k + 1] /\ (k + 1) - 1 = k
    OBVIOUS
  <2>2. k + 1 # 1 => k \in 1..n
    OBVIOUS
  <2>3. k + 1 # 1 => f[k] = g[k]
    BY <2>2
  <2>4. f[k + 1] = IF k + 1 = 1 THEN ss[k + 1] ELSE f[k] \o ss[k + 1]
    BY <1>0, <2>1
  <2>5. g[k + 1] = IF k + 1 = 1 THEN tt[k + 1] ELSE g[k] \o tt[k + 1]
    BY <1>0, <2>1
  <2> QED BY <2>1, <2>3, <2>4, <2>5
<1>3. \A k \in Nat : k \in K
  <2> HIDE DEF K
  <2>1. K \in SUBSET Nat
    BY DEF K
  <2> QED BY <1>1, <1>2, <2>1, AllOfNat
<1> QED BY <1>3

(* Flattening goes from left to right.                                     *)
LEMMA FlattenAppend ==
  ASSUME NEW T, NEW ss \in Seq(Seq(T)), NEW s \in Seq(T)
  PROVE  FlattenSeq(Append(ss, s)) = FlattenSeq(ss) \o s
<1> DEFINE tt == Append(ss, s)
<1>1. /\ Len(ss) \in Nat /\ tt \in Seq(Seq(T)) /\ tt # << >> /\ Len(tt) = Len(ss) + 1
      /\ tt[Len(ss) + 1] = s /\ \A i \in 1..Len(ss) : ss[i] = tt[i]
  BY AppendFacts
<1> HIDE DEF tt
<1>2. PICK g : Flat(g, tt, Len(ss) + 1) /\ FlattenSeq(tt) = g[Len(ss) + 1]
  BY <1>1, FlattenIs
<1>3. g[Len(ss) + 1] = IF Len(ss) + 1 = 1 THEN s ELSE g[Len(ss)] \o s
  <2>1. \A i \in 1..(Len(ss) + 1) : g[i] = IF i = 1 THEN tt[i] ELSE g[i - 1] \o tt[i]
    BY <1>2 DEF Flat
  <2>2. Len(ss) + 1 \in 1..(Len(ss) + 1) /\ (Len(ss) + 1) - 1 = Len(ss)
    BY <1>1
  <2> QED BY <2>1, <2>2, <1>1
<1>4. CASE ss = << >>
  <2>1. << >> \o s = s /\ Len(ss) + 1 = 1
    BY <1>4
  <2> QED BY <2>1, <1>2, <1>3, <1>4, FlattenEmpty DEF tt
<1>5. CASE ss # << >>
  <2>1. PICK f : Flat(f, ss, Len(ss)) /\ FlattenSeq(ss) = f[Len(ss)]
    BY <1>5, FlattenIs
  <2>2. \A i \in 1..Len(ss) : f[i] = g[i]
    <3> DEFINE n == Len(ss)
               m == Len(ss) + 1
    <3>1. n \in Nat /\ m \in Nat /\ n <= m
      BY <1>1
    <3>2. Flat(f, ss, n) /\ Flat(g, tt, m) /\ \A i \in 1..n : ss[i] = tt[i]
      BY <2>1, <1>1, <1>2
    <3> HIDE DEF n, m
    <3>3. Agree(f, g, ss, tt, n, m)
      BY <3>1, FlatAgrees
    <3>4. \A i \in 1..n : f[i] = g[i]
      BY <3>1, <3>2, <3>3 DEF Agree
    <3> QED BY <3>4 DEF n
  <2>3. Len(ss) \in 1..Len(ss) /\ Len(ss) + 1 # 1
    BY <1>1, <1>5
  <2> QED BY <2>1, <2>2, <2>3, <1>2, <1>3 DEF tt
<1> QED BY <1>4, <1>5

(* The first k of some sequences, one behind the other                     *)
Pre(ss, k) == FlattenSeq([i \in 1..k |-> ss[i]])

LEMMA PreFacts ==
  ASSUME NEW T, NEW ss \in Seq(Seq(T))
  PROVE  /\ Pre(ss, 0) = << >> /\ Pre(ss, Len(ss)) = FlattenSeq(ss)
         /\ \A k \in 0..Len(ss) : Pre(ss, k) \in Seq(T)
         /\ \A k \in 1..Len(ss) : Pre(ss, k) = Pre(ss, k - 1) \o ss[k]
<1> DEFINE S == Seq(T)
<1>0. ss \in Seq(S) /\ Len(ss) \in Nat /\ \A k \in 1..Len(ss) : ss[k] \in S
  OBVIOUS
<1>1. \A k \in 0..Len(ss) : [i \in 1..k |-> ss[i]] \in Seq(S)
  <2> HIDE DEF S
  <2> QED BY <1>0
<1>2. Pre(ss, 0) = << >>
  <2>1. [i \in 1..0 |-> ss[i]] = << >>
    OBVIOUS
  <2> QED BY <2>1, FlattenEmpty DEF Pre
<1>3. Pre(ss, Len(ss)) = FlattenSeq(ss)
  <2>1. [i \in 1..Len(ss) |-> ss[i]] = ss
    <3> HIDE DEF S
    <3> QED BY <1>0
  <2> QED BY <2>1 DEF Pre
<1>4. \A k \in 0..Len(ss) : Pre(ss, k) \in Seq(T)
  BY <1>1, FlattenType DEF Pre
<1>5. ASSUME NEW k \in 1..Len(ss) PROVE Pre(ss, k) = Pre(ss, k - 1) \o ss[k]
  <2> DEFINE a == [i \in 1..(k - 1) |-> ss[i]]
             b == [i \in 1..k |-> ss[i]]
  <2>1. k - 1 \in 0..Len(ss) /\ k \in 0..Len(ss)
    OBVIOUS
  <2>2. a \in Seq(S) /\ ss[k] \in S
    BY <1>0, <1>1, <2>1
  <2>3. b = Append(a, ss[k])
    <3> HIDE DEF S
    <3>1. Len(a) = k - 1 /\ b \in Seq(S) /\ Len(b) = k
      BY <1>1, <2>1
    <3>2. \A i \in 1..k : b[i] = Append(a, ss[k])[i]
      <4> SUFFICES ASSUME NEW i \in 1..k PROVE b[i] = Append(a, ss[k])[i]
        OBVIOUS
      <4>1. i \in 1..(k - 1) \/ i = k
        OBVIOUS
      <4>2. i \in 1..(k - 1) => a[i] = ss[i]
        OBVIOUS
      <4>3. b[i] = ss[i]
        OBVIOUS
      <4> HIDE DEF a, b
      <4>4. /\ Append(a, ss[k])[Len(a) + 1] = ss[k]
            /\ \A l \in 1..Len(a) : Append(a, ss[k])[l] = a[l]
        BY <2>2, AppendFacts
      <4> QED BY <3>1, <4>1, <4>2, <4>3, <4>4
    <3> HIDE DEF a, b
    <3>3. Append(a, ss[k]) \in Seq(S) /\ Len(Append(a, ss[k])) = k
      <4>1. Append(a, ss[k]) \in Seq(S) /\ Len(Append(a, ss[k])) = Len(a) + 1
        BY <2>2, AppendFacts
      <4> QED BY <3>1, <4>1
    <3> QED BY <3>1, <3>2, <3>3
  <2> HIDE DEF a, b
  <2>4. FlattenSeq(b) = FlattenSeq(a) \o ss[k]
    BY <2>2, <2>3, FlattenAppend DEF S
  <2> QED BY <2>4 DEF Pre, a, b
<1> QED BY <1>2, <1>3, <1>4, <1>5

(* The first of them are what all of them begin with.                      *)
LEMMA PreWithin ==
  ASSUME NEW T, NEW ss \in Seq(Seq(T)), NEW k \in 0..Len(ss), NEW l \in 0..Len(ss), k <= l
  PROVE  /\ Len(Pre(ss, k)) \in Nat /\ Len(Pre(ss, l)) \in Nat
         /\ Len(Pre(ss, k)) <= Len(Pre(ss, l))
         /\ \A i \in 1..Len(Pre(ss, k)) : Pre(ss, l)[i] = Pre(ss, k)[i]
<1> DEFINE Longer(j) == /\ Len(Pre(ss, k)) <= Len(Pre(ss, j))
                        /\ \A i \in 1..Len(Pre(ss, k)) : Pre(ss, j)[i] = Pre(ss, k)[i]
           K == {n \in Nat : k + n <= Len(ss) => Longer(k + n)}
<1>1. \A j \in 0..Len(ss) : Pre(ss, j) \in Seq(T) /\ Len(Pre(ss, j)) \in Nat
  <2>1. \A s \in Seq(T) : Len(s) \in Nat
    OBVIOUS
  <2>2. \A j \in 0..Len(ss) : Pre(ss, j) \in Seq(T)
    BY PreFacts
  <2> QED BY <2>1, <2>2
<1>2. 0 \in K
  BY <1>1
<1>3. ASSUME NEW n \in K PROVE n + 1 \in K
  <2> SUFFICES ASSUME k + (n + 1) <= Len(ss) PROVE Longer(k + (n + 1))
    OBVIOUS
  <2> DEFINE j == k + n
  <2>1. /\ j \in 0..Len(ss) /\ j + 1 \in 1..Len(ss) /\ (j + 1) - 1 = j /\ k + (n + 1) = j + 1
        /\ Longer(j) /\ j + 1 \in 0..Len(ss)
    OBVIOUS
  <2> HIDE DEF j, K
  <2>2. Pre(ss, j + 1) = Pre(ss, j) \o ss[j + 1]
    <3>1. Pre(ss, j + 1) = Pre(ss, (j + 1) - 1) \o ss[j + 1]
      BY <2>1, PreFacts
    <3> QED BY <2>1, <3>1
  <2>3. ss[j + 1] \in Seq(T)
    BY <2>1
  <2> DEFINE a == Pre(ss, j)
             c == Pre(ss, k)
             d == Pre(ss, j + 1)
  <2>4. /\ a \in Seq(T) /\ Len(a) \in Nat /\ Len(c) \in Nat /\ d = a \o ss[j + 1]
        /\ Len(c) <= Len(a) /\ \A i \in 1..Len(c) : a[i] = c[i]
    BY <1>1, <2>1, <2>2
  <2> HIDE DEF a, c, d
  <2>5. /\ Len(ss[j + 1]) \in Nat /\ Len(a \o ss[j + 1]) = Len(a) + Len(ss[j + 1])
        /\ \A i \in 1..Len(a) : (a \o ss[j + 1])[i] = a[i]
    BY <2>3, <2>4, ConcatFacts
  <2>6. Len(c) <= Len(d)
    BY <2>4, <2>5
  <2>7. \A i \in 1..Len(c) : d[i] = c[i]
    <3>1. \A i \in 1..Len(c) : i \in 1..Len(a)
      BY <2>4
    <3> QED BY <2>4, <2>5, <3>1
  <2>8. Longer(j + 1)
    BY <2>6, <2>7 DEF c, d
  <2> QED BY <2>1, <2>8
<1>4. \A n \in Nat : n \in K
  <2>1. K \in SUBSET Nat
    OBVIOUS
  <2> HIDE DEF K
  <2> QED BY <1>2, <1>3, <2>1, AllOfNat
<1>5. l - k \in Nat /\ k + (l - k) = l /\ l <= Len(ss)
  OBVIOUS
<1>6. Longer(l)
  BY <1>4, <1>5
<1> QED BY <1>1, <1>6
-----------------------------------------------------------------------------
(* The parts of a message *)

Args(m) == [k \in DOMAIN m.args |-> Argument(m.args[k])]
FormatOf(args) == [text |-> [k \in DOMAIN args |-> args[k].type], bytes |-> Len(args) + 1]

IsArgument(arg) ==
  /\ arg.type \in {"T", "i", "h", "s", "b"}
  /\ arg.type \in {"s", "b"} => arg.value.bytes \in Nat

(* How long an argument is, by its kind                                    *)
LEMMA ArgumentSize ==
  ASSUME NEW arg, IsArgument(arg)
  PROVE  /\ Len(Argument(arg)) \in Nat
         /\ arg.type = "T" => Len(Argument(arg)) = 0
         /\ arg.type = "i" => Len(Argument(arg)) = 1
         /\ arg.type = "h" => Len(Argument(arg)) = 2
         /\ arg.type = "s" =>
              /\ Len(Argument(arg)) = PaddedWords(arg.value.bytes + 1)
              /\ Len(Argument(arg)) > 0 /\ Argument(arg)[1].of = arg.value
         /\ arg.type = "b" =>
              /\ Len(Argument(arg)) = 1 + PaddedWords(arg.value.bytes)
              /\ PaddedWords(arg.value.bytes) \in Nat
              /\ Argument(arg)[1].of = arg.value.bytes
<1> DEFINE V == {arg.value, arg.value.bytes}
<1>1. arg.value \in V /\ arg.value.bytes \in V
  OBVIOUS
<1> HIDE DEF V
<1>2. CASE arg.type = "T"
  <2>1. Len(<< >>) = 0
    OBVIOUS
  <2> QED BY <1>2, <2>1 DEF Argument
<1>3. CASE arg.type = "i"
  <2>1. Len(Words(1, arg.value)) = 1
    BY <1>1, WordsFacts
  <2> QED BY <1>3, <2>1 DEF Argument
<1>4. CASE arg.type = "h"
  <2>1. Len(Words(2, arg.value)) = 2
    BY <1>1, WordsFacts
  <2> QED BY <1>4, <2>1 DEF Argument
<1>5. CASE arg.type = "s"
  <2> DEFINE n == PaddedWords(arg.value.bytes + 1)
  <2>1. arg.value.bytes + 1 \in Nat /\ arg.value.bytes + 1 > 0
    BY <1>5 DEF IsArgument
  <2>2. n \in Nat /\ n > 0
    BY <2>1, PaddedFacts
  <2> HIDE DEF n
  <2>3. Len(Words(n, arg.value)) = n /\ \A k \in 1..n : Words(n, arg.value)[k].of = arg.value
    BY <1>1, <2>2, WordsFacts
  <2>4. 1 \in 1..n
    BY <2>2
  <2>5. Argument(arg) = Words(n, arg.value)
    BY <1>5 DEF Argument, String, n
  <2> QED BY <1>5, <2>2, <2>3, <2>4, <2>5 DEF n
<1>6. CASE arg.type = "b"
  <2> DEFINE n == PaddedWords(arg.value.bytes)
             a == Words(1, arg.value.bytes)
             b == Words(n, arg.value)
  <2>1. arg.value.bytes \in Nat
    BY <1>6 DEF IsArgument
  <2>2. n \in Nat
    BY <2>1, PaddedFacts
  <2>3. /\ a \in Seq(WordsOf(V)) /\ Len(a) = 1
        /\ \A k \in 1..1 : a[k].of = arg.value.bytes
    BY <1>1, WordsFacts
  <2>4. b \in Seq(WordsOf(V)) /\ Len(b) = n
    <3> HIDE DEF n
    <3> QED BY <1>1, <2>2, WordsFacts
  <2>5. Argument(arg) = a \o b
    BY <1>6 DEF Argument
  <2> HIDE DEF a, b, n
  <2>6. Len(a \o b) = Len(a) + Len(b) /\ \A i \in 1..Len(a) : (a \o b)[i] = a[i]
    BY <2>3, <2>4, ConcatFacts
  <2>7. 1 \in 1..1 /\ 1 \in 1..Len(a)
    BY <2>3
  <2>8. Len(Argument(arg)) = 1 + n /\ Argument(arg)[1].of = arg.value.bytes
    BY <2>3, <2>4, <2>5, <2>6, <2>7
  <2>9. 1 + n \in Nat
    BY <2>2
  <2> QED BY <1>6, <2>2, <2>8, <2>9 DEF n
<1> QED BY <1>2, <1>3, <1>4, <1>5, <1>6 DEF IsArgument

(* A message is a path, a format and arguments.                            *)
LEMMA MessageWordsFacts ==
  ASSUME NEW m \in Messages
  PROVE  \E T :
           /\ String(m.path) \in Seq(T) /\ String(FormatOf(m.args)) \in Seq(T)
           /\ Args(m) \in Seq(Seq(T)) /\ Len(Args(m)) = Len(m.args)
           /\ Head2(m) = String(m.path) \o String(FormatOf(m.args))
           /\ MessageWords(m) = Head2(m) \o FlattenSeq(Args(m))
<1> DEFINE args == m.args
           n == Len(args)
           fmt == FormatOf(args)
           V == {m.path, fmt} \cup {args[k].value : k \in 1..n}
                  \cup {args[k].value.bytes : k \in 1..n}
<1>1. /\ m.path.bytes \in Nat /\ n \in Nat /\ DOMAIN args = 1..n
      /\ \A k \in 1..n :
           /\ args[k].type \in {"T", "i", "h", "s", "b"}
           /\ args[k].type \in {"s", "b"} => args[k].value.bytes \in Nat
  BY MessagesAssumption
<1>2. Args(m) \in Seq(Seq(WordsOf(V))) /\ Len(Args(m)) = n
  <2>1. ASSUME NEW k \in 1..n PROVE Argument(args[k]) \in Seq(WordsOf(V))
    <3>1. args[k].value \in V /\ args[k].value.bytes \in V
      OBVIOUS
    <3> HIDE DEF V
    <3> QED BY <1>1, <3>1, ArgumentType
  <2>2. Args(m) = [k \in 1..n |-> Argument(args[k])]
    BY <1>1 DEF Args
  <2> HIDE DEF V, args, n
  <2> QED BY <1>1, <2>1, <2>2
<1>3. String(m.path) \in Seq(WordsOf(V))
  <2>1. m.path \in V
    OBVIOUS
  <2> HIDE DEF V
  <2> QED BY <1>1, <2>1, StringFacts
<1>4. String(fmt) \in Seq(WordsOf(V))
  <2>1. fmt \in V
    OBVIOUS
  <2>2. fmt.bytes \in Nat
    BY <1>1 DEF FormatOf
  <2> HIDE DEF V, fmt
  <2> QED BY <2>1, <2>2, StringFacts
<1>5. /\ Head2(m) = String(m.path) \o String(fmt)
      /\ MessageWords(m) = Head2(m) \o FlattenSeq(Args(m))
  BY DEF MessageWords, Head2, Format, FormatOf, Args
<1> QED BY <1>2, <1>3, <1>4, <1>5

LEMMA StringSize ==
  ASSUME NEW s, s.bytes \in Nat
  PROVE  /\ Len(String(s)) = PaddedWords(s.bytes + 1) /\ Len(String(s)) \in Nat
         /\ Len(String(s)) > 0 /\ String(s)[1].of = s
<1> DEFINE n == PaddedWords(s.bytes + 1)
           V == {s}
<1>1. n \in Nat /\ n > 0
  <2>1. s.bytes + 1 \in Nat /\ s.bytes + 1 > 0
    OBVIOUS
  <2> QED BY <2>1, PaddedFacts
<1>0. s \in V
  OBVIOUS
<1> HIDE DEF n, V
<1>2. Len(Words(n, s)) = n /\ \A k \in 1..n : Words(n, s)[k].of = s
  BY <1>0, <1>1, WordsFacts
<1>3. 1 \in 1..n
  BY <1>1
<1> QED BY <1>1, <1>2, <1>3 DEF String, n

(* Where the format, the arguments and each of them begin and end          *)
LEMMA MessageParts ==
  ASSUME NEW m \in Messages
  PROVE  LET n == Len(m.args)
             fmt == FormatOf(m.args)
             p == PaddedWords(m.path.bytes + 1)
             h == p + PaddedWords(fmt.bytes + 1)
         IN  /\ n \in Nat /\ p \in Nat /\ p > 0 /\ h \in Nat /\ p < h
             /\ Len(MessageWords(m)) \in Nat /\ h <= Len(MessageWords(m))
             /\ MessageWords(m)[1].of = m.path /\ MessageWords(m)[p + 1].of = fmt
             /\ ArgumentsEnd(m, 0) = h /\ ArgumentsEnd(m, n) = Len(MessageWords(m))
             /\ \A k \in 0..n : /\ ArgumentsEnd(m, k) \in Nat
                                /\ ArgumentsEnd(m, k) <= Len(MessageWords(m))
             /\ \A k, l \in 0..n : k <= l => ArgumentsEnd(m, k) <= ArgumentsEnd(m, l)
             /\ \A k \in 1..n :
                  /\ ArgumentsEnd(m, k) = ArgumentsEnd(m, k - 1) + Len(Argument(m.args[k]))
                  /\ \A i \in 1..Len(Argument(m.args[k])) :
                       MessageWords(m)[ArgumentsEnd(m, k - 1) + i] = Argument(m.args[k])[i]
<1> DEFINE n == Len(m.args)
           fmt == FormatOf(m.args)
           p == PaddedWords(m.path.bytes + 1)
           h == p + PaddedWords(fmt.bytes + 1)
           ss == Args(m)
           a == String(m.path)
           b == String(fmt)
           c == FlattenSeq(ss)
<1>1. /\ m.path.bytes \in Nat /\ n \in Nat /\ DOMAIN m.args = 1..n
  BY MessagesAssumption
<1>2. PICK T :
        /\ a \in Seq(T) /\ b \in Seq(T) /\ ss \in Seq(Seq(T)) /\ Len(ss) = n
        /\ Head2(m) = a \o b /\ MessageWords(m) = Head2(m) \o c
  BY MessageWordsFacts
<1>3. Len(a) = p /\ p \in Nat /\ p > 0 /\ a[1].of = m.path
  BY <1>1, StringSize
<1>f. fmt.bytes \in Nat
  BY <1>1 DEF FormatOf
<1>4. Len(b) = h - p /\ h - p \in Nat /\ h - p > 0 /\ b[1].of = fmt /\ h \in Nat
  <2> DEFINE q == PaddedWords(fmt.bytes + 1)
  <2>1. Len(b) = q /\ q \in Nat /\ q > 0 /\ b[1].of = fmt
    <3> HIDE DEF fmt
    <3> QED BY <1>f, StringSize
  <2>2. h = p + q
    OBVIOUS
  <2> HIDE DEF q, p, h
  <2> QED BY <1>3, <2>1, <2>2
<1>5. c \in Seq(T)
  BY <1>2, FlattenType
<1>6. \A k \in 1..n : ss[k] = Argument(m.args[k])
  BY <1>1 DEF Args
<1>7. \A k \in 0..n : ArgumentsEnd(m, k) = Len(Head2(m)) + Len(Pre(ss, k))
  <2> SUFFICES ASSUME NEW k \in 0..n
               PROVE  ArgumentsEnd(m, k) = Len(Head2(m)) + Len(Pre(ss, k))
    OBVIOUS
  <2>1. \A i \in 1..k : i \in 1..n
    BY <1>1
  <2>2. [i \in 1..k |-> ss[i]] = [i \in 1..k |-> Argument(m.args[i])]
    BY <1>6, <2>1
  <2> HIDE DEF ss
  <2> QED BY <2>2 DEF ArgumentsEnd, Pre
<1> HIDE DEF a, b, c, ss, p, h, n, fmt
<1>8. /\ a \o b \in Seq(T) /\ Len(a \o b) = h
      /\ (a \o b)[1] = a[1] /\ (a \o b)[p + 1] = b[1]
  <2>1. /\ a \o b \in Seq(T) /\ Len(a \o b) = Len(a) + Len(b)
        /\ \A i \in 1..Len(a) : (a \o b)[i] = a[i]
        /\ \A i \in 1..Len(b) : (a \o b)[Len(a) + i] = b[i]
    BY <1>2, ConcatFacts
  <2>2. 1 \in 1..Len(a) /\ 1 \in 1..Len(b)
    BY <1>3, <1>4
  <2>3. Len(a) + Len(b) = h
    BY <1>3, <1>4
  <2> QED BY <1>3, <2>1, <2>2, <2>3
<1> DEFINE w == MessageWords(m)
<1>9. /\ w \in Seq(T) /\ Len(w) = h + Len(c) /\ Len(c) \in Nat /\ Len(w) \in Nat
      /\ \A i \in 1..h : w[i] = (a \o b)[i]
      /\ \A i \in 1..Len(c) : w[h + i] = c[i]
  <2>1. w = (a \o b) \o c
    BY <1>2
  <2> DEFINE e == a \o b
  <2>0. e \in Seq(T)
    BY <1>8
  <2>e. Len(e) = h
    BY <1>8
  <2>2. w = e \o c
    BY <2>1
  <2> HIDE DEF e, w
  <2>3. /\ w \in Seq(T) /\ Len(w) = h + Len(c) /\ Len(c) \in Nat /\ Len(w) \in Nat
        /\ \A i \in 1..h : w[i] = e[i]
        /\ \A i \in 1..Len(c) : w[h + i] = c[i]
    <3>1. /\ e \o c \in Seq(T) /\ Len(e \o c) = Len(e) + Len(c) /\ Len(c) \in Nat
          /\ \A i \in 1..Len(e) : (e \o c)[i] = e[i]
          /\ \A i \in 1..Len(c) : (e \o c)[Len(e) + i] = c[i]
      BY <1>5, <2>0, ConcatFacts
    <3> QED BY <1>4, <2>e, <2>2, <3>1
  <2> QED BY <2>3 DEF e
<1> HIDE DEF w
<1>10. w[1].of = m.path /\ w[p + 1].of = fmt /\ p < h /\ h <= Len(w)
  <2>1. 1 \in 1..h /\ p + 1 \in 1..h /\ p < h /\ h <= Len(w)
    BY <1>3, <1>4, <1>9
  <2> QED BY <1>3, <1>4, <1>8, <1>9, <2>1
<1>11. /\ Pre(ss, 0) = << >> /\ Pre(ss, n) = c
       /\ \A k \in 0..n : Pre(ss, k) \in Seq(T)
       /\ \A k \in 1..n : Pre(ss, k) = Pre(ss, k - 1) \o ss[k]
  BY <1>2, PreFacts DEF c
<1>12. \A k \in 0..n : ArgumentsEnd(m, k) = h + Len(Pre(ss, k))
  BY <1>2, <1>7, <1>8
<1>13. \A k \in 0..n : /\ Len(Pre(ss, k)) \in Nat /\ Len(Pre(ss, k)) <= Len(c)
                       /\ \A i \in 1..Len(Pre(ss, k)) : c[i] = Pre(ss, k)[i]
  <2>1. n \in 0..n /\ n = Len(ss)
    BY <1>1, <1>2
  <2> SUFFICES ASSUME NEW k \in 0..n
               PROVE  /\ Len(Pre(ss, k)) \in Nat /\ Len(Pre(ss, k)) <= Len(c)
                      /\ \A i \in 1..Len(Pre(ss, k)) : c[i] = Pre(ss, k)[i]
    OBVIOUS
  <2>2. k <= n /\ k \in 0..Len(ss)
    BY <1>1, <2>1
  <2> QED BY <1>2, <1>11, <2>1, <2>2, PreWithin
<1>14. ArgumentsEnd(m, 0) = h /\ ArgumentsEnd(m, n) = Len(w)
  <2>1. 0 \in 0..n /\ n \in 0..n /\ Len(<< >>) = 0
    BY <1>1
  <2>2. Len(Pre(ss, 0)) = 0 /\ Len(Pre(ss, n)) = Len(c)
    BY <1>11, <2>1
  <2>3. ArgumentsEnd(m, 0) = h + 0 /\ ArgumentsEnd(m, n) = h + Len(c)
    BY <1>12, <2>1, <2>2
  <2>4. h + 0 = h
    BY <1>4
  <2>5. Len(w) = h + Len(c)
    BY <1>9
  <2> QED BY <2>3, <2>4, <2>5
<1>15. \A k \in 0..n : ArgumentsEnd(m, k) \in Nat /\ ArgumentsEnd(m, k) <= Len(w)
  BY <1>4, <1>9, <1>12, <1>13
<1>16. ASSUME NEW k \in 1..n
       PROVE  /\ ArgumentsEnd(m, k) = ArgumentsEnd(m, k - 1) + Len(ss[k])
              /\ \A i \in 1..Len(ss[k]) : w[ArgumentsEnd(m, k - 1) + i] = ss[k][i]
  <2> DEFINE u == Pre(ss, k - 1)
             v == Pre(ss, k)
  <2>1. k - 1 \in 0..n /\ k \in 0..n
    BY <1>1
  <2>a. u \in Seq(T)
    BY <1>11, <2>1
  <2>b. ss[k] \in Seq(T)
    BY <1>2
  <2>c. v = u \o ss[k]
    BY <1>11
  <2>2. /\ Len(v) \in Nat /\ Len(v) <= Len(c) /\ \A i \in 1..Len(v) : c[i] = v[i]
        /\ ArgumentsEnd(m, k) = h + Len(v) /\ ArgumentsEnd(m, k - 1) = h + Len(u)
    BY <1>12, <1>13, <2>1
  <2> HIDE DEF u, v
  <2>3. /\ Len(u) \in Nat /\ Len(ss[k]) \in Nat /\ Len(u \o ss[k]) = Len(u) + Len(ss[k])
        /\ \A i \in 1..Len(ss[k]) : (u \o ss[k])[Len(u) + i] = ss[k][i]
    BY <2>a, <2>b, ConcatFacts
  <2>d. Len(v) = Len(u) + Len(ss[k]) /\ \A i \in 1..Len(ss[k]) : v[Len(u) + i] = ss[k][i]
    BY <2>c, <2>3
  <2>4. ASSUME NEW i \in 1..Len(ss[k]) PROVE w[ArgumentsEnd(m, k - 1) + i] = ss[k][i]
    <3>1. Len(u) + i \in 1..Len(v) /\ Len(u) + i \in 1..Len(c)
      BY <2>2, <2>3, <2>d
    <3>2. w[h + (Len(u) + i)] = ss[k][i]
      BY <1>9, <2>2, <2>d, <3>1
    <3>3. h + (Len(u) + i) = (h + Len(u)) + i
      BY <1>4, <2>3
    <3> QED BY <2>2, <3>2, <3>3
  <2>5. ArgumentsEnd(m, k) = ArgumentsEnd(m, k - 1) + Len(ss[k])
    BY <1>4, <2>2, <2>3, <2>d
  <2> QED BY <2>4, <2>5
<1>o. ASSUME NEW k \in 0..n, NEW l \in 0..n, k <= l
      PROVE  ArgumentsEnd(m, k) <= ArgumentsEnd(m, l)
  <2>1. k \in 0..Len(ss) /\ l \in 0..Len(ss)
    BY <1>2
  <2>2. /\ Len(Pre(ss, k)) \in Nat /\ Len(Pre(ss, l)) \in Nat
        /\ Len(Pre(ss, k)) <= Len(Pre(ss, l))
    BY <1>2, <1>o, <2>1, PreWithin
  <2> QED BY <1>4, <1>12, <2>2
<1>17. /\ n \in Nat /\ p \in Nat /\ p > 0 /\ h \in Nat /\ p < h
       /\ Len(w) \in Nat /\ h <= Len(w)
       /\ w[1].of = m.path /\ w[p + 1].of = fmt
       /\ ArgumentsEnd(m, 0) = h /\ ArgumentsEnd(m, n) = Len(w)
       /\ \A k \in 0..n : ArgumentsEnd(m, k) \in Nat /\ ArgumentsEnd(m, k) <= Len(w)
       /\ \A k, l \in 0..n : k <= l => ArgumentsEnd(m, k) <= ArgumentsEnd(m, l)
       /\ \A k \in 1..n :
            /\ ArgumentsEnd(m, k) = ArgumentsEnd(m, k - 1) + Len(Argument(m.args[k]))
            /\ \A i \in 1..Len(Argument(m.args[k])) :
                 w[ArgumentsEnd(m, k - 1) + i] = Argument(m.args[k])[i]
  BY <1>1, <1>3, <1>4, <1>6, <1>9, <1>10, <1>14, <1>15, <1>16, <1>o
<1> QED BY <1>17 DEF n, p, h, fmt, w
-----------------------------------------------------------------------------
(* Reading a message *)

(* f is what ArgumentEnds computes for the first n types.                  *)
Ending(f, types, begin, to, n) ==
  f = [k \in 0..n |-> IF k = 0 THEN begin
                      ELSE IF f[k - 1] > to THEN f[k - 1]
                      ELSE ArgumentEnd(types[k], f[k - 1], to)]

LEMMA EndingExists ==
  ASSUME NEW types, NEW begin, NEW to, NEW n \in Nat
  PROVE  \E f : Ending(f, types, begin, to, n)
<1> DEFINE K == {k \in Nat : \E f : Ending(f, types, begin, to, k)}
           At(f, k) == IF k = 0 THEN begin
                       ELSE IF f[k - 1] > to THEN f[k - 1]
                       ELSE ArgumentEnd(types[k], f[k - 1], to)
<1>1. 0 \in K
  <2>1. Ending([k \in 0..0 |-> begin], types, begin, to, 0)
    BY DEF Ending
  <2> QED BY <2>1
<1>2. ASSUME NEW k \in K PROVE k + 1 \in K
  <2>1. PICK f : Ending(f, types, begin, to, k)
    OBVIOUS
  <2> DEFINE g == [i \in 0..(k + 1) |-> IF i <= k THEN f[i] ELSE At(f, i)]
  <2>2. \A i \in 0..k : f[i] = At(f, i)
    BY <2>1 DEF Ending
  <2>3. \A i \in 0..(k + 1) : g[i] = At(g, i)
    <3> SUFFICES ASSUME NEW i \in 0..(k + 1) PROVE g[i] = At(g, i)
      OBVIOUS
    <3>1. i # 0 => i - 1 \in 0..(k + 1) /\ i - 1 <= k
      OBVIOUS
    <3>2. i # 0 => g[i - 1] = f[i - 1]
      BY <3>1
    <3>3. i <= k => i \in 0..k
      OBVIOUS
    <3>4. g[i] = At(f, i)
      BY <2>2, <3>3
    <3>5. At(f, i) = At(g, i)
      <4> HIDE DEF g
      <4> QED BY <3>2
    <3> QED BY <3>4, <3>5
  <2>4. g = [i \in 0..(k + 1) |-> At(g, i)]
    <3>1. g = [i \in 0..(k + 1) |-> g[i]]
      OBVIOUS
    <3> HIDE DEF g, At
    <3> QED BY <2>3, <3>1
  <2>5. Ending(g, types, begin, to, k + 1)
    <3> HIDE DEF g
    <3> QED BY <2>4 DEF Ending
  <2> HIDE DEF g
  <2> QED BY <2>5
<1> HIDE DEF K
<1>3. n \in K
  BY <1>1, <1>2, AllOfNat DEF K
<1> QED BY <1>3 DEF K

LEMMA ArgumentEndsIs ==
  ASSUME NEW types, NEW begin, NEW to, Len(types) \in Nat
  PROVE  Ending(ArgumentEnds(types, begin, to), types, begin, to, Len(types))
<1> DEFINE f == CHOOSE h : Ending(h, types, begin, to, Len(types))
<1>1. Ending(f, types, begin, to, Len(types))
  BY EndingExists
<1>2. ArgumentEnds(types, begin, to) = f
  BY DEF ArgumentEnds, Ending
<1> QED BY <1>1, <1>2

(* The buffer holds the message's words behind from.                       *)
IsAt(m, from) ==
  \A i \in 1..Len(MessageWords(m)) : buf[from + i] = MessageWords(m)[i]

(* The numbers of arguments that end before to                             *)
Before(m, from, to) == {n \in 0..Len(m.args) : from + ArgumentsEnd(m, n) <= to}

Most(K) == CHOOSE n \in K : \A j \in K : j <= n

LEMMA MostFacts ==
  ASSUME NEW n \in Nat, NEW K \in SUBSET (0..n), K # {}
  PROVE  Most(K) \in K /\ \A j \in K : j <= Most(K)
<1> DEFINE T == {n - k : k \in K}
<1>1. T \subseteq Nat /\ T # {}
  <2>1. \A k \in K : n - k \in Nat
    OBVIOUS
  <2>2. PICK k \in K : TRUE
    OBVIOUS
  <2>3. n - k \in T
    OBVIOUS
  <2> QED BY <2>1, <2>3
<1>2. PICK x \in T : \A y \in T : ~(<<y, x>> \in OpToRel(<, Nat))
  BY <1>1, NatLessThanWellFounded, WFMin
<1>3. PICK k \in K : x = n - k
  OBVIOUS
<1>4. \A j \in K : j <= k
  <2> SUFFICES ASSUME NEW j \in K, ~(j <= k) PROVE FALSE
    OBVIOUS
  <2>1. n - j \in T /\ n - j \in Nat /\ n - k \in Nat /\ n - j < n - k
    OBVIOUS
  <2> QED BY <1>2, <1>3, <2>1 DEF OpToRel
<1> QED BY <1>4 DEF Most

(* What arg_next finds is where the arguments end, up to the first that    *)
(* does not end before to.                                                 *)
LEMMA EndsFacts ==
  ASSUME NEW m \in Messages, NEW from \in Nat, NEW to \in Nat,
         to <= from + Len(MessageWords(m)), IsAt(m, from)
  PROVE  LET ends == ArgumentEnds(FormatOf(m.args).text, from + ArgumentsEnd(m, 0), to)
         IN  \A k \in 0..Len(m.args) :
               IF from + ArgumentsEnd(m, k) <= to THEN ends[k] = from + ArgumentsEnd(m, k)
               ELSE ends[k] \in Nat /\ ends[k] > to
<1> DEFINE n == Len(m.args)
           types == FormatOf(m.args).text
           begin == from + ArgumentsEnd(m, 0)
           ends == ArgumentEnds(types, begin, to)
           E(k) == from + ArgumentsEnd(m, k)
           Right(k) == IF E(k) <= to THEN ends[k] = E(k) ELSE ends[k] \in Nat /\ ends[k] > to
           K == {k \in Nat : k <= n => Right(k)}
           w == MessageWords(m)
<1>1. /\ n \in Nat /\ Len(w) \in Nat /\ \A k \in 0..n : ArgumentsEnd(m, k) \in Nat
      /\ \A k \in 1..n :
           /\ ArgumentsEnd(m, k) = ArgumentsEnd(m, k - 1) + Len(Argument(m.args[k]))
           /\ \A i \in 1..Len(Argument(m.args[k])) :
                w[ArgumentsEnd(m, k - 1) + i] = Argument(m.args[k])[i]
      /\ \A k \in 0..n : ArgumentsEnd(m, k) <= Len(w)
  BY MessageParts
<1>2. /\ DOMAIN m.args = 1..n /\ \A k \in 1..n : IsArgument(m.args[k])
  BY MessagesAssumption DEF IsArgument
<1>3. types = [k \in 1..n |-> m.args[k].type] /\ Len(types) = n
  BY <1>1, <1>2 DEF FormatOf
<1>4. ends = [k \in 0..n |-> IF k = 0 THEN begin
                             ELSE IF ends[k - 1] > to THEN ends[k - 1]
                             ELSE ArgumentEnd(types[k], ends[k - 1], to)]
  <2> HIDE DEF ends, begin, types
  <2>1. Ending(ArgumentEnds(types, begin, to), types, begin, to, n)
    BY <1>1, <1>3, ArgumentEndsIs
  <2> QED BY <2>1 DEF Ending, ends
<1> HIDE DEF ends, types, n, w
<1>5. ends[0] = begin
  <2>1. 0 \in 0..n
    BY <1>1
  <2> QED BY <1>4, <2>1
<1>6. \A k \in 1..n : ends[k] = IF ends[k - 1] > to THEN ends[k - 1]
                                ELSE ArgumentEnd(types[k], ends[k - 1], to)
  <2> SUFFICES ASSUME NEW k \in 1..n
               PROVE  ends[k] = IF ends[k - 1] > to THEN ends[k - 1]
                                ELSE ArgumentEnd(types[k], ends[k - 1], to)
    OBVIOUS
  <2>1. k \in 0..n /\ k # 0
    BY <1>1
  <2> QED BY <1>4, <2>1
<1>7. 0 \in K
  <2>1. E(0) \in Nat
    <3>1. 0 \in 0..n
      BY <1>1
    <3> QED BY <1>1, <3>1
  <2>2. \A a \in Nat : IF a <= to THEN a = a ELSE a \in Nat /\ a > to
    OBVIOUS
  <2>3. Right(0)
    BY <1>5, <2>1, <2>2
  <2> QED BY <2>3
<1>8. ASSUME NEW l \in K PROVE l + 1 \in K
  <2> DEFINE k == l + 1
  <2> SUFFICES ASSUME k <= n PROVE Right(k)
    OBVIOUS
  <2>1. /\ l \in Nat /\ k \in 1..n /\ k \in 0..n /\ l \in 0..n /\ k - 1 = l /\ Right(l)
    BY <1>1
  <2> DEFINE arg == m.args[k]
             a == ArgumentsEnd(m, l)
             z == Len(Argument(arg))
             p == E(l)
  <2>2. /\ a \in Nat /\ a <= Len(w) /\ ArgumentsEnd(m, k) = a + z /\ p = from + a
        /\ \A i \in 1..z : w[a + i] = Argument(arg)[i]
        /\ IsArgument(arg) /\ types[k] = arg.type
    BY <1>1, <1>2, <1>3, <2>1
  <2>3. /\ z \in Nat
        /\ arg.type = "T" => z = 0
        /\ arg.type = "i" => z = 1
        /\ arg.type = "h" => z = 2
        /\ arg.type = "s" =>
             z = PaddedWords(arg.value.bytes + 1) /\ z > 0 /\ Argument(arg)[1].of = arg.value
        /\ arg.type = "b" =>
             /\ z = 1 + PaddedWords(arg.value.bytes) /\ PaddedWords(arg.value.bytes) \in Nat
             /\ Argument(arg)[1].of = arg.value.bytes
    BY <2>2, ArgumentSize
  <2>4. E(k) = p + z /\ p \in Nat /\ E(k) \in Nat
    BY <2>2, <2>3
  <2>5. ends[k] = IF ends[l] > to THEN ends[l] ELSE ArgumentEnd(arg.type, ends[l], to)
    BY <1>6, <2>1, <2>2
  <2>6. IF p <= to THEN ends[l] = p ELSE ends[l] \in Nat /\ ends[l] > to
    BY <2>1
  <2>e. E(k) = from + ArgumentsEnd(m, k)
    OBVIOUS
  <2>7. p < to /\ 0 < z => Word(p) = Argument(arg)[1].of
    <3> SUFFICES ASSUME p < to, 0 < z PROVE Word(p) = Argument(arg)[1].of
      OBVIOUS
    <3>1. a + 1 \in 1..Len(w) /\ from + (a + 1) = p + 1 /\ 1 \in 1..z
      <4>1. p < from + Len(w)
        BY <1>1, <2>4 DEF w
      <4> HIDE DEF a, z, p
      <4> QED BY <1>1, <2>2, <2>3, <4>1
    <3>2. buf[from + (a + 1)] = w[a + 1]
      BY <3>1 DEF IsAt, w
    <3>3. w[a + 1] = Argument(arg)[1]
      BY <2>2, <3>1
    <3>4. buf[p + 1] = Argument(arg)[1]
      <4> HIDE DEF a, z, p, arg
      <4> QED BY <3>1, <3>2, <3>3
    <3> QED BY <3>4 DEF Word
  <2>8. arg.type \in {"T", "i", "h", "s", "b"}
    BY <2>2 DEF IsArgument
  <2> DEFINE next == E(k)
             this == ends[k]
             prev == ends[l]
  <2>9. CASE ~(p <= to)
    <3>1. prev \in Nat /\ prev > to /\ this = prev
      BY <2>5, <2>6, <2>9
    <3>2. ~(next <= to)
      <4>1. next = p + z /\ p \in Nat /\ z \in Nat
        BY <2>3, <2>4
      <4> HIDE DEF p, z, next
      <4> QED BY <2>9, <4>1
    <3> QED BY <3>1, <3>2
  <2>10. CASE p <= to
    <3>1. prev = p /\ this = ArgumentEnd(arg.type, p, to)
      <4>1. prev = p /\ ~(prev > to)
        <5> HIDE DEF p, prev
        <5> QED BY <2>4, <2>6, <2>10 DEF prev
      <4> QED BY <2>5, <4>1
    <3> HIDE DEF p, z, arg, next, this, prev
    <3>2. next = p + z
      BY <2>4 DEF next
    <3>3. CASE arg.type = "T"
      <4>1. this = p /\ next = p
        BY <2>3, <2>4, <3>1, <3>2, <3>3 DEF ArgumentEnd
      <4> QED BY <2>4, <2>10, <4>1 DEF this, next
    <3>4. CASE arg.type = "i"
      <4>1. this = p + 1 /\ next = p + 1
        BY <2>3, <2>4, <3>1, <3>2, <3>4 DEF ArgumentEnd
      <4>2. this = next /\ next \in Nat
        BY <2>4, <4>1
      <4> QED BY <4>2 DEF this, next
    <3>5. CASE arg.type = "h"
      <4>1. this = p + 2 /\ next = p + 2
        BY <2>3, <2>4, <3>1, <3>2, <3>5 DEF ArgumentEnd
      <4>2. this = next /\ next \in Nat
        BY <2>4, <4>1
      <4> QED BY <4>2 DEF this, next
    <3>6. CASE arg.type = "s"
      <4>0. this = IF p < to THEN p + PaddedWords(Word(p).bytes + 1) ELSE p + 1
        BY <3>1, <3>6 DEF ArgumentEnd, StringEnd
      <4>1. CASE p < to
        <5>1. Word(p) = arg.value
          BY <2>3, <2>7, <3>6, <4>1
        <5>2. this = next /\ next \in Nat
          BY <2>3, <2>4, <3>2, <3>6, <4>0, <4>1, <5>1 DEF next
        <5> QED BY <5>2 DEF this, next
      <4>2. CASE ~(p < to)
        <5>1. this = p + 1 /\ p = to
          BY <2>4, <2>10, <4>0, <4>2
        <5>2. ~(next <= to) /\ this \in Nat /\ this > to
          BY <2>3, <2>4, <3>2, <3>6, <5>1
        <5> QED BY <5>2 DEF this, next
      <4> QED BY <4>1, <4>2
    <3>7. CASE arg.type = "b"
      <4>0. this = IF p < to THEN p + 1 + PaddedWords(Word(p)) ELSE p + 1
        BY <3>1, <3>7 DEF ArgumentEnd
      <4>z. 0 < z
        BY <2>3, <3>7
      <4>1. CASE p < to
        <5>1. Word(p) = arg.value.bytes
          BY <2>3, <2>7, <3>7, <4>1, <4>z
        <5>2. this = next /\ next \in Nat
          BY <2>3, <2>4, <3>2, <3>7, <4>0, <4>1, <5>1 DEF next
        <5> QED BY <5>2 DEF this, next
      <4>2. CASE ~(p < to)
        <5>1. this = p + 1 /\ p = to
          BY <2>4, <2>10, <4>0, <4>2
        <5>2. ~(next <= to) /\ this \in Nat /\ this > to
          BY <2>3, <2>4, <3>2, <4>z, <5>1
        <5> QED BY <5>2 DEF this, next
      <4> QED BY <4>1, <4>2
    <3> QED BY <2>8, <3>3, <3>4, <3>5, <3>6, <3>7
  <2> QED BY <2>9, <2>10
<1>9. \A k \in Nat : k \in K
  <2>1. K \in SUBSET Nat
    OBVIOUS
  <2> HIDE DEF K
  <2> QED BY <1>7, <1>8, <2>1, AllOfNat
<1>10. \A k \in 0..n : Right(k)
  <2>1. \A k \in 0..n : k \in Nat /\ k <= n
    BY <1>1
  <2> QED BY <1>9, <2>1
<1> QED BY <1>10 DEF ends, types, n

LEMMA SliceFacts ==
  ASSUME NEW U, NEW s \in Seq(U), NEW a \in Nat, NEW b \in Nat, a <= b, b <= Len(s)
  PROVE  /\ SubSeq(s, a + 1, b) \in Seq(U) /\ Len(SubSeq(s, a + 1, b)) = b - a
         /\ \A i \in 1..(b - a) : SubSeq(s, a + 1, b)[i] = s[a + i]
  OBVIOUS

LEMMA SameSeq ==
  ASSUME NEW U, NEW V, NEW s \in Seq(U), NEW t \in Seq(V), Len(s) = Len(t),
         \A i \in 1..Len(s) : s[i] = t[i]
  PROVE  s = t
  OBVIOUS

(* The words of an argument are where it is.                               *)
LEMMA ArgumentSlice ==
  ASSUME NEW m \in Messages, NEW from \in Nat, IsAt(m, from), IsWords(buf),
         from + Len(MessageWords(m)) <= Len(buf), NEW k \in 1..Len(m.args)
  PROVE  SubSeq(buf, from + ArgumentsEnd(m, k - 1) + 1, from + ArgumentsEnd(m, k))
           = Argument(m.args[k])
<1> DEFINE n == Len(m.args)
           w == MessageWords(m)
           arg == Argument(m.args[k])
           c == ArgumentsEnd(m, k - 1)
           d == ArgumentsEnd(m, k)
<1>1. /\ n \in Nat /\ Len(w) \in Nat /\ \A l \in 0..n : ArgumentsEnd(m, l) \in Nat
      /\ d = c + Len(arg) /\ \A i \in 1..Len(arg) : w[c + i] = arg[i]
      /\ \A l \in 0..n : ArgumentsEnd(m, l) <= Len(w)
  BY MessageParts
<1>2. k - 1 \in 0..n /\ k \in 0..n
  BY <1>1
<1>3. c \in Nat /\ d \in Nat /\ d <= Len(w)
  BY <1>1, <1>2
<1>4. PICK T : Args(m) \in Seq(Seq(T)) /\ Len(Args(m)) = n
  BY MessageWordsFacts
<1>5. arg \in Seq(T)
  <2>1. DOMAIN m.args = 1..n
    BY MessagesAssumption
  <2>2. Args(m)[k] = arg
    BY <2>1 DEF Args
  <2> QED BY <1>4, <2>2
<1>6. Len(arg) \in Nat
  BY <1>5
<1>7. PICK V : buf \in Seq(WordsOf(V))
  BY DEF IsWords
<1> DEFINE S == WordsOf(V)
           a == from + c
           b == from + d
<1>8. /\ a \in Nat /\ b \in Nat /\ a <= b /\ b <= Len(buf) /\ b - a = Len(arg)
  <2>1. Len(buf) \in Nat /\ from + Len(w) <= Len(buf)
    BY LengthOfWords
  <2>2. d = c + Len(arg)
    BY <1>1
  <2> HIDE DEF c, d, arg, w
  <2> QED BY <1>1, <1>3, <1>6, <2>1, <2>2
<1>9. \A i \in 1..Len(arg) : buf[a + i] = arg[i]
  <2> SUFFICES ASSUME NEW i \in 1..Len(arg) PROVE buf[a + i] = arg[i]
    OBVIOUS
  <2>1. c + i \in 1..Len(w) /\ from + (c + i) = a + i
    <3>1. d = c + Len(arg)
      BY <1>1
    <3> HIDE DEF c, d, arg, w
    <3> QED BY <1>1, <1>3, <1>6, <3>1
  <2>2. buf[from + (c + i)] = w[c + i]
    BY <2>1 DEF IsAt
  <2>3. w[c + i] = arg[i]
    BY <1>1
  <2> HIDE DEF a, c, w, arg
  <2> QED BY <2>1, <2>2, <2>3
<1> HIDE DEF S, a, b, arg
<1>10. buf \in Seq(S)
  BY <1>7 DEF S
<1>11. /\ SubSeq(buf, a + 1, b) \in Seq(S) /\ Len(SubSeq(buf, a + 1, b)) = b - a
       /\ \A i \in 1..(b - a) : SubSeq(buf, a + 1, b)[i] = buf[a + i]
  BY <1>8, <1>10, SliceFacts
<1> DEFINE t == SubSeq(buf, a + 1, b)
<1>12. t \in Seq(S) /\ Len(t) = Len(arg) /\ \A i \in 1..Len(t) : t[i] = arg[i]
  BY <1>8, <1>9, <1>11
<1> HIDE DEF t
<1>13. t = arg
  BY <1>5, <1>12, SameSeq
<1> QED BY <1>13 DEF t, a, b, arg

GivenArgs(m, n) ==
  [k \in 1..n |-> [type |-> m.args[k].type, words |-> Argument(m.args[k])]]

(* Where the path and the format of a message end                          *)
LEMMA HeadRead ==
  ASSUME NEW m \in Messages, NEW from \in Nat, NEW to \in Nat, from < to,
         IsAt(m, from)
  PROVE  LET p == PaddedWords(m.path.bytes + 1)
             h == p + PaddedWords(FormatOf(m.args).bytes + 1)
         IN  /\ StringEnd(from, to) = from + p /\ Word(from) = m.path
             /\ Word(from + p) = FormatOf(m.args)
             /\ StringEnd(from + p, to) = IF from + p < to THEN from + h ELSE from + p + 1
<1> DEFINE n == Len(m.args)
           p == PaddedWords(m.path.bytes + 1)
           q == PaddedWords(FormatOf(m.args).bytes + 1)
           h == p + q
           w == MessageWords(m)
<1>1. /\ n \in Nat /\ p \in Nat /\ p > 0 /\ h \in Nat /\ p < h
      /\ Len(w) \in Nat /\ h <= Len(w)
      /\ w[1].of = m.path /\ w[p + 1].of = FormatOf(m.args)
  BY MessageParts
<1>2. q \in Nat
  <2>1. FormatOf(m.args).bytes = n + 1
    BY DEF FormatOf
  <2> HIDE DEF n
  <2> QED BY <1>1, <2>1, PaddedFacts
<1>3. Word(from) = m.path /\ Word(from + p) = FormatOf(m.args)
  <2> HIDE DEF w, p, h
  <2>1. 1 \in 1..Len(w) /\ p + 1 \in 1..Len(w) /\ from + (p + 1) = from + p + 1
    BY <1>1
  <2>2. buf[from + 1] = w[1] /\ buf[from + (p + 1)] = w[p + 1]
    BY <2>1 DEF IsAt, w
  <2> QED BY <1>1, <2>1, <2>2 DEF Word
<1>4. StringEnd(from, to) = from + p
  BY <1>3 DEF StringEnd
<1>5. StringEnd(from + p, to) = IF from + p < to THEN (from + p) + q ELSE from + p + 1
  BY <1>3 DEF StringEnd
<1>6. (from + p) + q = from + h
  <2>1. h = p + q
    OBVIOUS
  <2> HIDE DEF p, q, h
  <2> QED BY <1>1, <1>2, <2>1
<1> HIDE DEF p, q, h
<1> QED BY <1>3, <1>4, <1>5, <1>6 DEF p, q, h

(* A message of which some arrived is valid if its head did and, if there  *)
(* are arguments, the first of them; those that are whole are found.       *)
LEMMA ReadsMessage ==
  ASSUME NEW m \in Messages, NEW from \in Nat, NEW to \in Nat, from < to,
         to <= from + Len(MessageWords(m)), IsAt(m, from), IsWords(buf),
         from + Len(MessageWords(m)) <= Len(buf)
  PROVE  LET K == Before(m, from, to)
             r == ReadMessage(from, to)
         IN  /\ r.valid <=> K # {} /\ (K # {0} \/ Len(m.args) = 0)
             /\ r.valid => r.path = m.path /\ r.args = GivenArgs(m, Most(K))
<1> DEFINE n == Len(m.args)
           K == Before(m, from, to)
           E(k) == from + ArgumentsEnd(m, k)
           p == PaddedWords(m.path.bytes + 1)
           h == p + PaddedWords(FormatOf(m.args).bytes + 1)
           w == MessageWords(m)
           types == FormatOf(m.args).text
           ends == ArgumentEnds(types, from + h, to)
<1>1. /\ n \in Nat /\ p \in Nat /\ p > 0 /\ h \in Nat /\ p < h
      /\ Len(w) \in Nat /\ h <= Len(w)
      /\ w[1].of = m.path /\ w[p + 1].of = FormatOf(m.args)
      /\ ArgumentsEnd(m, 0) = h
      /\ \A k \in 0..n : ArgumentsEnd(m, k) \in Nat
      /\ \A k, l \in 0..n : k <= l => ArgumentsEnd(m, k) <= ArgumentsEnd(m, l)
  BY MessageParts
<1>2. types = [k \in 1..n |-> m.args[k].type] /\ Len(types) = n
  <2>1. DOMAIN m.args = 1..n
    BY MessagesAssumption
  <2> QED BY <1>1, <2>1 DEF FormatOf
<1>3. /\ StringEnd(from, to) = from + p /\ Word(from) = m.path
      /\ Word(from + p) = FormatOf(m.args)
      /\ StringEnd(from + p, to) = IF from + p < to THEN from + h ELSE from + p + 1
  BY HeadRead
<1>4. \A k \in 0..n : IF E(k) <= to THEN ends[k] = E(k) ELSE ends[k] \in Nat /\ ends[k] > to
  <2>1. ArgumentEnds(FormatOf(m.args).text, from + ArgumentsEnd(m, 0), to) = ends
    BY <1>1
  <2> HIDE DEF ends, types
  <2> QED BY <2>1, EndsFacts
<1> DEFINE whole == {k \in 0..Len(types) : ends[k] <= to}
           count == CHOOSE k \in whole : \A j \in whole : j <= k
           headed == from < to /\ from + p < to /\ from + h <= to
           given == [k \in 1..count |->
                        [type |-> types[k], words |-> SubSeq(buf, ends[k - 1] + 1, ends[k])]]
<1> DEFINE fmt == StringEnd(from, to)
           begin == StringEnd(fmt, to)
<1>5. /\ fmt = from + p /\ (fmt <= to /\ begin <= to <=> headed)
      /\ headed => begin = from + h
  <2>1. fmt = from + p /\ begin = IF from + p < to THEN from + h ELSE from + p + 1
    BY <1>3
  <2> HIDE DEF fmt, begin, p, h
  <2> QED BY <1>1, <2>1
<1>6. ReadMessage(from, to) =
        IF ~headed THEN [valid |-> FALSE]
        ELSE [valid |-> Len(types) = 0 \/ count > 0, path |-> m.path, args |-> given]
  <2>1. CASE ~headed
    <3>1. ~(fmt <= to /\ begin <= to)
      BY <1>5, <2>1
    <3>2. ReadMessage(from, to) = [valid |-> FALSE]
      BY <3>1 DEF ReadMessage
    <3> HIDE DEF headed
    <3> QED BY <2>1, <3>2
  <2>2. CASE headed
    <3>1. fmt <= to /\ begin <= to /\ begin = from + h /\ Word(fmt).text = types
      BY <1>3, <1>5, <2>2
    <3>2. ReadMessage(from, to) =
            [valid |-> Len(types) = 0 \/ count > 0, path |-> m.path, args |-> given]
      BY <1>3, <3>1 DEF ReadMessage
    <3> HIDE DEF headed
    <3> QED BY <2>2, <3>2
  <2> QED BY <2>1, <2>2
<1>7. whole = K
  <2>1. \A k \in 0..n : E(k) \in Nat
    BY <1>1
  <2>2. \A k \in 0..n : ends[k] <= to <=> E(k) <= to
    <3> SUFFICES ASSUME NEW k \in 0..n PROVE ends[k] <= to <=> E(k) <= to
      OBVIOUS
    <3> DEFINE a == ends[k]
               b == E(k)
    <3>1. IF b <= to THEN a = b ELSE a \in Nat /\ a > to
      BY <1>4
    <3>2. a <= to <=> b <= to
      <4> HIDE DEF a, b
      <4> QED BY <3>1
    <3> QED BY <3>2
  <2> HIDE DEF ends, types
  <2> QED BY <1>2, <2>2 DEF Before
<1>8. count = Most(K)
  <2> HIDE DEF whole, K
  <2> QED BY <1>7 DEF Most
<1>9. headed <=> from + h <= to
  <2> HIDE DEF p, h
  <2> QED BY <1>1
<1>10. headed <=> 0 \in K
  <2>1. 0 \in 0..n
    BY <1>1
  <2> HIDE DEF h, headed
  <2> QED BY <1>1, <1>9, <2>1 DEF Before
<1>11. K # {} => 0 \in K
  <2> SUFFICES ASSUME NEW k \in K PROVE 0 \in K
    OBVIOUS
  <2>1. k \in 0..n /\ 0 \in 0..n /\ 0 <= k /\ E(k) <= to
    BY <1>1 DEF Before
  <2>2. ArgumentsEnd(m, 0) <= ArgumentsEnd(m, k)
    BY <1>1, <2>1
  <2>3. ArgumentsEnd(m, 0) \in Nat /\ ArgumentsEnd(m, k) \in Nat
    BY <1>1, <2>1
  <2>4. E(0) <= to
    BY <2>1, <2>2, <2>3
  <2> QED BY <2>1, <2>4 DEF Before
<1>12. CASE K = {}
  <2>1. ReadMessage(from, to) = [valid |-> FALSE]
    <3> HIDE DEF headed, given, K
    <3> QED BY <1>6, <1>10, <1>12
  <2>2. ~ ReadMessage(from, to).valid
    BY <2>1
  <2>3. ~(K # {} /\ (K # {0} \/ n = 0))
    BY <1>12
  <2> HIDE DEF K, n
  <2> QED BY <2>2, <2>3 DEF K, n
<1>13. CASE K # {}
  <2>1. ReadMessage(from, to) =
          [valid |-> n = 0 \/ count > 0, path |-> m.path, args |-> given]
    <3> HIDE DEF headed, given, count, K, types
    <3> QED BY <1>2, <1>6, <1>10, <1>11, <1>13
  <2>2. count \in K /\ \A j \in K : j <= count
    <3>1. K \in SUBSET (0..n)
      BY DEF Before
    <3> HIDE DEF count, K, n
    <3> QED BY <1>1, <1>8, <1>13, <3>1, MostFacts
  <2>3. count \in 0..n /\ E(count) <= to
    <3>1. \A k \in K : k \in 0..n /\ E(k) <= to
      BY DEF Before
    <3> HIDE DEF count
    <3> QED BY <2>2, <3>1
  <2>4. count > 0 <=> K # {0}
    <3> HIDE DEF count, K
    <3>1. count = 0 \/ count > 0
      BY <1>1, <2>3
    <3>2. count = 0 => K = {0}
      <4> SUFFICES ASSUME count = 0 PROVE K = {0}
        OBVIOUS
      <4>1. \A j \in K : j \in Nat
        BY DEF K, Before
      <4>2. \A j \in K : j = 0
        BY <2>2, <4>1
      <4> QED BY <1>11, <1>13, <4>2
    <3> QED BY <2>2, <3>1, <3>2
  <2>5. given = GivenArgs(m, count)
    <3> HIDE DEF count
    <3>1. ASSUME NEW k \in 1..count
          PROVE  /\ types[k] = m.args[k].type
                 /\ SubSeq(buf, ends[k - 1] + 1, ends[k]) = Argument(m.args[k])
      <4>1. k \in 1..n /\ k \in 0..n /\ k - 1 \in 0..n /\ k <= count /\ k - 1 <= count
        BY <1>1, <2>3
      <4>2. ArgumentsEnd(m, k) <= ArgumentsEnd(m, count)
            /\ ArgumentsEnd(m, k - 1) <= ArgumentsEnd(m, count)
        BY <1>1, <2>3, <4>1
      <4>3. /\ ArgumentsEnd(m, k) \in Nat /\ ArgumentsEnd(m, k - 1) \in Nat
            /\ ArgumentsEnd(m, count) \in Nat
        BY <1>1, <2>3, <4>1
      <4>4. E(k) <= to /\ E(k - 1) <= to
        BY <2>3, <4>2, <4>3
      <4>5. ends[k] = E(k) /\ ends[k - 1] = E(k - 1)
        BY <1>4, <4>1, <4>4
      <4>6. SubSeq(buf, E(k - 1) + 1, E(k)) = Argument(m.args[k])
        BY <4>1, ArgumentSlice
      <4>7. types[k] = m.args[k].type
        BY <1>2, <4>1
      <4> HIDE DEF ends, types
      <4> QED BY <4>5, <4>6, <4>7
    <3> HIDE DEF ends, types
    <3> QED BY <3>1 DEF GivenArgs
  <2> HIDE DEF given, count, K, n
  <2> DEFINE first == (n = 0 \/ count > 0)
             r == [valid |-> first, path |-> m.path, args |-> given]
  <2>6. /\ ReadMessage(from, to).valid <=> first
        /\ ReadMessage(from, to).path = m.path /\ ReadMessage(from, to).args = given
    <3>1. ReadMessage(from, to) = r
      BY <2>1
    <3>2. r.valid = first /\ r.path = m.path /\ r.args = given
      <4> HIDE DEF first
      <4> QED OBVIOUS
    <3> HIDE DEF r, first
    <3> QED BY <3>1, <3>2
  <2> QED BY <1>8, <1>13, <2>4, <2>5, <2>6 DEF n, K
<1> QED BY <1>12, <1>13
-----------------------------------------------------------------------------
(* What was handled, and what should have been *)

Kept(s, K) == [k \in DOMAIN s |-> IF k \in K THEN <<s[k]>> ELSE << >>]

LEMMA KeptFacts ==
  ASSUME NEW T, NEW s \in Seq(T), NEW K
  PROVE  /\ Len(s) \in Nat /\ DOMAIN s = 1..Len(s)
         /\ Kept(s, K) \in Seq(Seq(T)) /\ Len(Kept(s, K)) = Len(s)
         /\ \A k \in 1..Len(s) : /\ k \in K => Kept(s, K)[k] = <<s[k]>>
                                 /\ k \notin K => Kept(s, K)[k] = << >>
<1> DEFINE S == Seq(T)
           c == Kept(s, K)
<1>1. Len(s) \in Nat /\ DOMAIN s = 1..Len(s) /\ \A k \in 1..Len(s) : s[k] \in T
  OBVIOUS
<1>2. \A a \in T : <<a>> \in S
  OBVIOUS
<1>3. << >> \in S
  OBVIOUS
<1> HIDE DEF S
<1>4. c = [k \in 1..Len(s) |-> IF k \in K THEN <<s[k]>> ELSE << >>]
  BY <1>1 DEF Kept
<1>5. \A k \in 1..Len(s) : (IF k \in K THEN <<s[k]>> ELSE << >>) \in S
  BY <1>1, <1>2, <1>3
<1>6. c \in Seq(S) /\ Len(c) = Len(s)
  BY <1>1, <1>4, <1>5
<1>7. \A k \in 1..Len(s) : c[k] = IF k \in K THEN <<s[k]>> ELSE << >>
  BY <1>4
<1> QED BY <1>1, <1>6, <1>7 DEF S

(* One more is kept, or dropped.                                           *)
LEMMA ThoseAppend ==
  ASSUME NEW T, NEW s \in Seq(T), NEW e \in T, NEW K, NEW L,
         \A k \in 1..Len(s) : k \in L <=> k \in K
  PROVE  /\ Those(s, K) \in Seq(T)
         /\ Len(s) + 1 \in L => Those(Append(s, e), L) = Append(Those(s, K), e)
         /\ Len(s) + 1 \notin L => Those(Append(s, e), L) = Those(s, K)
<1> DEFINE n == Len(s)
           v == Append(s, e)
           ss == Kept(s, K)
           tt == Kept(v, L)
           S == Seq(T)
<1>1. /\ n \in Nat /\ v \in Seq(T) /\ Len(v) = n + 1 /\ v[n + 1] = e
      /\ \A k \in 1..n : v[k] = s[k]
  BY AppendFacts
<1>2. /\ ss \in Seq(S) /\ Len(ss) = n
      /\ \A k \in 1..n : /\ k \in K => ss[k] = <<s[k]>>
                         /\ k \notin K => ss[k] = << >>
  BY KeptFacts
<1>3. /\ tt \in Seq(S) /\ Len(tt) = Len(v)
      /\ \A k \in 1..Len(v) : /\ k \in L => tt[k] = <<v[k]>>
                              /\ k \notin L => tt[k] = << >>
  <2> HIDE DEF v
  <2> QED BY <1>1, KeptFacts
<1>4. Those(s, K) = FlattenSeq(ss) /\ Those(v, L) = FlattenSeq(tt)
  BY DEF Those, Kept
<1>5. FlattenSeq(ss) \in Seq(T)
  BY <1>2, FlattenType
<1>6. ASSUME NEW x \in Seq(T), tt[n + 1] = x PROVE FlattenSeq(tt) = FlattenSeq(ss) \o x
  <2> DEFINE uu == Append(ss, x)
  <2>1. x \in S
    BY <1>6
  <2> HIDE DEF ss, tt, S, n, v
  <2>2. /\ uu \in Seq(S) /\ Len(uu) = n + 1 /\ uu[n + 1] = x
        /\ \A k \in 1..n : uu[k] = ss[k]
    BY <1>2, <2>1, AppendFacts
  <2> HIDE DEF uu
  <2>3. \A k \in 1..(n + 1) : tt[k] = uu[k]
    <3> SUFFICES ASSUME NEW k \in 1..(n + 1) PROVE tt[k] = uu[k]
      OBVIOUS
    <3>1. CASE k = n + 1
      BY <1>6, <2>2, <3>1
    <3>2. CASE k # n + 1
      <4>1. k \in 1..n /\ k \in 1..Len(v)
        BY <1>1, <3>2
      <4>2. k \in L <=> k \in K
        BY <4>1 DEF n
      <4>3. tt[k] = ss[k]
        BY <1>1, <1>2, <1>3, <4>1, <4>2
      <4> QED BY <2>2, <4>1, <4>3
    <3> QED BY <3>1, <3>2
  <2>4. tt = uu
    <3>1. Len(tt) = n + 1 /\ Len(uu) = n + 1 /\ tt \in Seq(S) /\ uu \in Seq(S)
      BY <1>1, <1>3, <2>2
    <3> QED BY <2>3, <3>1, SameSeq
  <2> QED BY <1>2, <1>6, <2>4, FlattenAppend DEF uu, S
<1>7. CASE n + 1 \in L
  <2>1. n + 1 \in 1..Len(v)
    BY <1>1
  <2>2. tt[n + 1] = <<e>> /\ <<e>> \in Seq(T)
    BY <1>1, <1>3, <1>7, <2>1
  <2>3. FlattenSeq(tt) = FlattenSeq(ss) \o <<e>>
    BY <1>6, <2>2
  <2>4. \A u \in Seq(T) : u \o <<e>> = Append(u, e)
    OBVIOUS
  <2> HIDE DEF ss, tt, v
  <2> QED BY <1>4, <1>5, <1>7, <2>3, <2>4 DEF v
<1>8. CASE n + 1 \notin L
  <2>1. n + 1 \in 1..Len(v)
    BY <1>1
  <2>2. tt[n + 1] = << >> /\ << >> \in Seq(T)
    BY <1>1, <1>3, <1>8, <2>1
  <2>3. FlattenSeq(tt) = FlattenSeq(ss) \o << >>
    BY <1>6, <2>2
  <2>4. \A u \in Seq(T) : u \o << >> = u
    OBVIOUS
  <2> HIDE DEF ss, tt, v
  <2> QED BY <1>4, <1>5, <1>8, <2>3, <2>4 DEF v
<1> QED BY <1>7, <1>8, <1>4, <1>5

(* Nothing is kept of nothing.                                             *)
LEMMA ThoseNone == ASSUME NEW K PROVE Those(<< >>, K) = << >>
<1>1. << >> \in Seq({})
  OBVIOUS
<1>2. Kept(<< >>, K) \in Seq(Seq({})) /\ Len(Kept(<< >>, K)) = Len(<< >>)
  BY <1>1, KeptFacts
<1>3. Kept(<< >>, K) = << >>
  BY <1>2
<1> QED BY <1>3, FlattenEmpty DEF Those, Kept

(* What begins s and nothing else is kept.                                 *)
LEMMA ThoseFirst ==
  ASSUME NEW T, NEW s \in Seq(T), NEW n \in 0..Len(s), NEW K,
         \A k \in 1..Len(s) : k \in K <=> k <= n
  PROVE  Those(s, K) = [k \in 1..n |-> s[k]]
<1> DEFINE ss == Kept(s, K)
           S == Seq(T)
           First(i) == [k \in 1..i |-> s[k]]
           M == {i \in Nat : i <= Len(s) => Pre(ss, i) = First(IF i <= n THEN i ELSE n)}
<1>1. /\ ss \in Seq(S) /\ Len(ss) = Len(s) /\ Len(s) \in Nat
      /\ \A k \in 1..Len(s) : /\ k \in K => ss[k] = <<s[k]>>
                              /\ k \notin K => ss[k] = << >>
  BY KeptFacts
<1>2. /\ Pre(ss, 0) = << >> /\ Pre(ss, Len(ss)) = FlattenSeq(ss)
      /\ \A k \in 1..Len(ss) : Pre(ss, k) = Pre(ss, k - 1) \o ss[k]
  BY <1>1, PreFacts
<1>3. 0 \in M
  <2>1. First(0) = << >>
    OBVIOUS
  <2>2. 0 <= n
    OBVIOUS
  <2> HIDE DEF First, ss
  <2>3. Pre(ss, 0) = First(IF 0 <= n THEN 0 ELSE n)
    BY <1>2, <2>1, <2>2
  <2> QED BY <2>3
<1>4. \A i \in 0..Len(s) : First(i) \in Seq(T) /\ Len(First(i)) = i
  OBVIOUS
<1>5. ASSUME NEW i \in 0..n, i + 1 <= n PROVE First(i) \o <<s[i + 1]>> = First(i + 1)
  <2> DEFINE f == First(i)
             a == s[i + 1]
  <2>0. i \in 0..Len(s) /\ i + 1 \in 0..Len(s) /\ i + 1 \in 1..Len(s) /\ i + 1 \in Nat
    BY <1>1, <1>5
  <2>1. f \in Seq(T) /\ Len(f) = i /\ a \in T /\ \A k \in 1..i : f[k] = s[k]
    <3>1. f \in Seq(T) /\ Len(f) = i
      BY <1>4, <2>0
    <3>2. \A k \in 1..i : f[k] = s[k]
      OBVIOUS
    <3>3. a \in T
      BY <2>0
    <3> QED BY <3>1, <3>2, <3>3
  <2> HIDE DEF f
  <2>2. f \o <<a>> = Append(f, a)
    BY <2>1
  <2>3. /\ Append(f, a) \in Seq(T) /\ Len(Append(f, a)) = i + 1
        /\ Append(f, a)[i + 1] = a /\ \A k \in 1..i : Append(f, a)[k] = f[k]
    BY <2>1, AppendFacts
  <2>4. First(i + 1) \in Seq(T) /\ Len(First(i + 1)) = i + 1 /\ i + 1 \in Nat
    BY <1>4, <2>0
  <2>5. \A k \in 1..(i + 1) : Append(f, a)[k] = First(i + 1)[k]
    <3> SUFFICES ASSUME NEW k \in 1..(i + 1) PROVE Append(f, a)[k] = s[k]
      OBVIOUS
    <3>1. k \in 1..i \/ k = i + 1
      OBVIOUS
    <3> QED BY <2>1, <2>3, <3>1
  <2> HIDE DEF First
  <2>6. Append(f, a) = First(i + 1)
    BY <2>3, <2>4, <2>5, SameSeq
  <2> QED BY <2>2, <2>6 DEF f
<1>6. ASSUME NEW i \in M PROVE i + 1 \in M
  <2> SUFFICES ASSUME i + 1 <= Len(s)
               PROVE  Pre(ss, i + 1) = First(IF i + 1 <= n THEN i + 1 ELSE n)
    OBVIOUS
  <2>1. i \in Nat /\ i <= Len(s) /\ i + 1 \in 1..Len(s) /\ (i + 1) - 1 = i /\ n \in Nat
    BY <1>1
  <2>2. Pre(ss, i) = First(IF i <= n THEN i ELSE n)
    BY <2>1
  <2> HIDE DEF ss, M
  <2>3. Pre(ss, i + 1) = Pre(ss, i) \o ss[i + 1]
    <3>1. Pre(ss, i + 1) = Pre(ss, (i + 1) - 1) \o ss[i + 1]
      BY <1>1, <1>2, <2>1
    <3> QED BY <2>1, <3>1
  <2>4. CASE i + 1 <= n
    <3>1. ss[i + 1] = <<s[i + 1]>> /\ i \in 0..n
      BY <1>1, <2>1, <2>4
    <3>2. First(i) \o <<s[i + 1]>> = First(i + 1)
      BY <1>5, <2>4, <3>1
    <3>3. Pre(ss, i) = First(i)
      BY <2>2, <3>1
    <3> HIDE DEF First
    <3> QED BY <2>3, <2>4, <3>1, <3>2, <3>3
  <2>5. CASE ~(i + 1 <= n)
    <3>1. i + 1 \notin K
      BY <2>1, <2>5
    <3>2. ss[i + 1] = << >>
      BY <1>1, <2>1, <3>1
    <3>3. Pre(ss, i) = First(n)
      <4>1. i = n \/ ~(i <= n)
        BY <2>1, <2>5
      <4> HIDE DEF First
      <4> QED BY <2>2, <4>1
    <3>4. First(n) \o << >> = First(n)
      <4>1. First(n) \in Seq(T)
        BY <1>4
      <4> HIDE DEF First
      <4> QED BY <4>1
    <3> HIDE DEF First
    <3> QED BY <2>3, <2>5, <3>2, <3>3, <3>4
  <2> QED BY <2>4, <2>5
<1>7. Len(s) \in M
  <2>1. M \in SUBSET Nat
    OBVIOUS
  <2> HIDE DEF M
  <2> QED BY <1>1, <1>3, <1>6, <2>1, AllOfNat
<1>8. Pre(ss, Len(s)) = First(n)
  <2>1. Pre(ss, Len(s)) = First(IF Len(s) <= n THEN Len(s) ELSE n)
    BY <1>1, <1>7
  <2>2. Len(s) <= n => Len(s) = n
    BY <1>1
  <2> HIDE DEF First, ss
  <2> QED BY <2>1, <2>2
<1> QED BY <1>1, <1>2, <1>8 DEF Those, Kept
-----------------------------------------------------------------------------
(* What is read: the second invariant                                      *)

HandledOf(s) == Those(s, {k \in DOMAIN s : s[k].is = "message"})

(* The first n messages that were written, as they should be read          *)
FirstOf(ws, n) == [k \in 1..n |-> AllOf(ws[k])]

(* They, and no others, begin before p.                                    *)
Parted(ws, n, p) == \A k \in 1..Len(ws) : k <= n <=> ws[k].at < p

(* The outermost bundle is at its k-th item.                               *)
AtItem(s, its, k) == s[1].from = StartOf(its, k) + 1 /\ s[1].from + s[1].size = its[k]

(* What was read, if what is looked at is still to be: up to its beginning *)
Here(unread, s) ==
  IF s = << >> THEN 0
  ELSE IF unread THEN s[Len(s)].from ELSE s[Len(s)].from + s[Len(s)].size

Underway == pc = "read" /\ (calling \/ stack # << >>)
Finished == (pc = "read" /\ ~calling /\ stack = << >>) \/ pc \in Ended

BundleRead ==
  Bundled =>
    \E n \in 0..Len(written) :
      /\ Handled = FirstOf(written, n)
      /\ \A k \in 1..Len(written) : k <= n <=> Whole(written[k])

LoneRead ==
  ~Bundled =>
    LET m == written[1]
        K == Before(m.message, 0, end)
    IN  Handled = IF K # {} /\ (K # {0} \/ Len(m.message.args) = 0)
                  THEN <<Gives(m, Most(K))>> ELSE << >>

ReadInv ==
  /\ \E V : events \in Seq(V)
  /\ pc \in {"write", "failed"} => events = << >> /\ calling = TRUE
  /\ Underway =>
       \E n \in 0..Len(written) : Handled = FirstOf(written, n) /\ Parted(written, n, Here(calling, stack))
  /\ pc = "read" /\ stack # << >> => Bundled /\ \E k \in 1..Len(items) : AtItem(stack, items, k)
  /\ Finished => BundleRead /\ LoneRead
  /\ pc = "crashed" => consumer = "app" /\ Handled = << >> /\ (Bundled => end = 0)

LEMMA HandledAppend ==
  ASSUME NEW V, NEW s \in Seq(V), NEW e
  PROVE  /\ e.is = "message" => HandledOf(Append(s, e)) = Append(HandledOf(s), e)
         /\ e.is # "message" => HandledOf(Append(s, e)) = HandledOf(s)
         /\ Append(s, e) \in Seq(V \cup {e})
<1> DEFINE T == V \cup {e}
           v == Append(s, e)
           K == {k \in DOMAIN s : s[k].is = "message"}
           L == {k \in DOMAIN v : v[k].is = "message"}
<1>1. e \in T
  OBVIOUS
<1>2. s \in Seq(T)
  <2>1. V \subseteq T
    OBVIOUS
  <2> HIDE DEF T
  <2> QED BY <2>1, WiderSeq
<1> HIDE DEF T
<1>3. /\ v \in Seq(T) /\ Len(v) = Len(s) + 1 /\ Len(s) \in Nat /\ v[Len(s) + 1] = e
      /\ \A k \in 1..Len(s) : v[k] = s[k]
  BY <1>1, <1>2, AppendFacts
<1> HIDE DEF v
<1>4. DOMAIN v = 1..(Len(s) + 1) /\ DOMAIN s = 1..Len(s)
  BY <1>3
<1>5. \A k \in 1..Len(s) : k \in L <=> k \in K
  BY <1>3, <1>4
<1>6. Len(s) + 1 \in L <=> e.is = "message"
  BY <1>3, <1>4
<1> HIDE DEF K, L
<1>7. /\ Len(s) + 1 \in L => Those(Append(s, e), L) = Append(Those(s, K), e)
      /\ Len(s) + 1 \notin L => Those(Append(s, e), L) = Those(s, K)
  BY <1>1, <1>2, <1>5, ThoseAppend
<1> QED BY <1>3, <1>6, <1>7 DEF HandledOf, v, K, L, T

(* One more event                                                          *)
LEMMA HandledGrows ==
  ASSUME ReadInv, NEW e, \E d \in {e} : events' = Append(events, d)
  PROVE  /\ e.is = "message" => Handled' = Append(Handled, e)
         /\ e.is # "message" => Handled' = Handled
         /\ (\E V : events \in Seq(V))'
<1>1. PICK V : events \in Seq(V)
  BY DEF ReadInv
<1>2. Handled = HandledOf(events) /\ Handled' = HandledOf(events')
  BY DEF Handled, HandledOf
<1>3. events' = Append(events, e)
  OBVIOUS
<1>4. /\ e.is = "message" => HandledOf(Append(events, e)) = Append(HandledOf(events), e)
      /\ e.is # "message" => HandledOf(Append(events, e)) = HandledOf(events)
      /\ Append(events, e) \in Seq(V \cup {e})
  BY <1>1, HandledAppend
<1> QED BY <1>2, <1>3, <1>4

LEMMA PartedOn ==
  ASSUME NEW ws, Logged(ws), NEW n, NEW p \in Nat, NEW q \in Nat, p <= q,
         Parted(ws, n, p), NoneIn(Begun(ws), p, q)
  PROVE  Parted(ws, n, q)
<1> SUFFICES ASSUME NEW k \in 1..Len(ws) PROVE k <= n <=> ws[k].at < q
  BY DEF Parted
<1>1. ws[k].at \in Nat
  BY LoggedFacts
<1>2. ws[k] \in Begun(ws)
  BY DEF Begun
<1>3. ~(p <= ws[k].at /\ ws[k].at < q)
  BY <1>2 DEF NoneIn
<1>4. k <= n <=> ws[k].at < p
  BY DEF Parted
<1>5. ws[k].at < p <=> ws[k].at < q
  BY <1>1, <1>3
<1> QED BY <1>4, <1>5

(* A message that begins at p is the next, and behind it is the one after. *)
LEMMA PartedMessage ==
  ASSUME NEW ws, Logged(ws), NEW n \in 0..Len(ws), NEW j \in 1..Len(ws), NEW p \in Nat,
         NEW q \in Nat, p < q, Parted(ws, n, p), ws[j].at = p, NoneIn(Begun(ws), p + 1, q)
  PROVE  j = n + 1 /\ n + 1 \in 0..Len(ws) /\ Parted(ws, n + 1, q)
<1>1. Len(ws) \in Nat /\ \A k \in 1..Len(ws) : ws[k].at \in Nat
  BY LoggedFacts
<1>2. \A i, k \in 1..Len(ws) : i < k => ws[i].at < ws[k].at
  BY DEF Logged
<1>3. \A k \in 1..Len(ws) : k <= n <=> ws[k].at < p
  BY DEF Parted
<1>4. ~(j <= n)
  BY <1>1, <1>3
<1>5. n + 1 \in 1..Len(ws)
  BY <1>1, <1>4
<1>6. ~(n + 1 < j)
  <2> SUFFICES ASSUME n + 1 < j PROVE FALSE
    OBVIOUS
  <2>1. ws[n + 1].at < p
    BY <1>2, <1>5
  <2>2. ~(n + 1 <= n)
    BY <1>5
  <2> QED BY <1>3, <1>5, <2>1, <2>2
<1>7. j = n + 1
  BY <1>4, <1>5, <1>6
<1>8. ASSUME NEW k \in 1..Len(ws) PROVE k <= n + 1 <=> ws[k].at < q
  <2>1. ws[k] \in Begun(ws)
    BY DEF Begun
  <2>2. ~(p + 1 <= ws[k].at /\ ws[k].at < q)
    BY <2>1 DEF NoneIn
  <2>3. ws[k].at \in Nat /\ (k < j => ws[k].at < p) /\ (j < k => p < ws[k].at)
    BY <1>1, <1>2
  <2>4. k < j \/ k = j \/ j < k
    BY <1>1
  <2> QED BY <1>5, <1>7, <2>2, <2>3, <2>4
<1>9. n + 1 \in 0..Len(ws)
  BY <1>5
<1> QED BY <1>7, <1>8, <1>9 DEF Parted

LEMMA FirstOfGrows ==
  ASSUME NEW ws, NEW n \in Nat
  PROVE  FirstOf(ws, n + 1) = Append(FirstOf(ws, n), AllOf(ws[n + 1]))
<1> DEFINE U == {AllOf(ws[k]) : k \in 1..(n + 1)}
           f == FirstOf(ws, n)
           g == FirstOf(ws, n + 1)
           a == AllOf(ws[n + 1])
<1>1. a \in U
  OBVIOUS
<1>2. \A k \in 1..(n + 1) : AllOf(ws[k]) \in U
  OBVIOUS
<1> HIDE DEF U
<1>3. f \in Seq(U) /\ Len(f) = n
  BY <1>2 DEF FirstOf
<1>4. g \in Seq(U) /\ Len(g) = n + 1
  BY <1>2 DEF FirstOf
<1>5. (\A k \in 1..n : f[k] = AllOf(ws[k])) /\ (\A k \in 1..(n + 1) : g[k] = AllOf(ws[k]))
  BY DEF FirstOf
<1> HIDE DEF f, g
<1>6. /\ Append(f, a) \in Seq(U) /\ Len(Append(f, a)) = n + 1
      /\ Append(f, a)[n + 1] = a /\ \A k \in 1..n : Append(f, a)[k] = f[k]
  BY <1>1, <1>3, AppendFacts
<1>7. \A k \in 1..Len(g) : g[k] = Append(f, a)[k]
  <2> SUFFICES ASSUME NEW k \in 1..(n + 1) PROVE g[k] = Append(f, a)[k]
    BY <1>4
  <2>1. k \in 1..n \/ k = n + 1
    OBVIOUS
  <2> QED BY <1>5, <1>6, <2>1
<1> HIDE DEF a
<1>8. g = Append(f, a)
  BY <1>4, <1>6, <1>7, SameSeq
<1> QED BY <1>8 DEF f, g, a

LEMMA NoneOf == ASSUME NEW ws PROVE FirstOf(ws, 0) = << >>
  BY DEF FirstOf

(* What is true at the end                                                 *)
LEMMA BundleReadNext ==
  ASSUME UNCHANGED <<writer, end, written, items>>, Bundled, NEW n \in 0..Len(written),
         Handled' = FirstOf(written, n), \A k \in 1..Len(written) : k <= n <=> Whole(written[k])
  PROVE  BundleRead' /\ LoneRead'
<1>1. written' = written /\ Bundled'
  BY DEF buf, Bundled, Word
<1>2. \A k \in 1..Len(written) : Whole(written[k])' <=> Whole(written[k])
  BY DEF Whole
<1>3. \E i \in 0..Len(written') :
        /\ Handled' = FirstOf(written', i)
        /\ \A k \in 1..Len(written') : k <= i <=> Whole(written[k])'
  BY <1>1, <1>2
<1>4. BundleRead'
  BY <1>3 DEF BundleRead
<1> QED BY <1>1, <1>4 DEF LoneRead

Readable(K, args) == K # {} /\ (K # {0} \/ Len(args) = 0)

LEMMA LoneReadNext ==
  ASSUME UNCHANGED <<writer, end, written, items>>, ~Bundled,
         LET K == Before(written[1].message, 0, end)
         IN  /\ Readable(K, written[1].message.args) => Handled' = <<Gives(written[1], Most(K))>>
             /\ ~Readable(K, written[1].message.args) => Handled' = << >>
  PROVE  BundleRead' /\ LoneRead'
<1>1. written' = written /\ ~Bundled' /\ end' = end
  BY DEF buf, Bundled, Word
<1> QED BY <1>1 DEF LoneRead, BundleRead, Readable

LEMMA ResultKept ==
  ASSUME UNCHANGED <<writer, end, written, items, events>>, BundleRead, LoneRead
  PROVE  BundleRead' /\ LoneRead'
<1>1. /\ written' = written /\ end' = end /\ (Bundled' <=> Bundled) /\ Handled' = Handled
  BY DEF buf, Bundled, Word, Handled
<1>2. \A k \in 1..Len(written) : Whole(written[k])' <=> Whole(written[k])
  BY DEF Whole
<1>3. LoneRead'
  BY <1>1 DEF LoneRead
<1> QED BY <1>1, <1>2, <1>3 DEF BundleRead

(* A bundle that is looked at has an item, with its size in front of it;   *)
(* no message begins in its head.                                          *)
LEMMA CurrentBundle ==
  ASSUME PacketInv, pc = "read", IsBundle
  PROVE  LET p == Current.from
         IN  /\ p \in Nat /\ Word(p + 4) \in Nat
             /\ NoneIn(Begun(written), p, p + 4) /\ NoneIn(Begun(written), p + 4, p + 5)
             /\ stack # << >> => Itemised
<1> DEFINE p == Current.from
           n == Len(stack)
           d == MaxDepth - n
           W == Begun(written)
           tag == buf[p + 3].of
<1>1. PICK e \in Nat :
           /\ p \in Nat /\ Current.to \in Nat /\ Current.to <= e
           /\ Sound(buf, W, APacket(p, e, d, Current.timetag))
           /\ stack # << >> => e = Current.to
  BY CurrentFacts
<1>2. d \in Nat
  BY StackFacts
<1>3. d > 0 /\ p + 4 < e /\ HeadAt(buf, W, p) /\ Sound(buf, W, TheItems(p + 4, e, d - 1, tag))
  <2>1. buf[p + 1].of = Bundle
    BY DEF IsBundle, Word
  <2> HIDE DEF p, d, tag, W
  <2>2. ~MessageAt(buf, W, APacket(p, e, d, Current.timetag))
    BY <2>1, MessageStart DEF APacket
  <2> QED BY <1>1, <1>2, <2>2, PacketFacts DEF tag
<1> DEFINE q == p + 4
           c == d - 1
<1>4. q \in Nat /\ c \in Nat /\ q # e /\ Sound(buf, W, TheItems(q, e, c, tag))
  BY <1>1, <1>2, <1>3
<1>5. p + 5 = q + 1 /\ Word(q) = buf[q + 1].of /\ Word(p + 4) = Word(q)
  BY <1>1 DEF Word
<1>6. q < e /\ buf[q + 1].of \in Nat /\ q + 1 + buf[q + 1].of <= e /\ NoneIn(W, q, q + 1)
  <2> HIDE DEF q, c, tag, W
  <2> QED BY <1>1, <1>4, ItemsFacts
<1>7. NoneIn(W, p, q)
  BY <1>3 DEF HeadAt
<1>8. stack # << >> => Itemised
  <2> SUFFICES ASSUME stack # << >> PROVE q <= Current.to /\ HasItem(q, Current.to)
    BY DEF Itemised
  <2>1. e = Current.to
    BY <1>1
  <2> HIDE DEF q
  <2>2. q + 1 <= e /\ q <= e
    BY <1>1, <1>4, <1>6
  <2> QED BY <1>6, <2>1, <2>2 DEF HasItem, Word
<1> HIDE DEF p, W
<1>9. NoneIn(W, p + 4, p + 5)
  BY <1>5, <1>6
<1>10. Word(p + 4) \in Nat
  BY <1>5, <1>6
<1> QED BY <1>1, <1>7, <1>8, <1>9, <1>10 DEF p, W

(* A message that is looked at is one that was written; in a bundle it is  *)
(* whole.                                                                  *)
LEMMA CurrentMessage ==
  ASSUME PacketInv, pc = "read", IsMessage
  PROVE  \E j \in 1..Len(written) :
           LET p == Current.from
               m == written[j].message
               e == p + Len(MessageWords(m))
           IN  /\ p \in Nat /\ e \in Nat /\ Current.to \in Nat /\ p < Current.to
               /\ written[j].at = p /\ written[j].timetag = Current.timetag
               /\ m \in Messages /\ IsAt(m, p) /\ e <= Len(buf) /\ IsWords(buf)
               /\ NoneIn(Begun(written), p + 1, e) /\ Current.to <= e
               /\ stack # << >> => Current.to = e
<1> DEFINE p == Current.from
           n == Len(stack)
           d == MaxDepth - n
           W == Begun(written)
           t == Current.timetag
<1>1. PICK e \in Nat :
           /\ p \in Nat /\ Current.to \in Nat /\ Current.to <= e
           /\ Sound(buf, W, APacket(p, e, d, t))
           /\ stack # << >> => e = Current.to
  BY CurrentFacts
<1>2. d \in Nat /\ IsWords(buf)
  BY StackFacts
<1>3. Word(p) # Bundle /\ p < Current.to
  BY DEF IsMessage
<1>4. MessageAt(buf, W, APacket(p, e, d, t)) /\ e <= Len(buf)
  <2>1. ASSUME HeadAt(buf, W, p) PROVE FALSE
    <3> DEFINE head == Words(2, Bundle) \o Words(2, buf[p + 3].of)
    <3>1. buf[p + 1] = head[1]
      <4>1. \A i \in 1..4 : buf[p + i] = head[i]
        BY <2>1 DEF HeadAt
      <4>2. 1 \in 1..4
        OBVIOUS
      <4> HIDE DEF head
      <4> QED BY <4>1, <4>2
    <3>2. (Words(2, Bundle) \o Words(2, buf[p + 3].of))[1].of = Bundle
      BY HeadFacts
    <3> QED BY <1>3, <3>1, <3>2 DEF Word
  <2> HIDE DEF p, d, W, t
  <2> QED BY <1>1, <1>2, <2>1, PacketFacts
<1> DEFINE x == APacket(p, e, d, t)
<1>5. x.from = p /\ x.to = e /\ x.timetag = t
  BY DEF APacket
<1>6. MessageAt(buf, W, x)
  BY <1>4
<1> HIDE DEF x, W
<1>7. PICK l \in W :
        /\ l.at = x.from /\ l.timetag = x.timetag /\ l.message \in Messages
        /\ x.to = x.from + Len(MessageWords(l.message))
        /\ \A i \in 1..Len(MessageWords(l.message)) :
             buf[x.from + i] = MessageWords(l.message)[i]
        /\ NoneIn(W, x.from + 1, x.to)
  BY <1>6 DEF MessageAt
<1>8. PICK j \in 1..Len(written) : l = written[j]
  BY DEF W, Begun
<1>9. IsAt(l.message, p)
  BY <1>5, <1>7 DEF IsAt
<1>10. p + Len(MessageWords(l.message)) = e
  BY <1>5, <1>7
<1>11. NoneIn(Begun(written), p + 1, e)
  BY <1>5, <1>7 DEF W
<1> HIDE DEF p, t
<1>12. /\ p \in Nat /\ e \in Nat /\ Current.to \in Nat /\ p < Current.to
       /\ l.at = p /\ l.timetag = t /\ l.message \in Messages
       /\ e <= Len(buf) /\ Current.to <= e /\ (stack # << >> => Current.to = e)
  BY <1>1, <1>3, <1>4, <1>5, <1>7
<1> QED BY <1>2, <1>8, <1>9, <1>10, <1>11, <1>12 DEF p, t

(* Writing, and what arrives                                               *)
LEMMA WritesRead ==
  ASSUME PacketInv, ReadInv, NEW w, Writes(w)
  PROVE  ReadInv'
<1>1. /\ pc' \in {"write", "failed"} /\ events' = events /\ calling' = calling
      /\ pc = "write"
  BY DEF Writes
<1>2. events' = << >> /\ calling' = TRUE
  BY <1>1 DEF ReadInv
<1>3. (\E V : events \in Seq(V))'
  BY <1>1 DEF ReadInv
<1> QED BY <1>1, <1>2, <1>3 DEF ReadInv, Underway, Finished, Ended

LEMMA TransmitRead ==
  ASSUME PacketInv, ReadInv, Transmit
  PROVE  ReadInv'
<1>1. /\ pc = "write" /\ pc' = "read" /\ events' = events /\ calling' = calling
      /\ stack' = stack /\ written' = written
  BY DEF Transmit
<1>2. stack = << >> /\ events = << >> /\ calling = TRUE /\ Logged(written)
  BY <1>1 DEF PacketInv, ReadInv
<1>3. Handled' = << >>
  BY <1>1, <1>2, ThoseNone DEF Handled
<1>4. Len(written) \in Nat /\ \A k \in 1..Len(written) : written[k].at \in Nat
  BY <1>2, LoggedFacts
<1>5. Parted(written, 0, 0)
  <2> SUFFICES ASSUME NEW k \in 1..Len(written) PROVE k <= 0 <=> written[k].at < 0
    BY DEF Parted
  <2> QED BY <1>4
<1>6. Parted(written', 0, Here(calling', stack')) /\ Handled' = FirstOf(written', 0)
      /\ 0 \in 0..Len(written')
  BY <1>1, <1>2, <1>3, <1>4, <1>5, NoneOf DEF Here
<1>7. (\E V : events \in Seq(V))'
  BY <1>1 DEF ReadInv
<1> QED BY <1>1, <1>2, <1>6, <1>7 DEF ReadInv, Finished, Ended

(* The reader is in a bundle.                                              *)
LEMMA GoesOn ==
  ASSUME UNCHANGED <<writer, consumer, end, written, items>>, pc' = "read",
         (\E V : events \in Seq(V))', stack' # << >>, Bundled,
         \E k \in 1..Len(items) : AtItem(stack', items, k),
         \E n \in 0..Len(written) :
           Handled' = FirstOf(written, n) /\ Parted(written, n, Here(calling', stack'))
  PROVE  ReadInv'
<1>1. written' = written /\ items' = items /\ Bundled'
  BY DEF buf, Bundled, Word
<1>2. ~Finished'
  BY DEF Finished, Ended
<1> QED BY <1>1, <1>2 DEF ReadInv

(* The reader is through.                                                  *)
LEMMA Finishes ==
  ASSUME UNCHANGED <<writer, consumer, end, written, items>>,
         (\E V : events \in Seq(V))', stack' = << >>,
         pc' \in Ended \/ (pc' = "read" /\ calling' = FALSE),
         BundleRead' /\ LoneRead',
         pc' = "crashed" => consumer = "app" /\ Handled' = << >> /\ (Bundled => end = 0)
  PROVE  ReadInv'
<1>1. (Bundled' <=> Bundled) /\ end' = end /\ consumer' = consumer
  BY DEF buf, Bundled, Word
<1>2. ~Underway' /\ pc' \notin {"write", "failed"}
  BY DEF Underway, Ended
<1> QED BY <1>1, <1>2 DEF ReadInv

(* Nothing that was written ends in what arrived.                          *)
LEMMA NothingWhole ==
  ASSUME UNCHANGED <<writer, end, written, items>>, Bundled, Handled' = << >>,
         Logged(written), \A i \in 1..Len(items) : ~(items[i] <= end)
  PROVE  BundleRead' /\ LoneRead'
<1>1. Len(written) \in Nat /\ 0 \in 0..Len(written)
  BY LoggedFacts
<1>2. \A k \in 1..Len(written) : k <= 0 <=> Whole(written[k])
  BY <1>1 DEF Whole
<1>3. Handled' = FirstOf(written, 0)
  BY NoneOf
<1> QED BY <1>1, <1>2, <1>3, BundleReadNext

(* At the beginning nothing is handled.                                    *)
LEMMA Untouched ==
  ASSUME PacketInv, ReadInv, pc = "read", calling, stack = << >>
  PROVE  Handled = << >> /\ Parted(written, 0, 0)
<1>1. PICK n \in 0..Len(written) :
        Handled = FirstOf(written, n) /\ Parted(written, n, Here(calling, stack))
  BY DEF ReadInv, Underway
<1>2. Here(calling, stack) = 0
  BY DEF Here
<1>3. Len(written) \in Nat /\ \A k \in 1..Len(written) : written[k].at \in Nat
  BY StackFacts, LoggedFacts
<1>4. n = 0
  <2> SUFFICES ASSUME n # 0 PROVE FALSE
    OBVIOUS
  <2>1. n \in 1..Len(written) /\ n <= n
    BY <1>3
  <2>2. written[n].at < 0
    BY <1>1, <1>2, <2>1 DEF Parted
  <2> QED BY <1>3, <2>1, <2>2
<1> QED BY <1>1, <1>2, <1>4, NoneOf

(* The outermost bundle's items are one behind the other.                  *)
LEMMA ItemsFollow ==
  ASSUME PacketInv, pc = "read", Bundled, buf # << >>
  PROVE  /\ Len(items) \in Nat /\ 1 \in 1..Len(items) /\ Len(buf) \in Nat
         /\ \A k \in 1..Len(items) :
              /\ items[k] \in Nat /\ 4 < items[k] /\ items[k] <= Len(buf)
              /\ StartOf(items, k) \in Nat /\ StartOf(items, k) < items[k]
              /\ Word(StartOf(items, k)) = items[k] - StartOf(items, k) - 1
              /\ k < Len(items) <=> items[k] < Len(buf)
              /\ k < Len(items) => k + 1 \in 1..Len(items) /\ StartOf(items, k + 1) = items[k]
         /\ \A j, k \in 1..Len(items) : j < k => items[j] < items[k]
<1>1. /\ writer.refs = << >> /\ ItemsInside(writer, items) /\ items \in Seq(Nat)
      /\ Len(buf) \in Nat
  BY StackFacts
<1>2. /\ Len(items) \in Nat /\ (items = << >> <=> Len(items) = 0)
      /\ \A k \in 1..Len(items) : items[k] \in Nat
  BY <1>1
<1>3. EndOf(writer, 1) = Len(buf)
  <2>1. Len(writer.refs) = 0
    BY <1>1
  <2> QED BY <1>1, <2>1, EndOfFacts DEF EndOf, buf
<1>4. items # << >>
  BY <1>1 DEF ItemsInside, Bundled, Word, buf
<1>5. /\ \A k \in 1..Len(items) :
           /\ 4 < items[k] /\ items[k] <= Len(buf)
           /\ \A j \in 1..Len(items) : j < k => items[j] < items[k]
           /\ buf[StartOf(items, k) + 1].of = items[k] - StartOf(items, k) - 1
      /\ items[Len(items)] = Len(buf)
  BY <1>1, <1>3, <1>4 DEF ItemsInside, buf
<1>6. 1 \in 1..Len(items) /\ Len(items) \in 1..Len(items)
  BY <1>2, <1>4
<1>7. ASSUME NEW k \in 1..Len(items)
      PROVE  /\ StartOf(items, k) \in Nat /\ StartOf(items, k) < items[k]
             /\ Word(StartOf(items, k)) = items[k] - StartOf(items, k) - 1
             /\ k < Len(items) <=> items[k] < Len(buf)
             /\ k < Len(items) => k + 1 \in 1..Len(items) /\ StartOf(items, k + 1) = items[k]
  <2>1. Word(StartOf(items, k)) = items[k] - StartOf(items, k) - 1
    BY <1>5 DEF Word
  <2>2. StartOf(items, k) \in Nat /\ StartOf(items, k) < items[k]
    <3>1. CASE k = 1
      BY <1>2, <1>5, <3>1 DEF StartOf
    <3>2. CASE k # 1
      <4>1. k - 1 \in 1..Len(items) /\ k - 1 < k
        BY <1>2, <3>2
      <4> QED BY <1>2, <1>5, <3>2, <4>1 DEF StartOf
    <3> QED BY <3>1, <3>2
  <2>3. k < Len(items) <=> items[k] < Len(buf)
    <3>1. k < Len(items) \/ k = Len(items)
      BY <1>2
    <3>2. k < Len(items) => items[k] < Len(buf)
      BY <1>5, <1>6
    <3>3. k = Len(items) => ~(items[k] < Len(buf)) /\ ~(k < Len(items))
      BY <1>1, <1>2, <1>5
    <3> QED BY <3>1, <3>2, <3>3
  <2>4. ASSUME k < Len(items) PROVE k + 1 \in 1..Len(items) /\ StartOf(items, k + 1) = items[k]
    <3>1. k + 1 \in 1..Len(items) /\ k + 1 # 1 /\ (k + 1) - 1 = k
      BY <1>2, <2>4
    <3> QED BY <3>1 DEF StartOf
  <2> QED BY <2>1, <2>2, <2>3, <2>4
<1> QED BY <1>1, <1>2, <1>5, <1>6, <1>7

LEMMA SkipRead ==
  ASSUME PacketInv, ReadInv, SkipBundle
  PROVE  ReadInv'
<1>1. /\ pc = "read" /\ calling /\ IsBundle /\ ~Itemised /\ GoesOnOrRefuses
      /\ UNCHANGED <<writer, consumer, end, written, items>> /\ stack' = stack /\ events' = events
  BY DEF SkipBundle, Reads
<1>2. stack = << >>
  BY <1>1, CurrentBundle
<1>3. Handled = << >>
  BY <1>1, <1>2, Untouched
<1>4. Current.from = 0 /\ Current.to = end
  BY <1>2 DEF Current
<1>5. Bundled /\ end > 0 /\ end <= Len(buf) /\ buf # << >> /\ end \in Nat
  <2>1. Len(buf) \in Nat /\ end <= Len(buf) /\ end \in Nat
    BY <1>1, StackFacts
  <2>2. Bundled /\ end > 0
    BY <1>1, <1>4, <2>1 DEF IsBundle, Bundled
  <2>3. buf = << >> => Len(buf) = 0
    OBVIOUS
  <2> QED BY <2>1, <2>2, <2>3
<1>6. \A i \in 1..Len(items) : ~(items[i] <= end)
  <2> SUFFICES ASSUME NEW i \in 1..Len(items), items[i] <= end PROVE FALSE
    OBVIOUS
  <2>1. /\ 1 \in 1..Len(items) /\ items[1] \in Nat /\ items[i] \in Nat /\ items[1] <= items[i]
        /\ Word(StartOf(items, 1)) = items[1] - StartOf(items, 1) - 1 /\ 4 < items[1]
    <3>1. i = 1 \/ 1 < i
      OBVIOUS
    <3> QED BY <1>1, <1>5, <3>1, ItemsFollow
  <2>2. Word(4) = items[1] - 4 - 1
    BY <2>1 DEF StartOf
  <2>3. 4 + 1 + Word(4) <= end /\ 4 + 1 <= end /\ 4 <= end
    BY <1>5, <2>1, <2>2
  <2>4. Itemised
    <3>1. Current.from + 4 = 4
      BY <1>4
    <3> QED BY <1>4, <2>3, <3>1 DEF Itemised, HasItem
  <2> QED BY <1>1, <2>4
<1>7. Handled' = << >> /\ (\E V : events \in Seq(V))'
  BY <1>1, <1>3 DEF ReadInv, Handled
<1>8. BundleRead' /\ LoneRead'
  BY <1>1, <1>5, <1>6, <1>7, NothingWhole, StackFacts
<1>9. pc' = "refused" \/ (pc' = "read" /\ calling' = FALSE)
  <2>1. pc = "read" /\ GoesOnOrRefuses
    BY <1>1
  <2>2. CASE consumer = "app"
    BY <2>1, <2>2 DEF GoesOnOrRefuses
  <2>3. CASE consumer # "app"
    BY <2>1, <2>3 DEF GoesOnOrRefuses
  <2> QED BY <2>2, <2>3
<1> QED BY <1>1, <1>2, <1>7, <1>8, <1>9, Finishes DEF Ended

LEMMA InnermostFacts ==
  ASSUME PacketInv, pc = "read", stack # << >>
  PROVE  LET n == Len(stack)
         IN  /\ n \in Nat /\ n > 0 /\ n \in 1..n
             /\ Last(stack) = stack[n] /\ Behind = stack[n].from + stack[n].size
             /\ Current.from = stack[n].from /\ Current.timetag = stack[n].timetag
             /\ Current.to = stack[n].from + stack[n].size
             /\ stack[n].from \in Nat /\ stack[n].size \in Nat /\ stack[n].to \in Nat
             /\ Here(TRUE, stack) = stack[n].from
             /\ Here(FALSE, stack) = stack[n].from + stack[n].size
<1> DEFINE n == Len(stack)
<1>1. n \in Nat /\ n > 0 /\ n \in 1..n
  BY StackFacts
<1>2. Last(stack) = stack[n]
  BY DEF Last
<1>3. /\ Behind = stack[n].from + stack[n].size
      /\ Current.from = stack[n].from /\ Current.timetag = stack[n].timetag
      /\ Current.to = stack[n].from + stack[n].size
  BY <1>2 DEF Behind, Current
<1>4. /\ stack[n].from \in Nat /\ stack[n].size \in Nat /\ stack[n].to \in Nat
  BY <1>1, StackFacts
<1>5. /\ Here(TRUE, stack) = stack[n].from
      /\ Here(FALSE, stack) = stack[n].from + stack[n].size
  BY DEF Here
<1> QED BY <1>1, <1>2, <1>3, <1>4, <1>5

LEMMA EnterRead ==
  ASSUME PacketInv, ReadInv, EnterBundle
  PROVE  ReadInv'
<1> DEFINE p == Current.from
           n == Len(stack)
           W == Begun(written)
           size == Word(p + 4)
           event == [is |-> "enter", timetag |-> Word(p + 2)]
           frame == [from |-> p + 4 + 1, size |-> size, to |-> Current.to,
                     timetag |-> Word(p + 2)]
<1>1. /\ pc = "read" /\ calling /\ IsBundle /\ pc' = "read" /\ calling' = calling
      /\ UNCHANGED <<writer, consumer, end, written, items>>
      /\ stack' = Append(stack, frame) /\ events' = Append(events, event)
  BY DEF EnterBundle, Reads
<1>2. calling = TRUE
  BY <1>1 DEF PacketInv, TypeOK
<1>3. /\ p \in Nat /\ size \in Nat /\ NoneIn(W, p, p + 4) /\ NoneIn(W, p + 4, p + 5)
  BY <1>1, CurrentBundle
<1>4. /\ n \in Nat /\ end \in Nat /\ end <= Len(buf) /\ Len(buf) \in Nat /\ Logged(written)
      /\ (stack = << >> <=> n = 0)
  BY <1>1, StackFacts
<1>5. /\ Len(stack') = n + 1 /\ stack'[n + 1] = frame /\ \A k \in 1..n : stack'[k] = stack[k]
      /\ stack' # << >>
  <2>1. PICK V : stack \in Seq(FrameOf(V))
    BY <1>1, StackFacts DEF Stacked
  <2> DEFINE T == FrameOf(V) \cup {frame}
  <2>2. frame \in T /\ FrameOf(V) \subseteq T
    OBVIOUS
  <2> HIDE DEF T, frame
  <2>3. stack \in Seq(T)
    BY <2>1, <2>2, WiderSeq
  <2>4. /\ stack' \in Seq(T) /\ Len(stack') = n + 1 /\ stack'[n + 1] = frame
        /\ \A k \in 1..n : stack'[k] = stack[k]
    BY <1>1, <2>2, <2>3, AppendFacts
  <2> QED BY <1>4, <2>4
<1>6. /\ Handled' = Handled /\ (\E V : events \in Seq(V))'
  <2>1. event.is # "message"
    OBVIOUS
  <2>2. \E d \in {event} : events' = Append(events, d)
    BY <1>1
  <2> HIDE DEF event
  <2> QED BY <2>1, <2>2, HandledGrows
<1>7. PICK i \in 0..Len(written) :
        Handled = FirstOf(written, i) /\ Parted(written, i, Here(calling, stack))
  BY <1>1 DEF ReadInv, Underway
<1>8. Here(calling, stack) = p
  <2>1. CASE stack = << >>
    BY <2>1 DEF Here, Current
  <2>2. CASE stack # << >>
    BY <1>1, <1>2, <2>2, InnermostFacts
  <2> QED BY <2>1, <2>2
<1>9. Here(calling', stack') = p + 5
  <2>1. frame.from = p + 5
    BY <1>3
  <2> HIDE DEF frame, n, p
  <2> QED BY <1>1, <1>2, <1>5, <2>1 DEF Here
<1>10. Parted(written, i, Here(calling', stack'))
  <2>1. Parted(written, i, p)
    BY <1>7, <1>8
  <2> HIDE DEF p, W
  <2>2. p + 4 \in Nat /\ p + 5 \in Nat /\ p <= p + 4 /\ p + 4 <= p + 5
    BY <1>3
  <2>3. Parted(written, i, p + 4)
    BY <1>3, <1>4, <2>1, <2>2, PartedOn DEF W
  <2>4. Parted(written, i, p + 5)
    BY <1>3, <1>4, <2>2, <2>3, PartedOn DEF W
  <2> QED BY <1>9, <2>4
<1>11. Bundled /\ \E k \in 1..Len(items) : AtItem(stack', items, k)
  <2>1. CASE stack = << >>
    <3>1. Current.from = 0 /\ Current.to = end
      BY <2>1 DEF Current
    <3>2. Bundled /\ 0 < end
      BY <1>1, <3>1 DEF IsBundle, Bundled
    <3>3. buf # << >>
      <4>1. buf = << >> => Len(buf) = 0
        OBVIOUS
      <4> QED BY <1>4, <3>2, <4>1
    <3>4. /\ 1 \in 1..Len(items) /\ items[1] \in Nat
          /\ Word(StartOf(items, 1)) = items[1] - StartOf(items, 1) - 1
      BY <1>1, <3>2, <3>3, ItemsFollow
    <3>5. Word(4) = items[1] - 4 - 1 /\ StartOf(items, 1) = 4
      BY <3>4 DEF StartOf
    <3>6. frame.from = 4 + 1 /\ frame.size = Word(4)
      <4>1. p + 4 = 4
        BY <3>1
      <4> HIDE DEF p
      <4> QED BY <4>1
    <3>7. stack'[1] = frame
      BY <1>4, <1>5, <2>1
    <3> HIDE DEF frame
    <3>8. frame.from + frame.size = items[1]
      BY <3>4, <3>5, <3>6
    <3>9. AtItem(stack', items, 1)
      BY <3>5, <3>6, <3>7, <3>8 DEF AtItem
    <3> QED BY <3>2, <3>4, <3>9
  <2>2. CASE stack # << >>
    <3>1. Bundled /\ \E k \in 1..Len(items) : AtItem(stack, items, k)
      BY <1>1, <2>2 DEF ReadInv
    <3>2. stack'[1] = stack[1]
      BY <1>4, <1>5, <2>2
    <3> QED BY <3>1, <3>2 DEF AtItem
  <2> QED BY <2>1, <2>2
<1> HIDE DEF frame, event
<1> QED BY <1>1, <1>5, <1>6, <1>7, <1>10, <1>11, GoesOn

(* A message that is looked at and was not cut is valid.                   *)
LEMMA WholeMessage ==
  ASSUME NEW m \in Messages, NEW p \in Nat
  PROVE  LET K == Before(m, p, p + Len(MessageWords(m)))
         IN  /\ p < p + Len(MessageWords(m)) /\ p + Len(MessageWords(m)) \in Nat
             /\ Readable(K, m.args) /\ Most(K) = Len(m.args)
<1> DEFINE n == Len(m.args)
           w == Len(MessageWords(m))
           K == Before(m, p, p + w)
<1>1. /\ n \in Nat /\ w \in Nat
      /\ \A k \in 0..n : ArgumentsEnd(m, k) \in Nat /\ ArgumentsEnd(m, k) <= w
  BY MessageParts
<1>2. w > 0
  <2> DEFINE q == PaddedWords(m.path.bytes + 1)
             h == q + PaddedWords(FormatOf(m.args).bytes + 1)
  <2>1. q \in Nat /\ h \in Nat /\ q < h /\ h <= w
    BY MessageParts
  <2> HIDE DEF q, h, w
  <2> QED BY <1>1, <2>1
<1>3. K = 0..n
  <2> HIDE DEF w
  <2>1. \A k \in 0..n : p + ArgumentsEnd(m, k) <= p + w
    <3> SUFFICES ASSUME NEW k \in 0..n PROVE p + ArgumentsEnd(m, k) <= p + w
      OBVIOUS
    <3>1. ArgumentsEnd(m, k) \in Nat /\ ArgumentsEnd(m, k) <= w
      BY <1>1
    <3> QED BY <1>1, <3>1
  <2> QED BY <2>1 DEF Before
<1> HIDE DEF K, w, n
<1>4. 0 \in K /\ n \in K /\ \A k \in K : k \in Nat /\ k <= n
  BY <1>1, <1>3
<1>5. Most(K) = n
  <2>1. Most(K) \in K /\ \A j \in K : j <= Most(K)
    BY <1>1, <1>3, <1>4, MostFacts
  <2>2. Most(K) \in Nat /\ Most(K) <= n /\ n <= Most(K)
    BY <1>4, <2>1
  <2> QED BY <1>1, <2>2
<1>6. K # {} /\ (K # {0} \/ n = 0)
  <2>1. K = {0} => n = 0
    BY <1>4
  <2> QED BY <1>4, <2>1
<1>7. p < p + w /\ p + w \in Nat
  BY <1>1, <1>2
<1> QED BY <1>5, <1>6, <1>7 DEF K, w, n, Readable

LEMMA GivesIs ==
  ASSUME NEW l, NEW n
  PROVE  Gives(l, n) = [is |-> "message", timetag |-> l.timetag, path |-> l.message.path,
                        args |-> GivenArgs(l.message, n)]
  BY DEF Gives, GivenArgs

(* What the reader makes of the message it looks at                        *)
LEMMA ReadsCurrent ==
  ASSUME PacketInv, pc = "read", IsMessage, NEW n \in 0..Len(written),
         Parted(written, n, Current.from)
  PROVE  LET l == written[n + 1]
             K == Before(l.message, Current.from, Current.to)
             r == ReadMessage(Current.from, Current.to)
         IN  /\ n + 1 \in 0..Len(written) /\ n + 1 \in 1..Len(written) /\ l.timetag = Current.timetag
             /\ r.valid <=> Readable(K, l.message.args)
             /\ r.valid => /\ r.path = l.message.path
                           /\ r.args = GivenArgs(l.message, Most(K))
             /\ stack # << >> =>
                  /\ r.valid /\ Most(K) = Len(l.message.args)
                  /\ Parted(written, n + 1, Current.to)
<1> DEFINE p == Current.from
           to == Current.to
<1>1. PICK j \in 1..Len(written) :
           LET m == written[j].message
               e == p + Len(MessageWords(m))
           IN  /\ p \in Nat /\ e \in Nat /\ to \in Nat /\ p < to
               /\ written[j].at = p /\ written[j].timetag = Current.timetag
               /\ m \in Messages /\ IsAt(m, p) /\ e <= Len(buf) /\ IsWords(buf)
               /\ NoneIn(Begun(written), p + 1, e) /\ to <= e
               /\ stack # << >> => to = e
  BY CurrentMessage
<1> DEFINE m == written[j].message
           e == p + Len(MessageWords(m))
           K == Before(m, p, to)
           r == ReadMessage(p, to)
<1>2. Logged(written) /\ Parted(written, n, p)
  BY StackFacts
<1>3. p < e
  <2>1. p \in Nat /\ to \in Nat /\ e \in Nat /\ p < to /\ to <= e
    BY <1>1
  <2> HIDE DEF p, to, e
  <2> QED BY <2>1
<1>4. j = n + 1 /\ n + 1 \in 0..Len(written) /\ Parted(written, n + 1, e)
  <2> HIDE DEF p, e
  <2> QED BY <1>1, <1>2, <1>3, PartedMessage DEF e
<1>5. /\ r.valid <=> Readable(K, m.args)
      /\ r.valid => r.path = m.path /\ r.args = GivenArgs(m, Most(K))
  <2> HIDE DEF p, to, m
  <2>1. /\ r.valid <=> K # {} /\ (K # {0} \/ Len(m.args) = 0)
        /\ r.valid => r.path = m.path /\ r.args = GivenArgs(m, Most(K))
    <3>1. /\ m \in Messages /\ p \in Nat /\ to \in Nat /\ p < to
          /\ to <= p + Len(MessageWords(m)) /\ IsAt(m, p) /\ IsWords(buf)
          /\ p + Len(MessageWords(m)) <= Len(buf)
      BY <1>1 DEF m
    <3> QED BY <3>1, ReadsMessage
  <2> QED BY <2>1 DEF Readable
<1>6. ASSUME stack # << >>
      PROVE  r.valid /\ Most(K) = Len(m.args) /\ Parted(written, n + 1, to)
  <2>1. to = e
    BY <1>1, <1>6
  <2>2. Readable(Before(m, p, e), m.args) /\ Most(Before(m, p, e)) = Len(m.args)
    <3>1. m \in Messages /\ p \in Nat
      BY <1>1
    <3> HIDE DEF p, m
    <3> QED BY <3>1, WholeMessage
  <2> HIDE DEF p, to, e, m, r
  <2> QED BY <1>4, <1>5, <2>1, <2>2
<1>7. n + 1 \in 1..Len(written) /\ written[j].timetag = Current.timetag
  <2>1. n + 1 \in 1..Len(written)
    BY <1>4
  <2> QED BY <1>1, <2>1
<1> HIDE DEF p, to, r
<1> QED BY <1>4, <1>5, <1>6, <1>7 DEF K, m, p, to, r

LEMMA HandleRead ==
  ASSUME PacketInv, ReadInv, HandleMessage
  PROVE  ReadInv'
<1> DEFINE r == ReadMessage(Current.from, Current.to)
           event == [is |-> "message", timetag |-> Current.timetag,
                     path |-> r.path, args |-> r.args]
<1>1. /\ pc = "read" /\ calling /\ IsMessage /\ r.valid /\ pc' = "read" /\ calling' = FALSE
      /\ UNCHANGED <<writer, consumer, end, written, items>>
      /\ stack' = stack /\ events' = Append(events, event)
  BY DEF HandleMessage, Reads
<1>2. calling = TRUE
  BY <1>1 DEF PacketInv, TypeOK
<1>3. Handled' = Append(Handled, event) /\ (\E V : events \in Seq(V))'
  <2>1. event.is = "message"
    OBVIOUS
  <2>2. \E d \in {event} : events' = Append(events, d)
    BY <1>1
  <2> HIDE DEF event
  <2> QED BY <2>1, <2>2, HandledGrows
<1>4. CASE stack = << >>
  <2> DEFINE l == written[1]
             K == Before(l.message, 0, end)
  <2>1. Handled = << >> /\ Parted(written, 0, 0)
    BY <1>1, <1>4, Untouched
  <2>2. Current.from = 0 /\ Current.to = end
    BY <1>4 DEF Current
  <2>3. /\ l.timetag = Current.timetag
        /\ r.valid <=> Readable(K, l.message.args)
        /\ r.valid => r.path = l.message.path /\ r.args = GivenArgs(l.message, Most(K))
    <3>1. 0 \in 0..Len(written) /\ 0 + 1 = 1
      BY <1>1, StackFacts, LoggedFacts
    <3> QED BY <1>1, <2>1, <2>2, <3>1, ReadsCurrent
  <2>4. event = Gives(l, Most(K)) /\ Readable(K, l.message.args)
    <3> HIDE DEF r, l, K
    <3>1. /\ r.path = l.message.path /\ r.args = GivenArgs(l.message, Most(K))
          /\ l.timetag = Current.timetag /\ Readable(K, l.message.args)
      BY <1>1, <2>3
    <3> QED BY <3>1, GivesIs
  <2>5. ~Bundled
    BY <1>1, <2>2 DEF IsMessage, Bundled
  <2> HIDE DEF event, l, K
  <2>6. Handled' = <<Gives(l, Most(K))>>
    BY <1>3, <2>1, <2>4
  <2>7. BundleRead' /\ LoneRead'
    BY <1>1, <2>4, <2>5, <2>6, LoneReadNext DEF l, K
  <2> QED BY <1>1, <1>3, <1>4, <2>7, Finishes
<1>5. CASE stack # << >>
  <2>1. PICK n \in 0..Len(written) :
          Handled = FirstOf(written, n) /\ Parted(written, n, Here(calling, stack))
    BY <1>1 DEF ReadInv, Underway
  <2>2. /\ Here(calling, stack) = Current.from
        /\ Here(calling', stack') = Current.to
    BY <1>1, <1>2, <1>5, InnermostFacts
  <2> DEFINE l == written[n + 1]
             m == l.message
             K == Before(m, Current.from, Current.to)
  <2>3. /\ n + 1 \in 0..Len(written) /\ l.timetag = Current.timetag
        /\ r.path = m.path /\ r.args = GivenArgs(m, Most(K))
        /\ Most(K) = Len(m.args) /\ Parted(written, n + 1, Current.to)
    BY <1>1, <1>5, <2>1, <2>2, ReadsCurrent
  <2>4. event = AllOf(l)
    <3> HIDE DEF r, l, K
    <3> QED BY <2>3, GivesIs DEF AllOf
  <2>5. Handled' = FirstOf(written, n + 1)
    <3>1. n \in Nat
      OBVIOUS
    <3>2. FirstOf(written, n + 1) = Append(FirstOf(written, n), AllOf(l))
      BY <3>1, FirstOfGrows
    <3> HIDE DEF event, l
    <3> QED BY <1>3, <2>1, <2>4, <3>2
  <2>6. Bundled /\ \E k \in 1..Len(items) : AtItem(stack', items, k)
    BY <1>1, <1>5 DEF ReadInv
  <2> HIDE DEF event, l, K
  <2> QED BY <1>1, <1>3, <1>5, <2>2, <2>3, <2>5, <2>6, GoesOn
<1> QED BY <1>4, <1>5

(* Only a message on its own may not be valid.                             *)
LEMMA NullRead ==
  ASSUME PacketInv, ReadInv, NullMessage
  PROVE  ReadInv'
<1> DEFINE r == ReadMessage(Current.from, Current.to)
<1>1. /\ pc = "read" /\ calling /\ IsMessage /\ ~r.valid
      /\ pc' = IF consumer = "app" THEN "crashed" ELSE "refused"
      /\ UNCHANGED <<writer, consumer, end, written, items>>
      /\ stack' = stack /\ events' = events
  BY DEF NullMessage, Reads
<1>2. calling = TRUE
  BY <1>1 DEF PacketInv, TypeOK
<1>3. stack = << >>
  <2> SUFFICES ASSUME stack # << >> PROVE FALSE
    OBVIOUS
  <2>1. PICK n \in 0..Len(written) : Parted(written, n, Here(calling, stack))
    BY <1>1 DEF ReadInv, Underway
  <2>2. Here(calling, stack) = Current.from
    BY <1>1, <1>2, InnermostFacts
  <2>3. r.valid
    BY <1>1, <2>1, <2>2, ReadsCurrent
  <2> HIDE DEF r
  <2> QED BY <1>1, <2>3
<1> DEFINE l == written[1]
           K == Before(l.message, 0, end)
<1>4. Handled = << >> /\ Parted(written, 0, 0)
  BY <1>1, <1>3, Untouched
<1>5. Current.from = 0 /\ Current.to = end
  BY <1>3 DEF Current
<1>6. ~Readable(K, l.message.args)
  <2>1. 0 \in 0..Len(written) /\ 0 + 1 = 1
    BY <1>1, StackFacts, LoggedFacts
  <2>2. r.valid <=> Readable(K, l.message.args)
    BY <1>1, <1>4, <1>5, <2>1, ReadsCurrent
  <2> HIDE DEF r, l, K
  <2> QED BY <1>1, <2>2
<1>7. ~Bundled
  BY <1>1, <1>5 DEF IsMessage, Bundled
<1>8. Handled' = << >> /\ (\E V : events \in Seq(V))'
  BY <1>1, <1>4 DEF ReadInv, Handled
<1>9. BundleRead' /\ LoneRead'
  <2> HIDE DEF l, K
  <2> QED BY <1>1, <1>6, <1>7, <1>8, LoneReadNext DEF l, K
<1>10. pc' \in Ended /\ (pc' = "crashed" => consumer = "app")
  BY <1>1 DEF Ended
<1> QED BY <1>1, <1>3, <1>7, <1>8, <1>9, <1>10, Finishes

(* A packet that is no bundle is a message that was written.               *)
LEMMA LoneMessage ==
  ASSUME PacketInv, pc \notin {"write", "failed"}, ~Bundled
  PROVE  written[1].message \in Messages
<1>1. Sound(buf, Begun(written), AllSent) /\ IsWords(buf) /\ Logged(written)
  BY DEF PacketInv
<1>2. Len(buf) \in Nat /\ MaxDepth \in Nat
  BY <1>1, LengthOfWords, RoomAssumption
<1>3. ASSUME HeadAt(buf, Begun(written), 0) PROVE FALSE
  <2> DEFINE head == Words(2, Bundle) \o Words(2, buf[0 + 3].of)
  <2>1. 1 \in 1..4 /\ 0 + 1 = 1
    OBVIOUS
  <2>2. \A i \in 1..4 : buf[0 + i] = head[i]
    BY <1>3 DEF HeadAt
  <2>3. head[1].of = Bundle
    BY HeadFacts
  <2> HIDE DEF head
  <2>4. buf[0 + 1] = head[1]
    BY <2>1, <2>2
  <2> QED BY <2>3, <2>4 DEF Bundled, Word
<1>4. MessageAt(buf, Begun(written), APacket(0, Len(buf), MaxDepth, Immediate))
  BY <1>1, <1>2, <1>3, PacketFacts DEF AllSent
<1>5. \E j \in Begun(written) : TRUE
  BY <1>4 DEF MessageAt
<1>6. Len(written) \in Nat
  BY <1>1, LoggedFacts
<1>7. 1 \in 1..Len(written)
  BY <1>5, <1>6 DEF Begun
<1> QED BY <1>1, <1>7, LoggedFacts

(* Nor may nothing arrive of anything else.                                *)
LEMMA NothingRead ==
  ASSUME PacketInv, ReadInv, NothingThere
  PROVE  ReadInv'
<1>1. /\ pc = "read" /\ calling /\ Current.from = Current.to
      /\ \/ GoesOnOrRefuses
         \/ consumer = "app" /\ pc' = "crashed" /\ UNCHANGED calling
      /\ UNCHANGED <<writer, consumer, end, written, items>>
      /\ stack' = stack /\ events' = events
  BY DEF NothingThere, Reads
<1>2. PICK e \in Nat :
        /\ Current.from \in Nat
        /\ Sound(buf, Begun(written),
                 APacket(Current.from, e, MaxDepth - Len(stack), Current.timetag))
        /\ stack = << >> => e = Len(buf) /\ Current.to = end
        /\ stack # << >> => e = Current.to
  BY <1>1, CurrentFacts
<1>3. Current.from < e /\ e <= Len(buf)
  <2>1. MaxDepth - Len(stack) \in Nat
    BY <1>1, StackFacts
  <2> QED BY <1>2, <2>1, PacketFacts
<1>4. stack = << >>
  BY <1>1, <1>2, <1>3
<1>5. end = 0 /\ Handled = << >> /\ Parted(written, 0, 0)
  <2>1. Current.from = 0 /\ Current.to = end
    BY <1>4 DEF Current
  <2> QED BY <1>1, <1>4, <2>1, Untouched
<1>6. Len(buf) \in Nat /\ 0 < Len(buf) /\ buf # << >>
  <2>1. Len(buf) \in Nat
    BY <1>1, StackFacts
  <2>2. 0 < Len(buf)
    BY <1>2, <1>3, <1>4, <2>1
  <2>3. buf = << >> => Len(buf) = 0
    OBVIOUS
  <2> QED BY <2>1, <2>2, <2>3
<1>7. Handled' = << >> /\ (\E V : events \in Seq(V))'
  BY <1>1, <1>5 DEF ReadInv, Handled
<1>8. BundleRead' /\ LoneRead'
  <2>1. CASE Bundled
    <3>1. \A i \in 1..Len(items) : ~(items[i] <= end)
      <4> SUFFICES ASSUME NEW i \in 1..Len(items) PROVE ~(items[i] <= 0)
        BY <1>5
      <4>1. items[i] \in Nat /\ 4 < items[i]
        BY <1>1, <1>6, <2>1, ItemsFollow
      <4> QED BY <4>1
    <3>2. Logged(written)
      BY <1>1, StackFacts
    <3> QED BY <1>1, <1>7, <2>1, <3>1, <3>2, NothingWhole
  <2>2. CASE ~Bundled
    <3> DEFINE l == written[1]
               K == Before(l.message, 0, end)
    <3>1. l.message \in Messages
      BY <1>1, <2>2, LoneMessage
    <3>2. K = {}
      <4> DEFINE m == l.message
      <4>1. \A k \in 0..Len(m.args) : ~(0 + ArgumentsEnd(m, k) <= end)
        <5> SUFFICES ASSUME NEW k \in 0..Len(m.args) PROVE ~(0 + ArgumentsEnd(m, k) <= 0)
          BY <1>5
        <5> DEFINE q == PaddedWords(m.path.bytes + 1)
                   h == q + PaddedWords(FormatOf(m.args).bytes + 1)
        <5>1. /\ q \in Nat /\ h \in Nat /\ q < h /\ ArgumentsEnd(m, 0) = h
              /\ Len(m.args) \in Nat
              /\ \A i, j \in 0..Len(m.args) : i <= j => ArgumentsEnd(m, i) <= ArgumentsEnd(m, j)
              /\ ArgumentsEnd(m, k) \in Nat
          BY <3>1, MessageParts
        <5> HIDE DEF q, h, m
        <5>2. ArgumentsEnd(m, 0) <= ArgumentsEnd(m, k)
          BY <5>1
        <5> QED BY <5>1, <5>2
      <4> HIDE DEF m
      <4> QED BY <4>1 DEF Before, m
    <3>3. ~Readable(K, l.message.args)
      BY <3>2 DEF Readable
    <3> HIDE DEF l, K
    <3> QED BY <1>1, <1>7, <2>2, <3>3, LoneReadNext DEF l, K
  <2> QED BY <2>1, <2>2
<1>9. pc' \in Ended \/ (pc' = "read" /\ calling' = FALSE)
  <2>1. CASE pc' = "crashed"
    BY <2>1 DEF Ended
  <2>2. CASE GoesOnOrRefuses
    BY <1>1, <2>2 DEF GoesOnOrRefuses, Ended
  <2> QED BY <1>1, <2>1, <2>2
<1>10. pc' = "crashed" => consumer = "app"
  BY <1>1 DEF GoesOnOrRefuses
<1> QED BY <1>1, <1>4, <1>5, <1>7, <1>8, <1>9, <1>10, Finishes

(* Behind an item of the outermost bundle is the next one.                 *)
LEMMA NextRead ==
  ASSUME PacketInv, ReadInv, NextItem
  PROVE  ReadInv'
<1> DEFINE n == Len(stack)
           q == stack[n].from + stack[n].size
           size == Word(q)
           to == stack[n].to
<1>1. /\ pc = "read" /\ stack # << >> /\ HasItem(Behind, Last(stack).to) /\ ~calling
      /\ stack' = [stack EXCEPT ![n].from = Behind + 1, ![n].size = Word(Behind)]
      /\ calling' = TRUE /\ pc' = "read" /\ events' = events
      /\ UNCHANGED <<writer, consumer, end, written, items>>
  BY DEF NextItem, Iterates
<1>2. calling = FALSE
  BY <1>1 DEF PacketInv, TypeOK
<1>3. /\ n \in Nat /\ n > 0 /\ n \in 1..n /\ Last(stack) = stack[n] /\ Behind = q
      /\ q \in Nat /\ to \in Nat /\ Here(calling, stack) = q
  <2>1. stack[n].from \in Nat /\ stack[n].size \in Nat
    BY <1>1, InnermostFacts
  <2>2. q \in Nat
    BY <2>1
  <2> QED BY <1>1, <1>2, <2>2, InnermostFacts
<1>4. /\ MaxDepth \in Nat /\ n <= MaxDepth /\ end \in Nat /\ end <= Len(buf) /\ Len(buf) \in Nat
      /\ Logged(written) /\ StackedAt(buf, Begun(written), end, stack, n)
      /\ (n # 1 => stack[n - 1].from \in Nat /\ stack[n - 1].size \in Nat)
  <2>0. \A i \in Nat : i > 0 /\ i # 1 => i - 1 \in 1..i
    OBVIOUS
  <2>1. n # 1 => n - 1 \in 1..Len(stack)
    BY <1>3, <2>0
  <2> QED BY <1>1, <1>3, <2>1, StackFacts
<1> DEFINE e == IF n = 1 THEN Len(buf) ELSE to
           W == Begun(written)
           d == MaxDepth - n
           t == stack[n].timetag
<1>5. Sound(buf, W, TheItems(q, e, d, t))
  BY <1>4 DEF StackedAt
<1>20. n = 1 => to = end
  BY <1>4 DEF StackedAt
<1>6. q + 1 <= to /\ q + 1 + size <= to /\ to <= e /\ e \in Nat /\ d \in Nat
  BY <1>1, <1>3, <1>4, <1>20 DEF HasItem
<1>7. q # e
  <2> HIDE DEF q, e, to
  <2> QED BY <1>3, <1>6
<1>8. q \in Nat /\ e \in Nat /\ d \in Nat
  BY <1>3, <1>6
<1>21. size \in Nat
  <2>1. size = buf[q + 1].of
    BY DEF Word
  <2> HIDE DEF q, e, d, size, W, t
  <2>2. buf[q + 1].of \in Nat
    BY <1>5, <1>7, <1>8, ItemsFacts
  <2> QED BY <2>1, <2>2
<1>22. NoneIn(W, q, q + 1)
  <2> HIDE DEF q, e, d, size, W, t
  <2> QED BY <1>5, <1>7, <1>8, ItemsFacts
<1>9. q + 1 \in Nat /\ n \in 1..Len(stack)
  <2> HIDE DEF q
  <2> QED BY <1>3
<1>10. PICK V : stack \in Seq(FrameOf(V))
  BY <1>1, StackFacts DEF Stacked
<1>11. stack' = Moved(stack, n, q + 1, size)
  BY <1>1, <1>3 DEF Moved
<1>12. /\ Len(stack') = n /\ stack'[n].from = q + 1 /\ stack'[n].size = size
       /\ \A k \in 1..n : k # n => stack'[k] = stack[k]
  <2>1. n = Len(stack)
    OBVIOUS
  <2> HIDE DEF n, q, size
  <2> QED BY <1>9, <1>10, <1>11, <1>21, <2>1, MovedFacts
<1>13. stack' # << >>
  <2>1. stack' = << >> => Len(stack') = 0
    OBVIOUS
  <2> QED BY <1>3, <1>12, <2>1
<1>14. PICK i \in 0..Len(written) :
         Handled = FirstOf(written, i) /\ Parted(written, i, Here(calling, stack))
  BY <1>1 DEF ReadInv, Underway
<1>15. Parted(written, i, q + 1)
  <2>1. Parted(written, i, q)
    BY <1>3, <1>14
  <2> HIDE DEF q
  <2>2. q <= q + 1
    BY <1>3
  <2> QED BY <1>3, <1>4, <1>9, <1>22, <2>1, <2>2, PartedOn DEF W
<1>16. Here(calling', stack') = q + 1
  BY <1>1, <1>12, <1>13 DEF Here
<1>17. Handled' = FirstOf(written, i) /\ (\E U : events \in Seq(U))'
  BY <1>1, <1>14 DEF ReadInv, Handled
<1>18. Bundled
  BY <1>1 DEF ReadInv
<1>19. \E k \in 1..Len(items) : AtItem(stack', items, k)
  <2>1. PICK k \in 1..Len(items) : AtItem(stack, items, k)
    BY <1>1 DEF ReadInv
  <2>2. CASE n = 1
    <3>1. q = items[k] /\ to = end
      BY <1>20, <2>1, <2>2 DEF AtItem
    <3>2. buf # << >>
      <4>1. buf = << >> => Len(buf) = 0
        OBVIOUS
      <4> HIDE DEF q, to, size
      <4> QED BY <1>3, <1>4, <1>6, <3>1, <4>1
    <3>3. items[k] < Len(buf)
      <4> HIDE DEF q, to, size
      <4> QED BY <1>3, <1>4, <1>6, <3>1
    <3>4. k < Len(items)
      BY <1>1, <1>18, <3>2, <3>3, ItemsFollow
    <3>5. /\ k + 1 \in 1..Len(items) /\ StartOf(items, k + 1) = q /\ items[k + 1] \in Nat
          /\ Word(q) = items[k + 1] - q - 1
      <4>1. /\ k + 1 \in 1..Len(items) /\ StartOf(items, k + 1) = items[k]
        BY <1>1, <1>18, <3>2, <3>4, ItemsFollow
      <4>2. /\ items[k + 1] \in Nat
            /\ Word(StartOf(items, k + 1)) = items[k + 1] - StartOf(items, k + 1) - 1
        BY <1>1, <1>18, <3>2, <4>1, ItemsFollow
      <4> HIDE DEF q
      <4> QED BY <3>1, <4>1, <4>2
    <3>6. q + 1 + size = items[k + 1]
      <4> DEFINE next == items[k + 1]
      <4>1. size = next - q - 1 /\ next \in Nat /\ q \in Nat
        BY <1>3, <3>5
      <4> HIDE DEF next, q, size
      <4>2. q + 1 + size = next
        BY <4>1
      <4> QED BY <4>2 DEF next
    <3>7. stack'[1].from = q + 1 /\ stack'[1].size = size
      BY <1>12, <2>2
    <3> HIDE DEF q, size
    <3> QED BY <3>5, <3>6, <3>7 DEF AtItem
  <2>3. CASE n # 1
    <3>1. 1 \in 1..n /\ 1 # n
      BY <1>3, <2>3
    <3>2. stack'[1] = stack[1]
      BY <1>12, <3>1
    <3> QED BY <2>1, <3>2 DEF AtItem
  <2> QED BY <2>2, <2>3
<1> HIDE DEF q
<1> QED BY <1>1, <1>13, <1>14, <1>15, <1>16, <1>17, <1>18, <1>19, GoesOn

(* A bundle is left where it ends: the outermost behind the last item that *)
(* arrived.                                                                *)
LEMMA LeftAt ==
  ASSUME PacketInv, ReadInv, Leave
  PROVE  LET n == Len(stack)
             q == stack[n].from + stack[n].size
         IN  /\ n \in Nat /\ n > 0 /\ n \in 1..n /\ q \in Nat /\ Behind = q /\ Bundled
             /\ n # 1 => q = stack[n - 1].from + stack[n - 1].size
             /\ n = 1 => /\ buf # << >> /\ stack[n].to = end
                        /\ \E k \in 1..Len(items) :
                             /\ q = items[k] /\ items[k] <= end
                             /\ \A j \in 1..Len(items) : j > k => ~(items[j] <= end)
<1> DEFINE n == Len(stack)
           q == stack[n].from + stack[n].size
           to == stack[n].to
<1>1. /\ pc = "read" /\ stack # << >> /\ ~HasItem(Behind, Last(stack).to) /\ ~calling
  BY DEF Leave, Iterates
<1>2. calling = FALSE
  BY <1>1 DEF PacketInv, TypeOK
<1>3. /\ n \in Nat /\ n > 0 /\ n \in 1..n /\ Last(stack) = stack[n] /\ Behind = q
      /\ q \in Nat /\ to \in Nat /\ Here(calling, stack) = q
  <2>1. stack[n].from \in Nat /\ stack[n].size \in Nat
    BY <1>1, InnermostFacts
  <2>2. q \in Nat
    BY <2>1
  <2> QED BY <1>1, <1>2, <2>2, InnermostFacts
<1>4. /\ MaxDepth \in Nat /\ n <= MaxDepth /\ end \in Nat /\ end <= Len(buf) /\ Len(buf) \in Nat
      /\ Logged(written) /\ StackedAt(buf, Begun(written), end, stack, n)
  BY <1>1, <1>3, StackFacts
<1> DEFINE W == Begun(written)
           d == MaxDepth - n
           t == stack[n].timetag
<1>5. /\ Sound(buf, W, TheItems(q, IF n = 1 THEN Len(buf) ELSE to, d, t))
      /\ to = IF n = 1 THEN end ELSE stack[n - 1].from + stack[n - 1].size
      /\ q <= to
  BY <1>4 DEF StackedAt
<1>6. ~(q + 1 <= to /\ q + 1 + Word(q) <= to) /\ d \in Nat
  BY <1>1, <1>3, <1>4 DEF HasItem
<1>7. PICK k \in 1..Len(items) : AtItem(stack, items, k)
  BY <1>1 DEF ReadInv
<1>8. Bundled
  BY <1>1 DEF ReadInv
<1>9. ASSUME n = 1
      PROVE  /\ q = items[k] /\ to = end /\ items[k] <= end /\ buf # << >>
             /\ \A j \in 1..Len(items) : j > k => ~(items[j] <= end)
  <2>1. q = items[k] /\ to = end /\ items[k] <= end
    <3>1. q = items[k]
      BY <1>9, <1>7 DEF AtItem
    <3> HIDE DEF q
    <3> QED BY <1>5, <1>9, <3>1
  <2>2. buf # << >>
    <3>2. items \in Seq(Nat) /\ ItemsInside(writer, items) /\ writer.refs = << >>
      BY <1>1, StackFacts
    <3>3. 4 < items[k] /\ items[k] \in Nat
      BY <3>2 DEF ItemsInside
    <3>4. buf = << >> => Len(buf) = 0
      OBVIOUS
    <3> QED BY <1>4, <2>1, <3>3, <3>4
  <2>3. \A j \in 1..Len(items) : j > k => ~(items[j] <= end)
    <3> SUFFICES ASSUME NEW j \in 1..Len(items), j > k, items[j] <= end PROVE FALSE
      OBVIOUS
    <3>1. Len(items) \in Nat
      BY <1>1, <1>8, <2>2, ItemsFollow
    <3>2. k < Len(items)
      BY <3>1
    <3>3. k + 1 \in 1..Len(items) /\ StartOf(items, k + 1) = items[k]
      BY <1>1, <1>8, <2>2, <3>2, ItemsFollow
    <3>4. /\ items[k + 1] \in Nat /\ items[j] \in Nat /\ items[k] \in Nat
          /\ Word(StartOf(items, k + 1)) = items[k + 1] - StartOf(items, k + 1) - 1
          /\ StartOf(items, k + 1) < items[k + 1]
          /\ (k + 1 < j => items[k + 1] < items[j])
      BY <1>1, <1>8, <2>2, <3>3, ItemsFollow
    <3>5. items[k + 1] <= items[j]
      <4>1. k + 1 = j \/ k + 1 < j
        BY <3>1
      <4> QED BY <3>4, <4>1
    <3>6. Word(q) = items[k + 1] - q - 1 /\ q < items[k + 1]
      <4> HIDE DEF q
      <4> QED BY <2>1, <3>3, <3>4
    <3>7. q + 1 <= to /\ q + 1 + Word(q) <= to
      <4> DEFINE z == Word(q)
                 f == items[k + 1]
                 g == items[j]
      <4>1. /\ z = f - q - 1 /\ q < f /\ f <= g /\ g <= to /\ f \in Nat /\ g \in Nat
            /\ q \in Nat /\ to \in Nat
        BY <1>3, <2>1, <3>4, <3>5, <3>6
      <4> HIDE DEF z, f, g, q, to
      <4>2. q + 1 <= to /\ q + 1 + z <= to
        BY <4>1
      <4> QED BY <4>2 DEF z
    <3> QED BY <1>6, <3>7
  <2> QED BY <2>1, <2>2, <2>3
<1>10. ASSUME n # 1 PROVE q = to
  <2> SUFFICES ASSUME ~(q = to) PROVE FALSE
    OBVIOUS
  <2>1. Sound(buf, W, TheItems(q, to, d, t))
    BY <1>5, <1>10
  <2>2. Word(q) = buf[q + 1].of
    BY DEF Word
  <2>0. d \in Nat /\ q \in Nat /\ to \in Nat
    BY <1>3, <1>6
  <2> HIDE DEF q, to, d, W, t
  <2>3. q < to
    BY <2>0, <2>1, ItemsFacts
  <2>4. buf[q + 1].of \in Nat
    BY <2>0, <2>1, ItemsFacts
  <2>5. q + 1 + buf[q + 1].of <= to
    BY <2>0, <2>1, ItemsFacts
  <2> QED BY <1>6, <2>0, <2>2, <2>3, <2>4, <2>5
<1>11. n # 1 => q = stack[n - 1].from + stack[n - 1].size
  BY <1>5, <1>10
<1> HIDE DEF q
<1>12. n = 1 => /\ buf # << >> /\ to = end
                /\ \E l \in 1..Len(items) :
                     /\ q = items[l] /\ items[l] <= end
                     /\ \A j \in 1..Len(items) : j > l => ~(items[j] <= end)
  BY <1>9
<1> QED BY <1>3, <1>8, <1>11, <1>12 DEF q

(* A bundle is only left where it ends, or the outermost where it was cut. *)
LEMMA LeaveRead ==
  ASSUME PacketInv, ReadInv, Leave
  PROVE  ReadInv'
<1> DEFINE n == Len(stack)
           q == stack[n].from + stack[n].size
           to == stack[n].to
           event == [is |-> "leave"]
<1>1. /\ pc = "read" /\ stack # << >> /\ ~HasItem(Behind, Last(stack).to) /\ ~calling
      /\ stack' = Front(stack) /\ events' = Append(events, event)
      /\ calling' = calling /\ pc' = "read"
      /\ UNCHANGED <<writer, consumer, end, written, items>>
  BY DEF Leave, Iterates
<1>2. calling = FALSE
  BY <1>1 DEF PacketInv, TypeOK
<1>3. /\ n \in Nat /\ n > 0 /\ n \in 1..n /\ Last(stack) = stack[n] /\ Behind = q
      /\ q \in Nat /\ to \in Nat /\ Here(calling, stack) = q
  <2>1. stack[n].from \in Nat /\ stack[n].size \in Nat
    BY <1>1, InnermostFacts
  <2>2. q \in Nat
    BY <2>1
  <2> QED BY <1>1, <1>2, <2>2, InnermostFacts
<1>4. Logged(written)
  BY <1>1, <1>3, StackFacts
<1>7. /\ Len(stack') = n - 1 /\ \A k \in 1..(n - 1) : stack'[k] = stack[k]
      /\ (n = 1 => stack' = << >>) /\ (n # 1 => stack' # << >>)
  <2>1. PICK V : stack \in Seq(FrameOf(V))
    BY <1>1, StackFacts DEF Stacked
  <2> DEFINE F == FrameOf(V)
  <2>2. stack \in Seq(F)
    BY <2>1
  <2> HIDE DEF F
  <2>3. /\ stack' \in Seq(F) /\ Len(stack') = n - 1
        /\ \A k \in 1..(n - 1) : stack'[k] = stack[k]
    BY <1>1, <1>3, <2>2, FrontFacts
  <2>4. stack' = << >> <=> Len(stack') = 0
    BY <2>3
  <2> QED BY <1>3, <2>3, <2>4
<1>8. /\ Handled' = Handled /\ (\E V : events \in Seq(V))'
  <2>1. event.is # "message"
    OBVIOUS
  <2>2. \E x \in {event} : events' = Append(events, x)
    BY <1>1
  <2> HIDE DEF event
  <2> QED BY <2>1, <2>2, HandledGrows
<1>9. PICK i \in 0..Len(written) :
        Handled = FirstOf(written, i) /\ Parted(written, i, Here(calling, stack))
  BY <1>1 DEF ReadInv, Underway
<1>10. PICK first \in 1..Len(items) : AtItem(stack, items, first)
  BY <1>1 DEF ReadInv
<1>11. Bundled
  BY <1>1 DEF ReadInv
<1>12. CASE n = 1
  <2>1. PICK k \in 1..Len(items) :
           /\ q = items[k] /\ items[k] <= end
           /\ \A j \in 1..Len(items) : j > k => ~(items[j] <= end)
    BY <1>1, <1>12, LeftAt
  <2>2. buf # << >>
    BY <1>1, <1>12, LeftAt
  <2>3. \A j \in 1..Len(items) : j > k => ~(items[j] <= end)
    BY <2>1
  <2>4. \A j \in 1..Len(written) : j <= i <=> Whole(written[j])
    <3> SUFFICES ASSUME NEW j \in 1..Len(written) PROVE j <= i <=> Whole(written[j])
      OBVIOUS
    <3>1. j <= i <=> written[j].at < items[k]
      BY <1>3, <1>9, <2>1 DEF Parted
    <3>2. written[j].at < items[k] => Whole(written[j])
      BY <2>1 DEF Whole
    <3>3. ASSUME Whole(written[j]) PROVE written[j].at < items[k]
      <4>1. PICK l \in 1..Len(items) : written[j].at < items[l] /\ items[l] <= end
        BY <3>3 DEF Whole
      <4>2. ~(l > k)
        BY <2>3, <4>1
      <4>3. l = k \/ l < k
        BY <4>2
      <4>4. items[l] \in Nat /\ items[k] \in Nat /\ (l < k => items[l] < items[k])
        BY <1>1, <1>11, <2>2, ItemsFollow
      <4>5. written[j].at \in Nat
        BY <1>4, LoggedFacts
      <4> QED BY <4>1, <4>3, <4>4, <4>5
    <3> QED BY <3>1, <3>2, <3>3
  <2>5. BundleRead' /\ LoneRead'
    BY <1>1, <1>8, <1>9, <1>11, <2>4, BundleReadNext
  <2> HIDE DEF event
  <2> QED BY <1>1, <1>2, <1>7, <1>8, <1>12, <2>5, Finishes
<1>13. CASE n # 1
  <2>0. \A l \in Nat : l > 0 /\ l # 1 => l - 1 \in 1..(l - 1) /\ l - 1 \in Nat /\ 1 \in 1..(l - 1)
    OBVIOUS
  <2>1. n - 1 \in 1..(n - 1) /\ n - 1 \in Nat /\ 1 \in 1..(n - 1)
    BY <1>3, <1>13, <2>0
  <2>2. q = stack[n - 1].from + stack[n - 1].size
    BY <1>1, <1>13, LeftAt
  <2>3. Here(calling', stack') = q
    <3>1. /\ stack' # << >> /\ calling' = FALSE /\ Len(stack') = n - 1
          /\ stack'[n - 1] = stack[n - 1]
      BY <1>1, <1>2, <1>7, <1>13, <2>1
    <3> QED BY <2>2, <3>1 DEF Here
  <2>4. stack'[1] = stack[1]
    BY <1>7, <2>1
  <2>5. Parted(written, i, Here(calling', stack'))
    BY <1>3, <1>9, <2>3
  <2>6. \E j \in 1..Len(items) : AtItem(stack', items, j)
    BY <1>10, <2>4 DEF AtItem
  <2> HIDE DEF event, q
  <2> QED BY <1>1, <1>7, <1>8, <1>9, <1>11, <1>13, <2>5, <2>6, GoesOn
<1> QED BY <1>12, <1>13

LEMMA DoneRead ==
  ASSUME ReadInv, Done
  PROVE  ReadInv'
<1>1. /\ pc = "read" /\ ~calling /\ stack = << >> /\ pc' = "done" /\ stack' = stack
      /\ UNCHANGED <<writer, consumer, end, written, items, events>>
  BY DEF Done
<1>2. BundleRead /\ LoneRead
  BY <1>1 DEF ReadInv, Finished
<1>3. BundleRead' /\ LoneRead'
  BY <1>1, <1>2, ResultKept
<1>4. (\E V : events \in Seq(V))'
  BY <1>1 DEF ReadInv
<1>5. pc' \in Ended
  BY <1>1 DEF Ended
<1> QED BY <1>1, <1>3, <1>4, <1>5, Finishes

LEMMA ReadInvInit == ASSUME Init PROVE ReadInv
<1>1. pc = "write" /\ events = << >> /\ calling = TRUE
  BY DEF Init
<1>2. << >> \in Seq({})
  OBVIOUS
<1> QED BY <1>1, <1>2 DEF ReadInv, Underway, Finished, Ended

LEMMA ReadInvNext == ASSUME PacketInv, ReadInv, [Next]_vars PROVE ReadInv'
<1>1. ASSUME NEW timetag \in Timetags, PushBundle(timetag) PROVE ReadInv'
  BY <1>1, WritesRead DEF PushBundle
<1>2. ASSUME NEW message \in Messages, AddMessage(message) PROVE ReadInv'
  BY <1>2, WritesRead DEF AddMessage
<1>3. ASSUME PushItem \/ PopItem \/ PopBundle \/ Transmit PROVE ReadInv'
  BY <1>3, WritesRead, TransmitRead DEF PushItem, PopItem, PopBundle
<1>4. ASSUME Read PROVE ReadInv'
  BY <1>4, EnterRead, SkipRead, HandleRead, NullRead, NothingRead, NextRead, LeaveRead,
     DoneRead DEF Read
<1>5. ASSUME UNCHANGED vars PROVE ReadInv'
  <2>1. UNCHANGED <<pc, writer, consumer, end, stack, calling, written, items, events>>
    BY <1>5 DEF vars
  <2>2. /\ (Bundled' <=> Bundled) /\ Handled' = Handled /\ (Underway' <=> Underway)
        /\ (Finished' <=> Finished)
    BY <2>1 DEF buf, Bundled, Word, Handled, Underway, Finished
  <2>3. Finished => BundleRead' /\ LoneRead'
    BY <2>1, ResultKept DEF ReadInv
  <2> QED BY <2>1, <2>2, <2>3 DEF ReadInv
<1> QED BY <1>1, <1>2, <1>3, <1>4, <1>5 DEF Next

LEMMA ReadInvWhole == ASSUME PacketInv, ReadInv PROVE WholeIsRead
<1> SUFFICES ASSUME pc \in Ended PROVE WholeIsRead
  BY DEF WholeIsRead, BundlesSurvive, LoneMessageSurvives
<1>1. BundleRead /\ LoneRead
  BY DEF ReadInv, Finished
<1>2. ASSUME Bundled PROVE BundlesSurvive
  <2>1. PICK n \in 0..Len(written) :
          /\ Handled = FirstOf(written, n)
          /\ \A k \in 1..Len(written) : k <= n <=> Whole(written[k])
    BY <1>1, <1>2 DEF BundleRead
  <2> DEFINE K == {k \in DOMAIN written : Whole(written[k])}
             whole == Those(written, K)
  <2>2. PICK V : written \in Seq(Entry(V))
    BY DEF PacketInv, Logged
  <2>3. whole = [k \in 1..n |-> written[k]]
    <3> DEFINE E == Entry(V)
    <3>1. written \in Seq(E)
      BY <2>2
    <3> HIDE DEF E
    <3>2. DOMAIN written = 1..Len(written)
      BY <3>1
    <3>3. \A k \in 1..Len(written) : k \in K <=> k <= n
      BY <2>1, <3>2
    <3> HIDE DEF K
    <3> QED BY <3>1, <3>3, ThoseFirst
  <2>4. [k \in DOMAIN whole |-> AllOf(whole[k])] = FirstOf(written, n)
    BY <2>3 DEF FirstOf
  <2> HIDE DEF whole
  <2>5. Handled = [k \in DOMAIN whole |-> AllOf(whole[k])]
    BY <2>1, <2>4
  <2> QED BY <2>5 DEF BundlesSurvive, whole, K
<1>3. ASSUME ~Bundled PROVE LoneMessageSurvives
  <2> DEFINE m == written[1]
             K == Before(m.message, 0, end)
             whole == {n \in 0..Len(m.message.args) : ArgumentsEnd(m.message, n) <= end}
             some == whole # {} /\ (whole # {0} \/ Len(m.message.args) = 0)
             most == CHOOSE n \in whole : \A j \in whole : j <= n
  <2>1. Handled = IF K # {} /\ (K # {0} \/ Len(m.message.args) = 0)
                  THEN <<Gives(m, Most(K))>> ELSE << >>
    BY <1>1, <1>3 DEF LoneRead
  <2>2. K = whole
    <3>1. m.message \in Messages
      BY <1>3, LoneMessage DEF Ended
    <3>2. \A x \in 0..Len(m.message.args) : ArgumentsEnd(m.message, x) \in Nat
      BY <3>1, MessageParts
    <3>3. \A x \in 0..Len(m.message.args) :
            0 + ArgumentsEnd(m.message, x) = ArgumentsEnd(m.message, x)
      BY <3>2
    <3> HIDE DEF m
    <3> QED BY <3>3 DEF Before
  <2>3. most = Most(K)
    <3> HIDE DEF K, whole
    <3> QED BY <2>2 DEF Most
  <2> HIDE DEF K, whole, most
  <2>4. Handled = IF some THEN <<Gives(m, most)>> ELSE << >>
    BY <2>1, <2>2, <2>3
  <2> QED BY <2>4 DEF LoneMessageSurvives, most, whole
<1> QED BY <1>2, <1>3 DEF WholeIsRead, BundlesSurvive, LoneMessageSurvives
-----------------------------------------------------------------------------
(* What is written again                                                   *)

(* f is what Rewrite computes for the first n events.                      *)
Rewriting(f, s, n) ==
  f = [k \in 0..n |-> IF k = 0 THEN Empty ELSE WriteAgain(f[k - 1], s[k])]

RewriteOf(s) ==
  LET after[k \in 0..Len(s)] == IF k = 0 THEN Empty ELSE WriteAgain(after[k - 1], s[k])
  IN  after[Len(s)]

LEMMA RewritingGrows ==
  ASSUME NEW s, NEW t, NEW k \in Nat, NEW f, Rewriting(f, s, k),
         \A i \in 1..k : t[i] = s[i]
  PROVE  \E g : Rewriting(g, t, k + 1) /\ g[k + 1] = WriteAgain(f[k], t[k + 1])
<1> DEFINE At(h, u, i) == IF i = 0 THEN Empty ELSE WriteAgain(h[i - 1], u[i])
           g == [i \in 0..(k + 1) |-> IF i <= k THEN f[i] ELSE WriteAgain(f[k], t[k + 1])]
<1>1. \A i \in 0..k : f[i] = At(f, s, i)
  BY DEF Rewriting
<1>2. \A i \in 0..k : g[i] = f[i]
  OBVIOUS
<1>3. g[k + 1] = WriteAgain(f[k], t[k + 1])
  OBVIOUS
<1>4. g = [i \in 0..(k + 1) |-> g[i]]
  OBVIOUS
<1> HIDE DEF g
<1>5. \A i \in 0..(k + 1) : g[i] = At(g, t, i)
  <2> SUFFICES ASSUME NEW i \in 0..(k + 1) PROVE g[i] = At(g, t, i)
    OBVIOUS
  <2>1. i # 0 => i - 1 \in 0..k
    OBVIOUS
  <2>2. CASE i = k + 1
    <3>1. i - 1 = k /\ i # 0 /\ g[k] = f[k]
      BY <1>2, <2>2
    <3> QED BY <1>3, <2>2, <3>1
  <2>3. CASE i # k + 1
    <3>1. i \in 0..k /\ (i # 0 => i \in 1..k)
      BY <2>3
    <3>2. g[i] = At(f, s, i) /\ (i # 0 => g[i - 1] = f[i - 1] /\ t[i] = s[i])
      BY <1>1, <1>2, <2>1, <3>1
    <3> QED BY <3>2
  <2> QED BY <2>2, <2>3
<1>6. g = [i \in 0..(k + 1) |-> At(g, t, i)]
  <2> HIDE DEF At
  <2> QED BY <1>4, <1>5
<1>7. Rewriting(g, t, k + 1)
  BY <1>6 DEF Rewriting
<1> QED BY <1>3, <1>7

LEMMA RewritingExists ==
  ASSUME NEW s, NEW n \in Nat
  PROVE  \E f : Rewriting(f, s, n)
<1> DEFINE K == {k \in Nat : \E f : Rewriting(f, s, k)}
<1>1. 0 \in K
  <2>1. Rewriting([k \in 0..0 |-> Empty], s, 0)
    BY DEF Rewriting
  <2> QED BY <2>1
<1>2. ASSUME NEW k \in K PROVE k + 1 \in K
  <2>1. PICK f : Rewriting(f, s, k)
    OBVIOUS
  <2>2. \E g : Rewriting(g, s, k + 1)
    BY <2>1, RewritingGrows
  <2> QED BY <2>2
<1> HIDE DEF K
<1>3. n \in K
  BY <1>1, <1>2, AllOfNat DEF K
<1> QED BY <1>3 DEF K

(* There is only one such function.                                        *)
LEMMA RewritingOne ==
  ASSUME NEW s, NEW n \in Nat, NEW f, NEW g, Rewriting(f, s, n), Rewriting(g, s, n)
  PROVE  f[n] = g[n]
<1> DEFINE At(h, i) == IF i = 0 THEN Empty ELSE WriteAgain(h[i - 1], s[i])
           K == {k \in Nat : k <= n => f[k] = g[k]}
<1>1. \A i \in 0..n : f[i] = At(f, i) /\ g[i] = At(g, i)
  BY DEF Rewriting
<1>2. 0 \in K
  <2>1. 0 \in 0..n
    OBVIOUS
  <2> QED BY <1>1, <2>1
<1>3. ASSUME NEW k \in K PROVE k + 1 \in K
  <2> SUFFICES ASSUME k + 1 <= n PROVE f[k + 1] = g[k + 1]
    OBVIOUS
  <2>1. k + 1 \in 0..n /\ k + 1 # 0 /\ (k + 1) - 1 = k /\ k <= n
    OBVIOUS
  <2>2. f[k] = g[k]
    BY <2>1
  <2> QED BY <1>1, <2>1, <2>2
<1> HIDE DEF K
<1>4. n \in K
  BY <1>2, <1>3, AllOfNat DEF K
<1> QED BY <1>4 DEF K

LEMMA RewriteOfIs ==
  ASSUME NEW s, Len(s) \in Nat
  PROVE  \E f : Rewriting(f, s, Len(s)) /\ RewriteOf(s) = f[Len(s)]
<1> DEFINE f == CHOOSE h : Rewriting(h, s, Len(s))
<1>1. Rewriting(f, s, Len(s))
  BY RewritingExists
<1>2. RewriteOf(s) = f[Len(s)]
  BY DEF RewriteOf, Rewriting
<1> QED BY <1>1, <1>2

LEMMA RewriteNone == RewriteOf(<< >>) = Empty
<1>1. Len(<< >>) = 0 /\ 0 \in Nat
  OBVIOUS
<1>2. PICK f : Rewriting(f, << >>, 0) /\ RewriteOf(<< >>) = f[0]
  BY <1>1, RewriteOfIs
<1>3. 0 \in 0..0
  OBVIOUS
<1> QED BY <1>2, <1>3 DEF Rewriting

(* The next event is written behind those before.                          *)
LEMMA RewriteAppend ==
  ASSUME NEW V, NEW s \in Seq(V), NEW e
  PROVE  RewriteOf(Append(s, e)) = WriteAgain(RewriteOf(s), e)
<1> DEFINE t == Append(s, e)
           n == Len(s)
           T == V \cup {e}
<1>1. /\ n \in Nat /\ Len(t) = n + 1 /\ t[n + 1] = e /\ \A i \in 1..n : t[i] = s[i]
  <2>1. e \in T /\ s \in Seq(T)
    <3>1. V \subseteq T /\ e \in T
      OBVIOUS
    <3> HIDE DEF T
    <3> QED BY <3>1, WiderSeq
  <2> HIDE DEF T
  <2> QED BY <2>1, AppendFacts
<1>2. PICK f : Rewriting(f, s, n) /\ RewriteOf(s) = f[n]
  BY <1>1, RewriteOfIs
<1> HIDE DEF t, n
<1>3. PICK g : Rewriting(g, t, n + 1) /\ RewriteOf(t) = g[n + 1]
  <2>1. n + 1 \in Nat
    BY <1>1
  <2> QED BY <1>1, <2>1, RewriteOfIs
<1>4. PICK h : Rewriting(h, t, n + 1) /\ h[n + 1] = WriteAgain(f[n], t[n + 1])
  BY <1>1, <1>2, RewritingGrows
<1>5. g[n + 1] = h[n + 1]
  <2>1. n + 1 \in Nat
    BY <1>1
  <2> QED BY <1>3, <1>4, <2>1, RewritingOne
<1> QED BY <1>1, <1>2, <1>3, <1>4, <1>5 DEF t

LEMMA RewriteStep ==
  ASSUME NEW V, events \in Seq(V), NEW e, \E d \in {e} : events' = Append(events, d)
  PROVE  Rewrite' = WriteAgain(Rewrite, e)
<1>1. Rewrite = RewriteOf(events) /\ Rewrite' = RewriteOf(events')
  BY DEF Rewrite, RewriteOf
<1>2. events' = Append(events, e)
  OBVIOUS
<1>3. RewriteOf(Append(events, e)) = WriteAgain(RewriteOf(events), e)
  BY RewriteAppend
<1> QED BY <1>1, <1>2, <1>3
-----------------------------------------------------------------------------
(* The writer's functions, where there is room and something to close      *)

LEMMA AddWhole ==
  ASSUME NEW w, NEW words, IsWriter(w), w.ok = TRUE, Len(w.buf) + Len(words) < Room
  PROVE  LET v == Add(w, words)
         IN  IsWriter(v) /\ v.ok = TRUE /\ v.refs = w.refs /\ v.buf = w.buf \o words
<1> DEFINE b == w.buf \o words
<1>1. Add(w, words) = [w EXCEPT !.buf = b]
  BY DEF Add
<1> HIDE DEF b
<1>2. Add(w, words) = [buf |-> b, refs |-> w.refs, ok |-> w.ok]
  BY <1>1 DEF IsWriter
<1> QED BY <1>2 DEF IsWriter, b

LEMMA PushWhole ==
  ASSUME NEW w, NEW words, IsWriter(w), w.ok = TRUE, Len(w.buf) + Len(words) < Room
  PROVE  LET v == push(w, words)
         IN  /\ IsWriter(v) /\ v.ok = TRUE /\ v.refs = Append(w.refs, Len(w.buf))
             /\ v.buf = w.buf \o words
<1> DEFINE u == Add(w, words)
           r == Append(w.refs, Len(w.buf))
<1>1. IsWriter(u) /\ u.ok = TRUE /\ u.refs = w.refs /\ u.buf = w.buf \o words
  BY AddWhole
<1>2. push(w, words) = [u EXCEPT !.refs = r]
  BY <1>1 DEF push
<1> HIDE DEF u, r
<1>3. push(w, words) = [buf |-> u.buf, refs |-> r, ok |-> u.ok]
  BY <1>2, <1>1 DEF IsWriter
<1> QED BY <1>1, <1>3 DEF IsWriter, r

LEMMA PopItemWhole ==
  ASSUME NEW w, IsWriter(w), w.ok = TRUE, NEW size, size = Len(w.buf) - Last(w.refs) - 1,
         ~(size <= 0)
  PROVE  LET v == pop_item(w)
         IN  /\ IsWriter(v) /\ v.ok = TRUE /\ v.refs = Front(w.refs)
             /\ v.buf = Filled(w.buf, Last(w.refs) + 1, size)
<1> DEFINE b == Filled(w.buf, Last(w.refs) + 1, size)
           r == Front(w.refs)
<1>1. pop_item(w) = [w EXCEPT !.buf[Last(w.refs) + 1].of = size, !.refs = r]
  BY DEF pop_item
<1>2. pop_item(w) = [w EXCEPT !.buf = b, !.refs = r]
  <2> HIDE DEF r
  <2> QED BY <1>1 DEF Filled
<1> HIDE DEF b, r
<1>3. pop_item(w) = [buf |-> b, refs |-> r, ok |-> w.ok]
  BY <1>2 DEF IsWriter
<1> QED BY <1>3 DEF IsWriter, b, r

LEMMA PopBundleWhole ==
  ASSUME NEW w, IsWriter(w), w.ok = TRUE, ~(Len(w.buf) - Last(w.refs) - 4 <= 0)
  PROVE  LET v == pop_bundle(w)
         IN  IsWriter(v) /\ v.ok = TRUE /\ v.refs = Front(w.refs) /\ v.buf = w.buf
<1> DEFINE r == Front(w.refs)
<1>1. pop_bundle(w) = [w EXCEPT !.refs = r]
  BY DEF pop_bundle
<1> HIDE DEF r
<1>2. pop_bundle(w) = [buf |-> w.buf, refs |-> r, ok |-> w.ok]
  BY <1>1 DEF IsWriter
<1> QED BY <1>2 DEF IsWriter, r

(* A word that will be a size                                              *)
NoSize == [of |-> 0, part |-> 1]

(* With m frames open, the item that the k-th bundle is at is one of them, *)
(* and its size is not known yet.                                          *)
Awaits(s, m, i) == \E k \in 1..Len(s) : 2 * k <= m /\ i = s[k].from

(* u is b up to n, but for the sizes that are not known yet.               *)
Holds(u, b, s, m, n) ==
  /\ IsWords(u) /\ Len(u) = n
  /\ \A i \in 1..n : u[i] = IF Awaits(s, m, i) THEN NoSize ELSE b[i]

(* The frames are where the bundles of the reader are.                     *)
Frames(refs, s, m) ==
  /\ refs \in Seq(Nat) /\ Len(refs) = m
  /\ m > 0 => refs[1] = 0
  /\ \A k \in 1..Len(s) :
       /\ 2 * k <= m => refs[2 * k] = s[k].from - 1
       /\ 2 * k + 1 <= m => refs[2 * k + 1] = s[k].from

Copied(w, b, s, m, n) ==
  /\ IsWriter(w) /\ w.ok = TRUE
  /\ Holds(w.buf, b, s, m, n)
  /\ Frames(w.refs, s, m)

LEMMA CopiedNone == ASSUME NEW b PROVE Copied(Empty, b, << >>, 0, 0)
<1>1. IsWriter(Empty) /\ Empty.ok = TRUE /\ Empty.buf = << >> /\ Empty.refs = << >>
  BY DEF Empty, IsWriter
<1>2. IsWords(<< >>) /\ << >> \in Seq(Nat) /\ Len(<< >>) = 0
  <2>1. << >> \in Seq(WordsOf({})) /\ << >> \in Seq(Nat) /\ Len(<< >>) = 0
    OBVIOUS
  <2> QED BY <2>1 DEF IsWords
<1>3. Holds(<< >>, b, << >>, 0, 0) /\ Frames(<< >>, << >>, 0)
  BY <1>2 DEF Holds, Frames
<1> QED BY <1>1, <1>3 DEF Copied

(* Words behind what was copied                                            *)
LEMMA HoldsMore ==
  ASSUME NEW u, NEW b, NEW s, NEW m, NEW n \in Nat, NEW words, NEW l,
         Holds(u, b, s, m, n), IsWords(words),
         \A i \in 1..n : Awaits(s, l, i) <=> Awaits(s, m, i),
         \A i \in 1..Len(words) : words[i] = IF Awaits(s, l, n + i) THEN NoSize ELSE b[n + i]
  PROVE  Holds(u \o words, b, s, l, n + Len(words))
<1> DEFINE v == u \o words
<1>1. IsWords(u) /\ Len(u) = n /\ \A i \in 1..n : u[i] = IF Awaits(s, m, i) THEN NoSize ELSE b[i]
  BY DEF Holds
<1>2. /\ IsWords(v) /\ Len(words) \in Nat /\ Len(v) = n + Len(words)
      /\ \A i \in 1..n : v[i] = u[i]
      /\ \A i \in 1..Len(words) : v[n + i] = words[i]
  BY <1>1, Joined
<1> HIDE DEF v
<1>3. ASSUME NEW i \in 1..(n + Len(words))
      PROVE  v[i] = IF Awaits(s, l, i) THEN NoSize ELSE b[i]
  <2>1. CASE i <= n
    <3>1. i \in 1..n
      BY <2>1
    <3> QED BY <1>1, <1>2, <3>1
  <2>2. CASE ~(i <= n)
    <3> DEFINE j == i - n
    <3>1. j \in 1..Len(words) /\ n + j = i
      BY <1>2, <2>2
    <3> HIDE DEF j
    <3> QED BY <1>2, <3>1
  <2> QED BY <2>1, <2>2
<1>4. Holds(v, b, s, l, n + Len(words))
  BY <1>2, <1>3 DEF Holds
<1> QED BY <1>4 DEF v

(* A message is added.                                                     *)
LEMMA CopiedAdd ==
  ASSUME NEW w, NEW b, NEW s, NEW m, NEW n \in Nat, NEW words,
         Copied(w, b, s, m, n), IsWords(words), n + Len(words) < Room,
         \A i \in 1..Len(words) : ~Awaits(s, m, n + i),
         \A i \in 1..Len(words) : words[i] = b[n + i]
  PROVE  Copied(Add(w, words), b, s, m, n + Len(words))
<1> DEFINE v == Add(w, words)
<1>1. /\ IsWriter(w) /\ w.ok = TRUE /\ Holds(w.buf, b, s, m, n) /\ Len(w.buf) = n
      /\ Frames(w.refs, s, m)
  BY DEF Copied, Holds
<1>2. IsWriter(v) /\ v.ok = TRUE /\ v.refs = w.refs /\ v.buf = w.buf \o words
  BY <1>1, AddWhole
<1> HIDE DEF v
<1>3. \A i \in 1..Len(words) : words[i] = IF Awaits(s, m, n + i) THEN NoSize ELSE b[n + i]
  OBVIOUS
<1>4. Holds(w.buf \o words, b, s, m, n + Len(words))
  BY <1>1, <1>3, HoldsMore
<1>5. Copied(v, b, s, m, n + Len(words))
  BY <1>1, <1>2, <1>4 DEF Copied
<1> QED BY <1>5 DEF v

(* A frame is opened, with the words it begins with.                       *)
LEMMA CopiedPush ==
  ASSUME NEW w, NEW b, NEW s, NEW m \in Nat, NEW n \in Nat, NEW words,
         Copied(w, b, s, m, n), IsWords(words), n + Len(words) < Room,
         \A i \in 1..n : Awaits(s, m + 1, i) <=> Awaits(s, m, i),
         \A i \in 1..Len(words) :
           words[i] = IF Awaits(s, m + 1, n + i) THEN NoSize ELSE b[n + i],
         m = 0 => n = 0,
         \A k \in 1..Len(s) : /\ 2 * k = m + 1 => s[k].from = n + 1
                              /\ 2 * k = m => s[k].from = n
  PROVE  Copied(push(w, words), b, s, m + 1, n + Len(words))
<1> DEFINE v == push(w, words)
<1>1. /\ IsWriter(w) /\ w.ok = TRUE /\ Holds(w.buf, b, s, m, n) /\ Len(w.buf) = n
      /\ Frames(w.refs, s, m)
  BY DEF Copied, Holds
<1>2. IsWriter(v) /\ v.ok = TRUE /\ v.refs = Append(w.refs, n) /\ v.buf = w.buf \o words
  BY <1>1, PushWhole
<1> HIDE DEF v
<1>3. Holds(w.buf \o words, b, s, m + 1, n + Len(words))
  BY <1>1, HoldsMore
<1> DEFINE old == w.refs
           new == v.refs
<1>4. /\ old \in Seq(Nat) /\ Len(old) = m /\ (m > 0 => old[1] = 0)
      /\ \A k \in 1..Len(s) :
           /\ 2 * k <= m => old[2 * k] = s[k].from - 1
           /\ 2 * k + 1 <= m => old[2 * k + 1] = s[k].from
  BY <1>1 DEF Frames
<1>5. new = Append(old, n)
  BY <1>2
<1> HIDE DEF old, new
<1>6. /\ new \in Seq(Nat) /\ Len(new) = m + 1 /\ new[m + 1] = n
      /\ \A i \in 1..m : new[i] = old[i]
  BY <1>4, <1>5, AppendFacts
<1>7. new[1] = 0
  <2>1. CASE m = 0
    <3>1. n = 0 /\ m + 1 = 1
      BY <2>1
    <3> QED BY <1>6, <3>1
  <2>2. CASE m # 0
    <3>1. m > 0 /\ 1 \in 1..m
      BY <2>2
    <3> QED BY <1>4, <1>6, <3>1
  <2> QED BY <2>1, <2>2
<1>8. ASSUME NEW k \in 1..Len(s)
      PROVE  /\ 2 * k <= m + 1 => new[2 * k] = s[k].from - 1
             /\ 2 * k + 1 <= m + 1 => new[2 * k + 1] = s[k].from
  <2>1. ASSUME 2 * k <= m + 1 PROVE new[2 * k] = s[k].from - 1
    <3>1. CASE 2 * k = m + 1
      <4>1. s[k].from - 1 = n
        BY <3>1
      <4> QED BY <1>6, <3>1, <4>1
    <3>2. CASE 2 * k # m + 1
      <4>1. 2 * k \in 1..m /\ 2 * k <= m
        BY <2>1, <3>2
      <4> QED BY <1>4, <1>6, <4>1
    <3> QED BY <3>1, <3>2
  <2>2. ASSUME 2 * k + 1 <= m + 1 PROVE new[2 * k + 1] = s[k].from
    <3>1. CASE 2 * k = m
      <4>1. s[k].from = n /\ 2 * k + 1 = m + 1
        BY <3>1
      <4> QED BY <1>6, <4>1
    <3>2. CASE 2 * k # m
      <4>1. 2 * k + 1 \in 1..m /\ 2 * k + 1 <= m
        BY <2>2, <3>2
      <4> QED BY <1>4, <1>6, <4>1
    <3> QED BY <3>1, <3>2
  <2> QED BY <2>1, <2>2
<1>9. Frames(new, s, m + 1)
  BY <1>6, <1>7, <1>8 DEF Frames
<1>10. Copied(v, b, s, m + 1, n + Len(words))
  BY <1>2, <1>3, <1>9 DEF Copied, new
<1> QED BY <1>10 DEF v

LEMMA FramesFront ==
  ASSUME NEW refs, NEW s, NEW m \in Nat, m > 0, Frames(refs, s, m), DOMAIN s = 1..Len(s),
         Len(s) \in Nat
  PROVE  Frames(Front(refs), s, m - 1) /\ Last(refs) = refs[m]
<1>1. refs \in Seq(Nat) /\ Len(refs) = m /\ refs[1] = 0
  BY DEF Frames
<1>2. /\ Front(refs) \in Seq(Nat) /\ Len(Front(refs)) = m - 1 /\ Last(refs) = refs[m]
      /\ \A i \in 1..(m - 1) : Front(refs)[i] = refs[i]
  BY <1>1, FrontFacts
<1>3. m - 1 > 0 => Front(refs)[1] = 0
  BY <1>1, <1>2
<1>4. ASSUME NEW k \in 1..Len(s)
      PROVE  /\ 2 * k <= m - 1 => Front(refs)[2 * k] = s[k].from - 1
             /\ 2 * k + 1 <= m - 1 => Front(refs)[2 * k + 1] = s[k].from
  <2>1. /\ 2 * k <= m => refs[2 * k] = s[k].from - 1
        /\ 2 * k + 1 <= m => refs[2 * k + 1] = s[k].from
    BY DEF Frames
  <2>2. /\ 2 * k <= m - 1 => 2 * k \in 1..(m - 1) /\ 2 * k <= m
        /\ 2 * k + 1 <= m - 1 => 2 * k + 1 \in 1..(m - 1) /\ 2 * k + 1 <= m
    OBVIOUS
  <2> QED BY <1>2, <2>1, <2>2
<1> QED BY <1>2, <1>3, <1>4 DEF Frames

(* An item is complete: its size is filled in.                             *)
LEMMA CopiedPopItem ==
  ASSUME NEW w, NEW b, NEW s, NEW n \in Nat, NEW k \in 1..Len(s), Len(s) \in Nat,
         DOMAIN s = 1..Len(s), Copied(w, b, s, 2 * k, n),
         s[k].from \in Nat, 0 < s[k].from, s[k].from < n,
         b[s[k].from] = [of |-> n - s[k].from, part |-> 1],
         \A j \in 1..Len(s) : j < k => s[j].from # s[k].from
  PROVE  Copied(pop_item(w), b, s, 2 * k - 1, n)
<1> DEFINE v == pop_item(w)
           f == s[k].from
           old == w.buf
           refs == w.refs
           m == 2 * k
<1>1. /\ IsWriter(w) /\ w.ok = TRUE /\ Holds(old, b, s, m, n) /\ Len(old) = n /\ IsWords(old)
      /\ Frames(refs, s, m)
      /\ \A i \in 1..n : old[i] = IF Awaits(s, m, i) THEN NoSize ELSE b[i]
  BY DEF Copied, Holds
<1>2. Frames(Front(refs), s, m - 1) /\ Last(refs) = refs[m] /\ refs[m] = f - 1
  <2>1. m \in Nat /\ m > 0
    OBVIOUS
  <2>2. refs[m] = f - 1
    BY SMTT(20), <1>1 DEF Frames
  <2> HIDE DEF refs, m
  <2>3. Frames(Front(refs), s, m - 1) /\ Last(refs) = refs[m]
    BY <1>1, <2>1, FramesFront
  <2> QED BY <2>2, <2>3
<1>3. /\ n - f = Len(w.buf) - Last(w.refs) - 1 /\ ~(n - f <= 0) /\ Last(w.refs) + 1 = f
      /\ f \in 1..n
  BY <1>1, <1>2
<1> DEFINE size == n - f
           new == Filled(old, f, size)
<1>4. /\ IsWriter(v) /\ v.ok = TRUE /\ v.refs = Front(refs)
      /\ v.buf = Filled(old, Last(refs) + 1, size)
  <2>1. size = Len(w.buf) - Last(w.refs) - 1 /\ ~(size <= 0)
    BY <1>3
  <2> HIDE DEF size
  <2> QED BY <1>1, <2>1, PopItemWhole
<1>5. v.buf = new
  BY <1>3, <1>4
<1>6. /\ IsWords(new) /\ Len(new) = n /\ new[f].of = size /\ new[f].part = old[f].part
      /\ \A j \in 1..n : j # f => new[j] = old[j]
  <2>1. IsWords(old) /\ Len(old) = n /\ f \in 1..Len(old)
    BY <1>1, <1>3
  <2> HIDE DEF f, size, old
  <2>2. /\ IsWords(Filled(old, f, size)) /\ Len(Filled(old, f, size)) = Len(old)
        /\ Filled(old, f, size)[f].of = size /\ Filled(old, f, size)[f].part = old[f].part
        /\ \A j \in 1..Len(old) : j # f => Filled(old, f, size)[j] = old[j]
    BY <2>1, WordsFilled
  <2> QED BY <2>1, <2>2
<1>7. Awaits(s, m, f)
  BY DEF Awaits
<1>8. old[f].part = 1
  <2>1. old[f] = NoSize
    BY <1>1, <1>3, <1>7
  <2> QED BY <2>1 DEF NoSize
<1>9. new[f] = b[f]
  <2>1. PICK V : new \in Seq(WordsOf(V))
    BY <1>6 DEF IsWords
  <2>2. new[f] \in WordsOf(V)
    <3> DEFINE W == WordsOf(V)
    <3>1. new \in Seq(W)
      BY <2>1
    <3>2. f \in 1..Len(new)
      BY <1>3, <1>6
    <3> HIDE DEF W, new, f
    <3> QED BY <3>1, <3>2 DEF W
  <2> HIDE DEF new
  <2>3. new[f] = [of |-> new[f].of, part |-> new[f].part]
    BY <2>2 DEF WordsOf
  <2> QED BY <1>6, <1>8, <2>3
<1>10. ~Awaits(s, m - 1, f)
  <2>1. \A j \in 1..Len(s) : 2 * j <= m - 1 => j < k
    OBVIOUS
  <2> HIDE DEF m
  <2> QED BY <2>1 DEF Awaits
<1>11. ASSUME NEW i, i # f PROVE Awaits(s, m - 1, i) <=> Awaits(s, m, i)
  <2>1. \A j \in 1..Len(s) : 2 * j <= m - 1 => 2 * j <= m
    OBVIOUS
  <2>2. \A j \in 1..Len(s) : 2 * j <= m => j = k \/ 2 * j <= m - 1
    OBVIOUS
  <2> HIDE DEF m
  <2> QED BY <1>11, <2>1, <2>2 DEF Awaits
<1>12. \A i \in 1..n : new[i] = IF Awaits(s, m - 1, i) THEN NoSize ELSE b[i]
  <2> HIDE DEF new, f, m
  <2> SUFFICES ASSUME NEW i \in 1..n
               PROVE  new[i] = IF Awaits(s, m - 1, i) THEN NoSize ELSE b[i]
    OBVIOUS
  <2>1. CASE i = f
    BY <1>9, <1>10, <2>1
  <2>2. CASE i # f
    BY <1>1, <1>6, <1>11, <2>2
  <2> QED BY <2>1, <2>2
<1>13. Holds(new, b, s, m - 1, n)
  BY <1>6, <1>12 DEF Holds
<1> HIDE DEF v, new
<1>14. Copied(v, b, s, m - 1, n)
  BY <1>2, <1>4, <1>5, <1>13 DEF Copied
<1> QED BY <1>14 DEF v

(* A bundle is complete.                                                   *)
LEMMA CopiedPopBundle ==
  ASSUME NEW w, NEW b, NEW s, NEW n \in Nat, NEW k \in Nat, Len(s) \in Nat,
         DOMAIN s = 1..Len(s), Copied(w, b, s, 2 * k + 1, n), k <= Len(s),
         IF k = 0 THEN 4 < n ELSE s[k].from \in Nat /\ s[k].from + 4 < n
  PROVE  Copied(pop_bundle(w), b, s, 2 * k, n)
<1> DEFINE v == pop_bundle(w)
           m == 2 * k + 1
           refs == w.refs
<1>1. /\ IsWriter(w) /\ w.ok = TRUE /\ Holds(w.buf, b, s, m, n) /\ Len(w.buf) = n
      /\ Frames(refs, s, m)
  BY DEF Copied, Holds
<1>2. m \in Nat /\ m > 0 /\ m - 1 = 2 * k
  OBVIOUS
<1>3. refs[m] = IF k = 0 THEN 0 ELSE s[k].from
  <2>1. CASE k = 0
    <3>1. m = 1
      BY <2>1
    <3> QED BY <1>1, <2>1, <3>1 DEF Frames
  <2>2. CASE k # 0
    <3>1. k \in 1..Len(s)
      BY <2>2
    <3>2. 2 * k + 1 <= m
      OBVIOUS
    <3> HIDE DEF m, refs
    <3>3. refs[2 * k + 1] = s[k].from
      BY <1>1, <3>1, <3>2 DEF Frames
    <3> QED BY <2>2, <3>3 DEF m
  <2> QED BY <2>1, <2>2
<1>4. Frames(Front(refs), s, 2 * k) /\ Last(refs) = refs[m]
  <2> HIDE DEF refs, m
  <2>1. Frames(Front(refs), s, m - 1) /\ Last(refs) = refs[m]
    BY <1>1, <1>2, FramesFront
  <2> QED BY <1>2, <2>1
<1>5. ~(Len(w.buf) - Last(w.refs) - 4 <= 0)
  <2> DEFINE r == Last(w.refs)
  <2>1. r = IF k = 0 THEN 0 ELSE s[k].from
    BY <1>3, <1>4
  <2> HIDE DEF r
  <2>2. ~(n - r - 4 <= 0)
    BY <2>1
  <2> QED BY <1>1, <2>2 DEF r
<1>6. IsWriter(v) /\ v.ok = TRUE /\ v.refs = Front(refs) /\ v.buf = w.buf
  BY <1>1, <1>5, PopBundleWhole
<1>7. \A i : Awaits(s, 2 * k, i) <=> Awaits(s, m, i)
  <2>1. \A j \in 1..Len(s) : 2 * j <= 2 * k <=> 2 * j <= m
    OBVIOUS
  <2> HIDE DEF m
  <2> QED BY <2>1 DEF Awaits
<1>8. Holds(w.buf, b, s, 2 * k, n)
  <2> HIDE DEF m
  <2> QED BY <1>1, <1>7 DEF Holds
<1> HIDE DEF v
<1>9. Copied(v, b, s, 2 * k, n)
  BY <1>4, <1>6, <1>8 DEF Copied
<1> QED BY <1>9 DEF v

(* What the writer has not come to, the reader may change.                 *)
LEMMA CopiedMoved ==
  ASSUME NEW w, NEW b, NEW s, NEW t, NEW m \in Nat, NEW n, Copied(w, b, s, m, n),
         Len(s) \in Nat, Len(t) \in Nat,
         \A k \in Nat : 2 * k <= m /\ k # 0 =>
           k <= Len(s) /\ k <= Len(t) /\ t[k].from = s[k].from
  PROVE  Copied(w, b, t, m, n)
<1>1. /\ IsWriter(w) /\ w.ok = TRUE /\ Holds(w.buf, b, s, m, n) /\ Frames(w.refs, s, m)
  BY DEF Copied
<1>2. \A i : Awaits(t, m, i) <=> Awaits(s, m, i)
  <2>1. ASSUME NEW k \in 1..Len(t), 2 * k <= m PROVE k \in 1..Len(s) /\ t[k].from = s[k].from
    BY <2>1
  <2>2. ASSUME NEW k \in 1..Len(s), 2 * k <= m PROVE k \in 1..Len(t) /\ t[k].from = s[k].from
    BY <2>2
  <2> QED BY <2>1, <2>2 DEF Awaits
<1>3. Holds(w.buf, b, t, m, n)
  BY <1>1, <1>2 DEF Holds
<1>4. Frames(w.refs, t, m)
  <2>1. ASSUME NEW k \in 1..Len(t)
        PROVE  /\ 2 * k <= m => w.refs[2 * k] = t[k].from - 1
               /\ 2 * k + 1 <= m => w.refs[2 * k + 1] = t[k].from
    <3>1. 2 * k + 1 <= m => 2 * k <= m
      BY <1>1 DEF Frames
    <3>2. 2 * k <= m => k \in 1..Len(s) /\ t[k].from = s[k].from
      OBVIOUS
    <3> QED BY <1>1, <3>1, <3>2 DEF Frames
  <2> QED BY <1>1, <2>1 DEF Frames
<1> QED BY <1>1, <1>3, <1>4 DEF Copied

(* An item is begun where the k-th bundle is.                              *)
LEMMA CopiedItem ==
  ASSUME NEW w, NEW b, NEW s, Len(s) \in Nat, NEW k \in 1..Len(s), NEW p \in Nat, p > 0, p < Room,
         Copied(w, b, s, 2 * k - 1, p - 1), s[k].from = p,
         \A j \in 1..Len(s) : j < k => s[j].from < p
  PROVE  Copied(push_item(w), b, s, 2 * k, p)
<1> DEFINE words == Words(1, 0)
           m == 2 * k - 1
           n == p - 1
<1>1. IsWords(words) /\ Len(words) = 1 /\ words[1] = NoSize
  <2>1. 1 \in 1..1 /\ 1 \in Nat
    OBVIOUS
  <2>2. /\ words \in Seq(WordsOf({0})) /\ Len(words) = 1
        /\ \A i \in 1..1 : words[i] = [of |-> 0, part |-> i]
    BY <2>1, WordsFacts
  <2> HIDE DEF words
  <2> QED BY <2>1, <2>2 DEF IsWords, NoSize
<1>2. m \in Nat /\ n \in Nat /\ m # 0 /\ m + 1 = 2 * k /\ n + 1 = p
  OBVIOUS
<1>3. \A i \in 1..n : Awaits(s, m + 1, i) <=> Awaits(s, m, i)
  <2> SUFFICES ASSUME NEW i \in 1..n PROVE Awaits(s, m + 1, i) <=> Awaits(s, m, i)
    OBVIOUS
  <2>1. \A j \in 1..Len(s) : 2 * j <= m + 1 => j = k \/ 2 * j <= m
    OBVIOUS
  <2>2. \A j \in 1..Len(s) : 2 * j <= m => 2 * j <= m + 1
    OBVIOUS
  <2>3. i # s[k].from
    OBVIOUS
  <2> HIDE DEF m, n
  <2> QED BY <2>1, <2>2, <2>3 DEF Awaits
<1>4. \A i \in 1..Len(words) : words[i] = IF Awaits(s, m + 1, n + i) THEN NoSize ELSE b[n + i]
  <2>1. Awaits(s, m + 1, p)
    BY DEF Awaits
  <2> HIDE DEF words, m, n
  <2> SUFFICES ASSUME NEW i \in 1..Len(words)
               PROVE  words[i] = IF Awaits(s, m + 1, n + i) THEN NoSize ELSE b[n + i]
    OBVIOUS
  <2>2. i = 1
    BY <1>1
  <2>3. n + i = p
    BY <1>2, <2>2
  <2> QED BY <1>1, <2>1, <2>2, <2>3
<1>5. \A j \in 1..Len(s) : /\ 2 * j = m + 1 => s[j].from = n + 1
                           /\ 2 * j = m => s[j].from = n
  <2> SUFFICES ASSUME NEW j \in 1..Len(s)
               PROVE  /\ 2 * j = m + 1 => s[j].from = n + 1
                      /\ 2 * j = m => s[j].from = n
    OBVIOUS
  <2>1. 2 * j # m
    OBVIOUS
  <2>2. 2 * j = m + 1 => j = k
    OBVIOUS
  <2> HIDE DEF m, n
  <2> QED BY <1>2, <2>1, <2>2
<1>6. n + Len(words) < Room /\ n + Len(words) = p
  <2> HIDE DEF words
  <2> QED BY <1>1
<1>7. Copied(w, b, s, m, n)
  OBVIOUS
<1> HIDE DEF words, m, n
<1>8. Copied(push(w, words), b, s, m + 1, n + Len(words))
  BY <1>1, <1>2, <1>3, <1>4, <1>5, <1>6, <1>7, CopiedPush
<1> QED BY <1>2, <1>6, <1>8 DEF push_item, words

(* A bundle is begun, on its own or in the item of the k-th bundle.        *)
LEMMA CopiedBundle ==
  ASSUME NEW w, NEW b, NEW s, Len(s) \in Nat, NEW k \in Nat, k <= Len(s), NEW p \in Nat,
         p + 4 < Room, NEW timetag, Copied(w, b, s, 2 * k, p),
         IF k = 0 THEN p = 0 ELSE s[k].from = p,
         \A j \in 1..Len(s) : j <= k => s[j].from \in Nat /\ s[j].from <= p,
         \A i \in 1..4 : b[p + i] = (Words(2, Bundle) \o Words(2, timetag))[i]
  PROVE  Copied(push_bundle(w, timetag), b, s, 2 * k + 1, p + 4)
<1> DEFINE words == Words(2, Bundle) \o Words(2, timetag)
           m == 2 * k
<1>1. IsWords(words) /\ Len(words) = 4
  BY HeadFacts
<1>2. \A i \in 1..4 : b[p + i] = words[i]
  OBVIOUS
<1>3. m \in Nat /\ (m = 0 => p = 0)
  OBVIOUS
<1>4. \A i : Awaits(s, m + 1, i) <=> Awaits(s, m, i)
  <2>1. \A j \in 1..Len(s) : 2 * j <= m + 1 <=> 2 * j <= m
    OBVIOUS
  <2> HIDE DEF m
  <2> QED BY <2>1 DEF Awaits
<1>5. \A i \in 1..4 : ~Awaits(s, m + 1, p + i)
  <2> SUFFICES ASSUME NEW i \in 1..4, NEW j \in 1..Len(s), 2 * j <= m + 1 PROVE p + i # s[j].from
    BY DEF Awaits
  <2>1. j <= k
    OBVIOUS
  <2>2. s[j].from \in Nat /\ s[j].from <= p
    BY <2>1
  <2> QED BY <2>2
<1>6. \A j \in 1..Len(s) : /\ 2 * j = m + 1 => s[j].from = p + 1
                           /\ 2 * j = m => s[j].from = p
  <2> SUFFICES ASSUME NEW j \in 1..Len(s)
               PROVE  2 * j # m + 1 /\ (2 * j = m => s[j].from = p)
    OBVIOUS
  <2>1. 2 * j # m + 1 /\ (2 * j = m => j = k /\ k # 0)
    OBVIOUS
  <2> QED BY <2>1
<1> HIDE DEF words
<1>7. \A i \in 1..Len(words) : words[i] = IF Awaits(s, m + 1, p + i) THEN NoSize ELSE b[p + i]
  BY <1>1, <1>2, <1>5
<1>8. p + Len(words) < Room /\ p + Len(words) = p + 4
  BY <1>1
<1>9. Copied(w, b, s, m, p)
  OBVIOUS
<1> HIDE DEF m
<1>10. Copied(push(w, words), b, s, m + 1, p + Len(words))
  BY <1>1, <1>3, <1>4, <1>6, <1>7, <1>8, <1>9, CopiedPush
<1> QED BY <1>8, <1>10 DEF push_bundle, words, m

(* An item with a message in it is written.                                *)
LEMMA CopiedMessage ==
  ASSUME NEW w, NEW b, NEW s, Len(s) \in Nat, DOMAIN s = 1..Len(s), NEW k \in 1..Len(s),
         NEW p \in Nat, p > 0, NEW words, IsWords(words), NEW size \in Nat, size = Len(words),
         size > 0, p + size < Room,
         Copied(w, b, s, 2 * k - 1, p - 1), s[k].from = p,
         \A j \in 1..Len(s) : j < k => s[j].from \in Nat /\ s[j].from < p,
         b[p] = [of |-> size, part |-> 1],
         \A i \in 1..size : b[p + i] = words[i]
  PROVE  Copied(Close(Add(push_item(w), words)), b, s, 2 * k - 1, p + size)
<1> DEFINE u == push_item(w)
           v == Add(u, words)
           m == 2 * k
           n == p + size
<1>1. Copied(u, b, s, m, p)
  <2>1. p < Room
    BY RoomAssumption
  <2> QED BY <2>1, CopiedItem
<1>2. \A i \in 1..size : ~Awaits(s, m, p + i)
  <2> SUFFICES ASSUME NEW i \in 1..size, NEW j \in 1..Len(s), 2 * j <= m PROVE p + i # s[j].from
    BY DEF Awaits
  <2>1. j = k \/ j < k
    OBVIOUS
  <2>2. s[j].from \in Nat /\ s[j].from <= p
    BY <2>1
  <2> QED BY <2>2
<1>3. Copied(v, b, s, m, n)
  <2> HIDE DEF u, m
  <2>1. p + Len(words) < Room /\ p + Len(words) = n
    OBVIOUS
  <2>2. /\ \A i \in 1..Len(words) : ~Awaits(s, m, p + i)
        /\ \A i \in 1..Len(words) : words[i] = b[p + i]
    BY <1>2
  <2>3. Copied(Add(u, words), b, s, m, p + Len(words))
    BY <1>1, <2>1, <2>2, CopiedAdd
  <2> QED BY <2>1, <2>3
<1>4. n \in Nat /\ p < n /\ n - p = size
  OBVIOUS
<1>5. \A j \in 1..Len(s) : j < k => s[j].from # s[k].from
  OBVIOUS
<1> HIDE DEF v, n
<1>6. Copied(v, b, s, 2 * k, n)
  BY <1>3
<1>7. /\ s[k].from \in Nat /\ 0 < s[k].from /\ s[k].from < n
      /\ b[s[k].from] = [of |-> n - s[k].from, part |-> 1]
  BY <1>4
<1>8. Copied(pop_item(v), b, s, 2 * k - 1, n)
  BY <1>4, <1>5, <1>6, <1>7, CopiedPopItem
<1>9. Close(v) = pop_item(v)
  <2>1. Len(v.refs) = 2 * k
    BY <1>6 DEF Copied, Frames
  <2>2. v.refs = << >> => Len(v.refs) = 0
    OBVIOUS
  <2> QED BY <2>1, <2>2 DEF Close
<1> QED BY <1>8, <1>9 DEF v, u, n
-----------------------------------------------------------------------------
(* What forge.h makes of a packet: the third invariant                     *)

(* The item that the k-th bundle is at has its size in front of it and     *)
(* lies behind the head of the bundle, which begins where the item around  *)
(* it does.                                                                *)
FrameAt(b, s, k) ==
  /\ b[s[k].from] = [of |-> s[k].size, part |-> 1]
  /\ (IF k = 1 THEN 0 ELSE s[k - 1].from) + 4 < s[k].from

(* How many frames are open when what was read is written again, and how   *)
(* far that has come                                                       *)
Depth(s) == IF s = << >> THEN 0 ELSE 2 * Len(s) - 1
Upto(unread, s) ==
  IF s = << >> THEN 0
  ELSE IF unread THEN s[Len(s)].from - 1 ELSE s[Len(s)].from + s[Len(s)].size

(* The ends of the outermost bundle's items that arrived                   *)
Complete == {0} \cup {items[k] : k \in {j \in 1..Len(items) : items[j] <= end}}

Rewritten ==
  (Bundled \/ end = Len(buf)) =>
    Rewrite.ok /\ Rewrite.buf = SubSeq(buf, 1, IF Bundled THEN Most(Complete) ELSE end)

ForgeInv ==
  /\ pc = "read" => \A k \in 1..Len(stack) : FrameAt(buf, stack, k)
  /\ consumer = "forge" /\ Underway =>
       Copied(Rewrite, buf, stack, Depth(stack), Upto(calling, stack))
  /\ consumer = "forge" /\ ((pc = "read" /\ ~calling /\ stack = << >>) \/ pc = "done") =>
       Rewritten

LEMMA WordIs ==
  ASSUME NEW b, IsWords(b), NEW i \in 1..Len(b), b[i].part = 1
  PROVE  b[i] = [of |-> b[i].of, part |-> 1]
<1>1. PICK V : b \in Seq(WordsOf(V))
  BY DEF IsWords
<1> DEFINE W == WordsOf(V)
<1>2. b[i] \in W
  <2>1. b \in Seq(W)
    BY <1>1
  <2> HIDE DEF W
  <2> QED BY <2>1
<1>3. b[i] = [of |-> b[i].of, part |-> b[i].part]
  BY <1>2 DEF WordsOf
<1> QED BY <1>3

(* The words that a bundle that is looked at begins with, up to the size   *)
(* of its first item                                                       *)
LEMMA BundleWords ==
  ASSUME PacketInv, pc = "read", IsBundle
  PROVE  LET p == Current.from
         IN  /\ p \in Nat /\ p + 5 \in 1..Len(buf)
             /\ \A i \in 1..4 : buf[p + i] = (Words(2, Bundle) \o Words(2, Word(p + 2)))[i]
             /\ buf[p + 5] = [of |-> Word(p + 4), part |-> 1]
<1> DEFINE p == Current.from
           n == Len(stack)
           d == MaxDepth - n
           W == Begun(written)
           tag == buf[p + 3].of
<1>1. PICK e \in Nat :
           /\ p \in Nat /\ Current.to \in Nat /\ Current.to <= e
           /\ Sound(buf, W, APacket(p, e, d, Current.timetag))
           /\ stack # << >> => e = Current.to
  BY CurrentFacts
<1>2. d \in Nat /\ IsWords(buf) /\ Len(buf) \in Nat
  BY StackFacts
<1>3. d > 0 /\ p + 4 < e /\ HeadAt(buf, W, p) /\ Sound(buf, W, TheItems(p + 4, e, d - 1, tag))
  <2>1. buf[p + 1].of = Bundle
    BY DEF IsBundle, Word
  <2> HIDE DEF p, d, tag, W
  <2>2. ~MessageAt(buf, W, APacket(p, e, d, Current.timetag))
    BY <2>1, MessageStart DEF APacket
  <2> QED BY <1>1, <1>2, <2>2, PacketFacts DEF tag
<1> DEFINE q == p + 4
           c == d - 1
<1>4. q \in Nat /\ c \in Nat /\ q # e /\ Sound(buf, W, TheItems(q, e, c, tag))
  BY <1>1, <1>2, <1>3
<1>5. p + 5 = q + 1 /\ Word(p + 4) = buf[q + 1].of /\ Word(p + 2) = tag
  <2>1. p + 2 + 1 = p + 3
    BY <1>1
  <2> QED BY <1>1, <2>1 DEF Word
<1>6. q < e /\ e <= Len(buf) /\ buf[q + 1].part = 1
  <2>1. Sound(buf, W, TheItems(q, e, c, tag)) /\ q # e /\ q \in Nat /\ e \in Nat /\ c \in Nat
    BY <1>1, <1>4
  <2> HIDE DEF q, c, tag, W
  <2>2. q < e
    BY <2>1, ItemsFacts
  <2>3. e <= Len(buf)
    BY <2>1, ItemsFacts
  <2>4. buf[q + 1].part = 1
    BY <2>1, ItemsFacts
  <2> QED BY <2>2, <2>3, <2>4
<1>7. \A i \in 1..4 : buf[p + i] = (Words(2, Bundle) \o Words(2, tag))[i]
  BY <1>3 DEF HeadAt
<1>8. q + 1 \in 1..Len(buf)
  <2> HIDE DEF q
  <2> QED BY <1>1, <1>2, <1>4, <1>6
<1>9. buf[q + 1] = [of |-> buf[q + 1].of, part |-> 1]
  <2> HIDE DEF q
  <2> QED BY <1>2, <1>6, <1>8, WordIs
<1> HIDE DEF p, tag, q
<1>10. \A i \in 1..4 : buf[p + i] = (Words(2, Bundle) \o Words(2, Word(p + 2)))[i]
  BY <1>5, <1>7
<1>11. p + 5 \in 1..Len(buf) /\ buf[p + 5] = [of |-> Word(p + 4), part |-> 1]
  BY <1>5, <1>8, <1>9
<1> QED BY <1>1, <1>10, <1>11 DEF p

(* The word that leads to the next item                                    *)
LEMMA NextWord ==
  ASSUME PacketInv, NextItem
  PROVE  Word(Behind) \in Nat /\ buf[Behind + 1] = [of |-> Word(Behind), part |-> 1]
<1> DEFINE n == Len(stack)
           q == stack[n].from + stack[n].size
           to == stack[n].to
<1>1. pc = "read" /\ stack # << >> /\ HasItem(Behind, Last(stack).to)
  BY DEF NextItem, Iterates
<1>2. /\ n \in Nat /\ n > 0 /\ n \in 1..n /\ Last(stack) = stack[n] /\ Behind = q
      /\ q \in Nat /\ to \in Nat
  <2>1. stack[n].from \in Nat /\ stack[n].size \in Nat
    BY <1>1, InnermostFacts
  <2> QED BY <1>1, <2>1, InnermostFacts
<1>3. /\ MaxDepth \in Nat /\ n <= MaxDepth /\ end <= Len(buf) /\ Len(buf) \in Nat /\ end \in Nat
      /\ StackedAt(buf, Begun(written), end, stack, n) /\ IsWords(buf)
  BY <1>1, <1>2, StackFacts
<1> DEFINE e == IF n = 1 THEN Len(buf) ELSE to
           W == Begun(written)
           d == MaxDepth - n
           t == stack[n].timetag
<1>4. Sound(buf, W, TheItems(q, e, d, t)) /\ (n = 1 => to = end)
  BY <1>3 DEF StackedAt
<1>5. q + 1 <= to /\ to <= e /\ e \in Nat /\ d \in Nat
  BY <1>1, <1>2, <1>3, <1>4 DEF HasItem
<1>6. q # e
  <2> HIDE DEF q, e, to
  <2> QED BY <1>2, <1>5
<1>7. q < e /\ e <= Len(buf) /\ buf[q + 1].part = 1 /\ buf[q + 1].of \in Nat
  <2>1. Sound(buf, W, TheItems(q, e, d, t)) /\ q # e /\ q \in Nat /\ e \in Nat /\ d \in Nat
    BY <1>2, <1>4, <1>5, <1>6
  <2> HIDE DEF q, e, d, W, t
  <2>2. q < e
    BY <2>1, ItemsFacts
  <2>3. e <= Len(buf)
    BY <2>1, ItemsFacts
  <2>4. buf[q + 1].part = 1
    BY <2>1, ItemsFacts
  <2>5. buf[q + 1].of \in Nat
    BY <2>1, ItemsFacts
  <2> QED BY <2>2, <2>3, <2>4, <2>5
<1>8. q + 1 \in 1..Len(buf)
  <2> HIDE DEF q, e
  <2> QED BY <1>2, <1>3, <1>5, <1>7
<1>9. buf[q + 1] = [of |-> buf[q + 1].of, part |-> 1]
  <2> HIDE DEF q
  <2> QED BY <1>3, <1>7, <1>8, WordIs
<1> HIDE DEF q
<1> QED BY <1>2, <1>7, <1>9 DEF Word

(* What is handed on of a whole message is what the message was written    *)
(* as.                                                                     *)
LEMMA EventWords ==
  ASSUME NEW m \in Messages, NEW args, args = GivenArgs(m, Len(m.args))
  PROVE  String(m.path) \o Format(args) \o FlattenSeq([k \in DOMAIN args |-> args[k].words])
           = MessageWords(m)
<1> DEFINE n == Len(m.args)
<1>1. n \in Nat /\ DOMAIN m.args = 1..n
  BY MessagesAssumption
<1>2. /\ DOMAIN args = 1..n /\ Len(args) = n
      /\ \A k \in 1..n : args[k].type = m.args[k].type /\ args[k].words = Argument(m.args[k])
  <2>1. args = [k \in 1..n |-> [type |-> m.args[k].type, words |-> Argument(m.args[k])]]
    BY DEF GivenArgs
  <2> HIDE DEF n
  <2>2. /\ DOMAIN args = 1..n
        /\ \A k \in 1..n : args[k].type = m.args[k].type /\ args[k].words = Argument(m.args[k])
    BY <2>1
  <2>3. Len(args) = n
    BY <1>1, <2>1
  <2> QED BY <2>2, <2>3
<1>3. [k \in DOMAIN args |-> args[k].type] = [k \in DOMAIN m.args |-> m.args[k].type]
  BY <1>1, <1>2
<1>4. Format(args) = Format(m.args)
  BY <1>2, <1>3 DEF Format
<1>5. [k \in DOMAIN args |-> args[k].words] = [k \in DOMAIN m.args |-> Argument(m.args[k])]
  BY <1>1, <1>2
<1> QED BY <1>4, <1>5 DEF MessageWords, Head2

LEMMA FrameFacts ==
  ASSUME PacketInv, ForgeInv, pc = "read"
  PROVE  /\ DOMAIN stack = 1..Len(stack) /\ Len(stack) \in Nat
         /\ Len(buf) \in Nat /\ Len(buf) < Room
         /\ \A k \in 1..Len(stack) :
              /\ FrameAt(buf, stack, k)
              /\ stack[k].from \in Nat /\ stack[k].size \in Nat /\ 4 < stack[k].from
              /\ stack[k].size > 0 /\ stack[k].from + stack[k].size <= Len(buf)
         /\ \A j, k \in 1..Len(stack) : j < k => stack[j].from + 4 < stack[k].from
<1> DEFINE n == Len(stack)
<1>1. /\ n \in Nat /\ n <= MaxDepth /\ MaxDepth \in Nat /\ Len(buf) \in Nat
      /\ \A k \in 1..n :
           /\ stack[k].from \in Nat /\ stack[k].size \in Nat
           /\ StackedAt(buf, Begun(written), end, stack, k)
  BY StackFacts
<1>2. \A k \in 1..n : FrameAt(buf, stack, k)
  BY DEF ForgeInv
<1>3. DOMAIN stack = 1..n
  <2>1. PICK V : stack \in Seq(FrameOf(V))
    BY StackFacts DEF Stacked
  <2> QED BY <2>1
<1>4. Len(buf) < Room
  BY DEF PacketInv, TypeOK
<1>5. ASSUME NEW k \in 1..n
      PROVE  stack[k].size > 0 /\ stack[k].from + stack[k].size <= Len(buf)
  <2> DEFINE p == stack[k].from
             e == p + stack[k].size
             d == MaxDepth - k
             t == stack[k].timetag
             W == Begun(written)
  <2>1. /\ p \in Nat /\ e \in Nat /\ d \in Nat /\ Sound(buf, W, APacket(p, e, d, t))
    BY <1>1 DEF StackedAt
  <2>2. p < e /\ e <= Len(buf)
    <3> HIDE DEF p, e, d, t, W
    <3> QED BY <2>1, PacketFacts
  <2> QED BY <1>1, <2>2
<1>6. \A j, k \in 1..n : j < k => stack[j].from + 4 < stack[k].from
  <2> DEFINE K == {k \in Nat : k <= n => \A j \in 1..n : j < k => stack[j].from + 4 < stack[k].from}
  <2>1. 0 \in K
    OBVIOUS
  <2>2. ASSUME NEW k \in K PROVE k + 1 \in K
    <3> SUFFICES ASSUME k + 1 <= n, NEW j \in 1..n, j < k + 1
                 PROVE  stack[j].from + 4 < stack[k + 1].from
      OBVIOUS
    <3>1. k \in Nat /\ k \in 1..n /\ k + 1 \in 1..n /\ k + 1 # 1 /\ (k + 1) - 1 = k /\ k <= n
      BY <1>1
    <3>2. stack[k].from + 4 < stack[k + 1].from
      BY <1>2, <3>1 DEF FrameAt
    <3>3. CASE j = k
      BY <3>2, <3>3
    <3>4. CASE j # k
      <4>1. j < k
        BY <3>4
      <4>2. stack[j].from + 4 < stack[k].from
        BY <3>1, <4>1
      <4>3. stack[j].from \in Nat /\ stack[k].from \in Nat /\ stack[k + 1].from \in Nat
        BY <1>1, <3>1
      <4>4. \A a, b, c \in Nat : a + 4 < b /\ b + 4 < c => a + 4 < c
        OBVIOUS
      <4> QED BY <3>2, <4>2, <4>3, <4>4
    <3> QED BY <3>3, <3>4
  <2>3. \A k \in Nat : k \in K
    <3>1. K \in SUBSET Nat
      OBVIOUS
    <3> HIDE DEF K
    <3> QED BY <2>1, <2>2, <3>1, AllOfNat
  <2> QED BY <1>1, <2>3
<1>7. \A k \in 1..n : 4 < stack[k].from
  <2> SUFFICES ASSUME NEW k \in 1..n PROVE 4 < stack[k].from
    OBVIOUS
  <2>0. 1 \in 1..n /\ (k = 1 \/ 1 < k)
    BY <1>1
  <2>a. FrameAt(buf, stack, 1) /\ stack[1].from \in Nat
    BY <1>1, <1>2, <2>0
  <2>b. 0 + 4 < stack[1].from
    BY <2>a DEF FrameAt
  <2>1. 1 \in 1..n /\ 4 < stack[1].from /\ (k = 1 \/ 1 < k)
    BY <2>0, <2>a, <2>b
  <2>2. 1 < k => stack[1].from + 4 < stack[k].from
    BY <1>6, <2>1
  <2> QED BY <1>1, <2>1, <2>2
<1> QED BY <1>1, <1>2, <1>3, <1>4, <1>5, <1>6, <1>7

(* The reader is in a bundle.                                              *)
LEMMA ForgeGoesOn ==
  ASSUME UNCHANGED <<writer, consumer, end, written, items>>, pc' = "read", stack' # << >>,
         \A k \in 1..Len(stack') : FrameAt(buf, stack', k),
         consumer = "forge" =>
           Copied(Rewrite', buf, stack', Depth(stack'), Upto(calling', stack'))
  PROVE  ForgeInv'
<1>1. buf' = buf /\ consumer' = consumer
  BY DEF buf
<1> QED BY <1>1 DEF ForgeInv

(* The reader is through.                                                  *)
LEMMA ForgeFinishes ==
  ASSUME UNCHANGED <<writer, consumer, end, written, items>>, stack' = << >>,
         pc' \in Ended \/ (pc' = "read" /\ calling' = FALSE),
         consumer = "forge" /\ pc' \in {"read", "done"} => Rewritten'
  PROVE  ForgeInv'
<1>1. consumer' = consumer /\ ~Underway'
  BY DEF Underway, Ended
<1>2. \A k \in 1..Len(stack') : FALSE
  <2>1. Len(stack') = 0
    OBVIOUS
  <2> QED BY <2>1
<1> QED BY <1>1, <1>2 DEF ForgeInv

(* What is written again when a bundle is entered                          *)
LEMMA EnterCopied ==
  ASSUME PacketInv, ForgeInv, pc = "read", calling = TRUE, IsBundle,
         NEW w, Copied(w, buf, stack, Depth(stack), Upto(TRUE, stack)),
         NEW event, event.is = "enter", event.timetag = Word(Current.from + 2)
  PROVE  Copied(WriteAgain(w, event), buf, stack, 2 * Len(stack) + 1, Current.from + 4)
<1> DEFINE p == Current.from
           n == Len(stack)
           timetag == Word(p + 2)
           m == 2 * n
           u == Open(w)
<1>1. /\ p \in Nat /\ p + 5 \in 1..Len(buf)
      /\ \A i \in 1..4 : buf[p + i] = (Words(2, Bundle) \o Words(2, timetag))[i]
  BY BundleWords
<1>2. /\ n \in Nat /\ Len(buf) \in Nat /\ Len(buf) < Room /\ DOMAIN stack = 1..n
      /\ \A k \in 1..n : stack[k].from \in Nat /\ 4 < stack[k].from
      /\ \A j, k \in 1..n : j < k => stack[j].from + 4 < stack[k].from
  BY FrameFacts
<1>3. WriteAgain(w, event) = push_bundle(u, timetag)
  BY DEF WriteAgain
<1>4. p + 4 < Room /\ p < Room
  <2> HIDE DEF p
  <2> QED BY <1>1, <1>2, RoomAssumption
<1>5. /\ Copied(u, buf, stack, m, p) /\ (IF n = 0 THEN p = 0 ELSE stack[n].from = p)
      /\ \A j \in 1..n : stack[j].from \in Nat /\ stack[j].from <= p
  <2>1. CASE stack = << >>
    <3>1. n = 0 /\ m = 0 /\ p = 0 /\ Depth(stack) = 0 /\ Upto(TRUE, stack) = 0
      BY <2>1 DEF Current, Depth, Upto
    <3>2. Copied(w, buf, stack, 0, 0)
      BY <3>1
    <3>3. w.refs = << >>
      BY <3>2 DEF Copied, Frames
    <3>4. u = w
      BY <3>3 DEF Open
    <3> HIDE DEF p, n, m, u
    <3> QED BY <3>1, <3>2, <3>4
  <2>2. CASE stack # << >>
    <3>1. n > 0 /\ n \in 1..n /\ stack[n].from = p
      BY <2>2, InnermostFacts
    <3>2. Copied(w, buf, stack, 2 * n - 1, p - 1) /\ p > 0
      BY <1>2, <2>2, <3>1 DEF Depth, Upto
    <3>3. u = push_item(w)
      <4>1. Len(w.refs) = 2 * n - 1
        BY <3>2 DEF Copied, Frames
      <4>2. w.refs # << >>
        <5>1. w.refs = << >> => Len(w.refs) = 0
          OBVIOUS
        <5> QED BY <3>1, <4>1, <5>1
      <4> QED BY <4>2 DEF Open
    <3>4. \A j \in 1..n : j < n => stack[j].from < p
      <4> SUFFICES ASSUME NEW j \in 1..n, j < n PROVE stack[j].from < p
        OBVIOUS
      <4>1. stack[j].from + 4 < stack[n].from /\ stack[j].from \in Nat
        BY <1>2, <3>1
      <4> HIDE DEF p
      <4> QED BY <1>1, <3>1, <4>1
    <3>5. Copied(push_item(w), buf, stack, 2 * n, p)
      <4> HIDE DEF p
      <4> QED BY <1>1, <1>2, <1>4, <3>1, <3>2, <3>4, CopiedItem
    <3>6. \A j \in 1..n : stack[j].from \in Nat /\ stack[j].from <= p
      <4> SUFFICES ASSUME NEW j \in 1..n PROVE stack[j].from \in Nat /\ stack[j].from <= p
        OBVIOUS
      <4>1. CASE j < n
        <5>1. stack[j].from < p /\ stack[j].from \in Nat
          BY <1>2, <3>4, <4>1
        <5> HIDE DEF p
        <5> QED BY <1>1, <5>1
      <4>2. CASE j = n
        <5>1. stack[j].from = p
          BY <3>1, <4>2
        <5> HIDE DEF p
        <5> QED BY <1>1, <5>1
      <4>0. \A a \in Nat : \A i \in 1..a : i < a \/ i = a
        OBVIOUS
      <4>3. j < n \/ j = n
        <5> HIDE DEF n
        <5> QED BY <1>2, <4>0
      <4> QED BY <4>1, <4>2, <4>3
    <3> HIDE DEF p, u
    <3> QED BY <3>1, <3>3, <3>5, <3>6
  <2> QED BY <2>1, <2>2
<1> HIDE DEF p, u, timetag
<1>6. n \in Nat /\ n <= Len(stack) /\ Len(stack) \in Nat
  BY <1>2
<1>7. Copied(u, buf, stack, 2 * n, p)
  BY <1>5
<1>8. Copied(push_bundle(u, timetag), buf, stack, 2 * n + 1, p + 4)
  BY <1>1, <1>4, <1>5, <1>6, <1>7, CopiedBundle
<1> QED BY <1>3, <1>8 DEF p

LEMMA EnterForge ==
  ASSUME PacketInv, ReadInv, ForgeInv, EnterBundle
  PROVE  ForgeInv'
<1> DEFINE p == Current.from
           n == Len(stack)
           size == Word(p + 4)
           event == [is |-> "enter", timetag |-> Word(p + 2)]
           frame == [from |-> p + 4 + 1, size |-> size, to |-> Current.to,
                     timetag |-> Word(p + 2)]
<1>1. /\ pc = "read" /\ calling /\ IsBundle /\ pc' = "read" /\ calling' = calling
      /\ UNCHANGED <<writer, consumer, end, written, items>>
      /\ stack' = Append(stack, frame) /\ events' = Append(events, event)
  BY DEF EnterBundle, Reads
<1>2. calling = TRUE
  BY <1>1 DEF PacketInv, TypeOK
<1>3. /\ p \in Nat /\ buf[p + 5] = [of |-> size, part |-> 1]
  BY <1>1, BundleWords
<1>4. /\ n \in Nat /\ (stack = << >> <=> n = 0)
      /\ \A k \in 1..n : FrameAt(buf, stack, k)
  BY <1>1, StackFacts, FrameFacts
<1>5. /\ Len(stack') = n + 1 /\ stack'[n + 1] = frame /\ \A k \in 1..n : stack'[k] = stack[k]
      /\ stack' # << >>
  <2>1. PICK V : stack \in Seq(FrameOf(V))
    BY <1>1, StackFacts DEF Stacked
  <2> DEFINE T == FrameOf(V) \cup {frame}
  <2>2. frame \in T /\ FrameOf(V) \subseteq T
    OBVIOUS
  <2> HIDE DEF T, frame
  <2>3. stack \in Seq(T)
    BY <2>1, <2>2, WiderSeq
  <2>4. /\ stack' \in Seq(T) /\ Len(stack') = n + 1 /\ stack'[n + 1] = frame
        /\ \A k \in 1..n : stack'[k] = stack[k]
    BY <1>1, <2>2, <2>3, AppendFacts
  <2> QED BY <1>4, <2>4
<1>6. frame.from = p + 5 /\ frame.size = size
  BY <1>3
<1>7. p = IF n = 0 THEN 0 ELSE stack[n].from
  <2>1. CASE stack = << >>
    BY <1>4, <2>1 DEF Current
  <2>2. CASE stack # << >>
    BY <1>1, <1>4, <2>2, InnermostFacts
  <2> QED BY <2>1, <2>2
<1> HIDE DEF p, size, frame
<1>8. \A k \in 1..Len(stack') : FrameAt(buf, stack', k)
  <2> SUFFICES ASSUME NEW k \in 1..(n + 1) PROVE FrameAt(buf, stack', k)
    BY <1>5
  <2>1. CASE k = n + 1
    <3>1. (IF k = 1 THEN 0 ELSE stack'[k - 1].from) = p
      <4>1. CASE n = 0
        BY <1>7, <2>1, <4>1
      <4>2. CASE n # 0
        <5>1. k # 1 /\ k - 1 = n /\ n \in 1..n
          BY <1>4, <2>1, <4>2
        <5> QED BY <1>5, <1>7, <4>2, <5>1
      <4> QED BY <4>1, <4>2
    <3>2. p + 4 < p + 5
      BY <1>3
    <3>3. stack'[k].from = p + 5 /\ stack'[k].size = size
      BY <1>5, <1>6, <2>1
    <3> QED BY <1>3, <3>1, <3>2, <3>3 DEF FrameAt
  <2>2. CASE k # n + 1
    <3>1. k \in 1..n /\ (k # 1 => k - 1 \in 1..n)
      BY <1>4, <2>2
    <3>2. FrameAt(buf, stack, k)
      BY <1>4, <3>1
    <3> QED BY <1>5, <3>1, <3>2 DEF FrameAt
  <2> QED BY <2>1, <2>2
<1>9. ASSUME consumer = "forge"
      PROVE  Copied(Rewrite', buf, stack', Depth(stack'), Upto(calling', stack'))
  <2>1. Copied(Rewrite, buf, stack, Depth(stack), Upto(TRUE, stack))
    BY <1>1, <1>2, <1>9 DEF ForgeInv, Underway
  <2>2. Rewrite' = WriteAgain(Rewrite, event)
    <3>1. PICK V : events \in Seq(V)
      BY DEF ReadInv
    <3>2. \E d \in {event} : events' = Append(events, d)
      BY <1>1
    <3> HIDE DEF event
    <3> QED BY <3>1, <3>2, RewriteStep
  <2>3. Copied(Rewrite', buf, stack, 2 * n + 1, p + 4)
    <3>1. event.is = "enter" /\ event.timetag = Word(Current.from + 2)
      BY DEF p
    <3> HIDE DEF event
    <3>2. Copied(WriteAgain(Rewrite, event), buf, stack, 2 * Len(stack) + 1, Current.from + 4)
      BY <1>1, <1>2, <2>1, <3>1, EnterCopied
    <3> QED BY <2>2, <3>2 DEF p
  <2> HIDE DEF n
  <2>4. \A k \in Nat : 2 * k <= 2 * n + 1 /\ k # 0 => k \in 1..n /\ k <= n + 1
    BY <1>4
  <2>5. Copied(Rewrite', buf, stack', 2 * n + 1, p + 4)
    <3>1. 2 * n + 1 \in Nat /\ Len(stack) = n /\ n + 1 \in Nat
      BY <1>4 DEF n
    <3>2. \A k \in Nat : 2 * k <= 2 * n + 1 /\ k # 0 =>
             k <= Len(stack) /\ k <= Len(stack') /\ stack'[k].from = stack[k].from
      BY <1>5, <2>4, <3>1
    <3> QED BY <1>4, <1>5, <2>3, <3>1, <3>2, CopiedMoved
  <2>6. Depth(stack') = 2 * n + 1
    <3>1. 2 * (n + 1) - 1 = 2 * n + 1
      BY <1>4
    <3> QED BY <1>5, <3>1 DEF Depth
  <2>7. Upto(calling', stack') = p + 4
    <3>1. Upto(calling', stack') = stack'[n + 1].from - 1
      BY <1>1, <1>2, <1>5 DEF Upto
    <3> QED BY <1>3, <1>5, <1>6, <3>1
  <2> QED BY <2>5, <2>6, <2>7
<1> QED BY <1>1, <1>5, <1>8, <1>9, ForgeGoesOn

LEMMA NextForge ==
  ASSUME PacketInv, ForgeInv, NextItem
  PROVE  ForgeInv'
<1> DEFINE n == Len(stack)
           q == Behind
           size == Word(q)
<1>1. /\ pc = "read" /\ stack # << >> /\ ~calling
      /\ stack' = [stack EXCEPT ![n].from = q + 1, ![n].size = size]
      /\ calling' = TRUE /\ pc' = "read" /\ events' = events
      /\ UNCHANGED <<writer, consumer, end, written, items>>
  BY DEF NextItem, Iterates
<1>2. calling = FALSE
  BY <1>1 DEF PacketInv, TypeOK
<1>3. /\ n \in Nat /\ n > 0 /\ n \in 1..n /\ q = stack[n].from + stack[n].size
      /\ stack[n].from \in Nat /\ stack[n].size \in Nat
  BY <1>1, InnermostFacts
<1>4. \A k \in 1..n : FrameAt(buf, stack, k)
  BY <1>1, FrameFacts
<1>5. buf[q + 1] = [of |-> size, part |-> 1] /\ size \in Nat
  BY NextWord
<1>6. /\ Len(stack') = n /\ stack'[n].from = q + 1 /\ stack'[n].size = size
      /\ \A k \in 1..n : k # n => stack'[k] = stack[k]
  <2>1. stack' = Moved(stack, n, q + 1, size)
    BY <1>1 DEF Moved
  <2>2. PICK V : stack \in Seq(FrameOf(V))
    BY <1>1, StackFacts DEF Stacked
  <2>3. q + 1 \in Nat /\ n = Len(stack)
    BY <1>3
  <2> HIDE DEF n, q, size
  <2> QED BY <1>3, <1>5, <2>1, <2>2, <2>3, MovedFacts
<1>7. stack' # << >>
  <2>1. stack' = << >> => Len(stack') = 0
    OBVIOUS
  <2> QED BY <1>3, <1>6, <2>1
<1>8. q + 1 \in Nat /\ stack[n].from < q + 1
  BY <1>3
<1> HIDE DEF q, size
<1>9. \A k \in 1..Len(stack') : FrameAt(buf, stack', k)
  <2> SUFFICES ASSUME NEW k \in 1..n PROVE FrameAt(buf, stack', k)
    BY <1>6
  <2>1. k # 1 => k - 1 \in 1..n /\ k - 1 # n
    BY <1>3
  <2>2. FrameAt(buf, stack, k)
    BY <1>4
  <2>3. CASE k = n
    <3> DEFINE a == IF k = 1 THEN 0 ELSE stack[k - 1].from
    <3>1. a + 4 < stack[n].from
      BY <2>2, <2>3 DEF FrameAt
    <3>2. a \in Nat
      <4>1. k # 1 => stack[k - 1].from \in Nat
        BY <1>1, <2>1, StackFacts
      <4> QED BY <4>1
    <3>3. a = IF k = 1 THEN 0 ELSE stack'[k - 1].from
      BY <1>6, <2>1
    <3> HIDE DEF a
    <3>4. a + 4 < q + 1
      BY <1>3, <1>8, <3>1, <3>2
    <3> QED BY <1>5, <1>6, <2>3, <3>3, <3>4 DEF FrameAt
  <2>4. CASE k # n
    BY <1>6, <2>1, <2>2, <2>4 DEF FrameAt
  <2> QED BY <2>3, <2>4
<1>10. ASSUME consumer = "forge"
       PROVE  Copied(Rewrite', buf, stack', Depth(stack'), Upto(calling', stack'))
  <2>1. Copied(Rewrite, buf, stack, Depth(stack), Upto(FALSE, stack))
    BY <1>1, <1>2, <1>10 DEF ForgeInv, Underway
  <2>2. Rewrite' = Rewrite
    BY <1>1 DEF Rewrite
  <2>3. Depth(stack) = 2 * n - 1 /\ Depth(stack') = 2 * n - 1
    BY <1>1, <1>6, <1>7 DEF Depth
  <2>4. Upto(FALSE, stack) = q /\ Upto(TRUE, stack') = q
    <3>1. Upto(FALSE, stack) = q
      BY <1>1, <1>3 DEF Upto
    <3>2. Upto(TRUE, stack') = stack'[Len(stack')].from - 1
      BY <1>7 DEF Upto
    <3>3. stack'[Len(stack')].from = q + 1
      BY <1>6
    <3>4. q \in Nat
      BY <1>3 DEF q
    <3> DEFINE f == stack'[Len(stack')].from
    <3>5. f - 1 = q
      <4>1. f = q + 1
        BY <3>3
      <4> HIDE DEF f
      <4> QED BY <3>4, <4>1
    <3> HIDE DEF f
    <3> QED BY <3>1, <3>2, <3>5 DEF f
  <2>5. \A k \in Nat : 2 * k <= 2 * n - 1 /\ k # 0 => k \in 1..n /\ k # n
    <3> HIDE DEF n
    <3> QED BY <1>3
  <2>6. 2 * n - 1 \in Nat
    <3> HIDE DEF n
    <3> QED BY <1>3
  <2>7. Copied(Rewrite, buf, stack, 2 * n - 1, q)
    BY <2>1, <2>3, <2>4
  <2>8. \A k \in Nat : 2 * k <= 2 * n - 1 /\ k # 0 =>
          k <= Len(stack) /\ k <= Len(stack') /\ stack'[k].from = stack[k].from
    BY <1>6, <2>5
  <2>9. Copied(Rewrite, buf, stack', 2 * n - 1, q)
    BY <1>3, <1>6, <2>6, <2>7, <2>8, CopiedMoved
  <2> QED BY <1>1, <2>2, <2>3, <2>4, <2>9
<1> QED BY <1>1, <1>7, <1>9, <1>10, ForgeGoesOn

(* The packet that is handed on, if it is whole, is what is written again. *)
LEMMA WholeHandled ==
  ASSUME PacketInv, pc = "read", IsMessage, stack # << >> \/ end = Len(buf),
         ReadMessage(Current.from, Current.to).valid
  PROVE  LET r == ReadMessage(Current.from, Current.to)
             words == String(r.path) \o Format(r.args)
                        \o FlattenSeq([k \in DOMAIN r.args |-> r.args[k].words])
             size == Current.to - Current.from
         IN  /\ Current.from \in Nat /\ Current.to \in Nat /\ Current.from < Current.to
             /\ IsWords(words) /\ Len(words) = size
             /\ \A i \in 1..size : buf[Current.from + i] = words[i]
<1> DEFINE p == Current.from
           to == Current.to
<1>1. PICK j \in 1..Len(written) :
           LET m == written[j].message
               e == p + Len(MessageWords(m))
           IN  /\ p \in Nat /\ e \in Nat /\ to \in Nat /\ p < to
               /\ written[j].at = p /\ written[j].timetag = Current.timetag
               /\ m \in Messages /\ IsAt(m, p) /\ e <= Len(buf) /\ IsWords(buf)
               /\ NoneIn(Begun(written), p + 1, e) /\ to <= e
               /\ stack # << >> => to = e
  BY CurrentMessage
<1> DEFINE m == written[j].message
           z == Len(MessageWords(m))
           K == Before(m, p, to)
           r == ReadMessage(p, to)
<1>2. /\ p \in Nat /\ p + z \in Nat /\ to \in Nat /\ p < to /\ m \in Messages /\ IsAt(m, p)
      /\ p + z <= Len(buf) /\ IsWords(buf) /\ to <= p + z /\ (stack # << >> => to = p + z)
  BY <1>1
<1>3. z \in Nat /\ IsWords(MessageWords(m))
  BY <1>2, MessageFacts, LengthOfWords
<1>4. to = p + z
  <2>1. CASE stack = << >>
    <3>1. to = Len(buf)
      BY <2>1 DEF Current
    <3> HIDE DEF p, to, z
    <3> QED BY <1>2, <3>1
  <2> QED BY <1>2, <2>1
<1>5. r.valid => r.path = m.path /\ r.args = GivenArgs(m, Most(K))
  <2> HIDE DEF p, to, m
  <2> QED BY <1>2, ReadsMessage
<1>6. Most(K) = Len(m.args)
  <2>1. Most(Before(m, p, p + z)) = Len(m.args)
    <3> HIDE DEF p, m
    <3> QED BY <1>2, WholeMessage
  <2> HIDE DEF p, to, m, z
  <2> QED BY <1>4, <2>1
<1> DEFINE words == String(r.path) \o Format(r.args)
                      \o FlattenSeq([k \in DOMAIN r.args |-> r.args[k].words])
<1>7. words = MessageWords(m)
  <2> DEFINE args == r.args
  <2>1. r.path = m.path /\ args = GivenArgs(m, Len(m.args))
    <3> HIDE DEF r, K, m
    <3> QED BY <1>5, <1>6 DEF r
  <2> HIDE DEF args, m
  <2>2. String(m.path) \o Format(args) \o FlattenSeq([k \in DOMAIN args |-> args[k].words])
          = MessageWords(m)
    BY <1>2, <2>1, EventWords
  <2> HIDE DEF r
  <2> QED BY <2>1, <2>2 DEF args
<1>8. \A i \in 1..z : buf[p + i] = MessageWords(m)[i]
  BY <1>2 DEF IsAt
<1> HIDE DEF words
<1>9. IsWords(words) /\ Len(words) = z /\ \A i \in 1..z : buf[p + i] = words[i]
  <2> HIDE DEF p
  <2> QED BY <1>3, <1>7, <1>8
<1>10. z = to - p
  <2> HIDE DEF p, to, z
  <2> QED BY <1>2, <1>3, <1>4
<1> HIDE DEF p, to, z, r
<1>11. /\ p \in Nat /\ to \in Nat /\ p < to /\ IsWords(words) /\ Len(words) = to - p
       /\ \A i \in 1..(to - p) : buf[p + i] = words[i]
  BY <1>2, <1>9, <1>10
<1> QED BY <1>11 DEF p, to, r, words

(* When nothing is open any more, what was written is what is to be copied.*)
LEMMA CopiedAll ==
  ASSUME NEW w, NEW b, NEW s, NEW n \in Nat, IsWords(b), n <= Len(b), Len(s) \in Nat,
         Copied(w, b, s, 0, n)
  PROVE  w.ok = TRUE /\ w.buf = SubSeq(b, 1, n) /\ w.refs = << >>
<1>1. /\ w.ok = TRUE /\ IsWords(w.buf) /\ Len(w.buf) = n /\ Len(w.refs) = 0
      /\ w.refs \in Seq(Nat)
      /\ \A i \in 1..n : w.buf[i] = IF Awaits(s, 0, i) THEN NoSize ELSE b[i]
  BY DEF Copied, Holds, Frames
<1>2. \A i : ~Awaits(s, 0, i)
  <2>1. \A j \in 1..Len(s) : ~(2 * j <= 0)
    OBVIOUS
  <2> QED BY <2>1 DEF Awaits
<1>3. /\ IsWords(SubSeq(b, 1, n)) /\ Len(SubSeq(b, 1, n)) = n
      /\ \A i \in 1..n : SubSeq(b, 1, n)[i] = b[i]
  BY WordsCut
<1> DEFINE u == w.buf
           v == SubSeq(b, 1, n)
<1>4. u = v
  <2>1. PICK U : u \in Seq(WordsOf(U))
    BY <1>1 DEF IsWords
  <2>2. PICK V : v \in Seq(WordsOf(V))
    BY <1>3 DEF IsWords
  <2>3. Len(u) = n /\ Len(v) = n /\ \A i \in 1..n : u[i] = v[i]
    BY <1>1, <1>2, <1>3
  <2> DEFINE W == WordsOf(U)
             X == WordsOf(V)
  <2>4. u \in Seq(W) /\ v \in Seq(X)
    BY <2>1, <2>2
  <2> HIDE DEF u, v, W, X
  <2> QED BY <2>3, <2>4, SameSeq
<1>5. w.refs = << >>
  BY <1>1
<1> QED BY <1>1, <1>4, <1>5

LEMMA RewrittenNext ==
  ASSUME UNCHANGED <<writer, end, items>>, Rewrite'.ok = TRUE,
         Rewrite'.buf = SubSeq(buf, 1, IF Bundled THEN Most(Complete) ELSE end)
  PROVE  Rewritten'
<1>1. buf' = buf /\ end' = end /\ (Bundled' <=> Bundled) /\ Complete' = Complete
  BY DEF buf, Bundled, Word, Complete
<1> QED BY <1>1 DEF Rewritten

(* A message, on its own or in an item, is written again.                  *)
LEMMA HandleCopied ==
  ASSUME PacketInv, ForgeInv, pc = "read", calling = TRUE, IsMessage,
         stack # << >> \/ end = Len(buf),
         NEW w, Copied(w, buf, stack, Depth(stack), Upto(TRUE, stack)),
         NEW r, r = ReadMessage(Current.from, Current.to), r.valid,
         NEW event, event.is = "message", event.path = r.path, event.args = r.args
  PROVE  Copied(WriteAgain(w, event), buf, stack, Depth(stack), Current.to)
<1> DEFINE p == Current.from
           to == Current.to
           n == Len(stack)
           words == String(r.path) \o Format(r.args)
                      \o FlattenSeq([k \in DOMAIN r.args |-> r.args[k].words])
           size == to - p
<1>1. /\ p \in Nat /\ to \in Nat /\ p < to /\ IsWords(words) /\ Len(words) = size
      /\ \A i \in 1..size : buf[p + i] = words[i]
  BY WholeHandled
<1>2. /\ n \in Nat /\ Len(buf) \in Nat /\ Len(buf) < Room /\ DOMAIN stack = 1..n
      /\ \A k \in 1..n : /\ stack[k].from \in Nat /\ 4 < stack[k].from /\ stack[k].size \in Nat
                         /\ stack[k].from + stack[k].size <= Len(buf)
                         /\ FrameAt(buf, stack, k)
      /\ \A j, k \in 1..n : j < k => stack[j].from + 4 < stack[k].from
  BY FrameFacts
<1>3. WriteAgain(w, event) = Close(Add(Open(w), words))
  <2>1. WriteAgain(w, event) =
          Close(Add(Open(w), String(event.path) \o Format(event.args)
                               \o FlattenSeq([k \in DOMAIN event.args |-> event.args[k].words])))
    BY DEF WriteAgain
  <2> QED BY <2>1
<1>4. size \in Nat /\ size > 0 /\ p + size = to
  <2> HIDE DEF p, to
  <2> QED BY <1>1
<1> HIDE DEF words, size
<1>5. CASE stack = << >>
  <2>1. n = 0 /\ p = 0 /\ to = end /\ Depth(stack) = 0 /\ Upto(TRUE, stack) = 0
    BY <1>5 DEF Current, Depth, Upto
  <2>2. Copied(w, buf, stack, 0, 0)
    BY <2>1
  <2>3. w.refs = << >>
    BY <2>2 DEF Copied, Frames
  <2>4. Open(w) = w
    BY <2>3 DEF Open
  <2>5. end = Len(buf) /\ to = Len(buf)
    BY <1>5, <2>1
  <2>6. 0 + Len(words) = to /\ 0 + Len(words) < Room
    <3> HIDE DEF p, to
    <3> QED BY <1>1, <1>2, <1>4, <2>1, <2>5
  <2>7. \A i \in 1..Len(words) : ~Awaits(stack, 0, 0 + i)
    <3>1. \A j \in 1..Len(stack) : FALSE
      BY <2>1
    <3> QED BY <3>1 DEF Awaits
  <2>8. \A i \in 1..Len(words) : words[i] = buf[0 + i]
    <3> HIDE DEF p
    <3> QED BY <1>1, <2>1
  <2> HIDE DEF to
  <2>9. Copied(Add(w, words), buf, stack, 0, to)
    <3>1. Copied(Add(w, words), buf, stack, 0, 0 + Len(words))
      BY <1>1, <2>2, <2>6, <2>7, <2>8, CopiedAdd
    <3> QED BY <2>6, <3>1
  <2>10. Close(Add(w, words)) = Add(w, words)
    <3>1. Add(w, words).refs = << >>
      BY <2>9 DEF Copied, Frames
    <3> QED BY <3>1 DEF Close
  <2> QED BY <1>3, <2>1, <2>4, <2>9, <2>10 DEF to
<1>6. CASE stack # << >>
  <2>1. n > 0 /\ n \in 1..n /\ stack[n].from = p /\ to = stack[n].from + stack[n].size
    BY <1>6, InnermostFacts
  <2>2. Copied(w, buf, stack, 2 * n - 1, p - 1) /\ p > 0
    BY <1>2, <1>6, <2>1 DEF Depth, Upto
  <2>3. Open(w) = push_item(w)
    <3>1. Len(w.refs) = 2 * n - 1
      BY <2>2 DEF Copied, Frames
    <3>2. w.refs = << >> => Len(w.refs) = 0
      OBVIOUS
    <3>3. w.refs # << >>
      <4> HIDE DEF n
      <4> QED BY <1>2, <2>1, <3>1, <3>2
    <3> QED BY <3>3 DEF Open
  <2>4. size = stack[n].size /\ to < Room
    <3>1. stack[n].from \in Nat /\ stack[n].size \in Nat /\ to <= Len(buf)
      BY <1>2, <2>1
    <3> DEFINE z == stack[n].size
    <3>2. to = p + z /\ z \in Nat
      BY <2>1, <3>1
    <3> HIDE DEF p, to, z
    <3>3. size = z /\ to < Room
      BY <1>1, <1>2, <1>4, <3>1, <3>2, RoomAssumption
    <3> QED BY <3>3 DEF z
  <2>5. \A j \in 1..n : j < n => stack[j].from \in Nat /\ stack[j].from < p
    <3> SUFFICES ASSUME NEW j \in 1..n, j < n PROVE stack[j].from \in Nat /\ stack[j].from < p
      OBVIOUS
    <3>1. stack[j].from + 4 < stack[n].from /\ stack[j].from \in Nat
      BY <1>2, <2>1
    <3> HIDE DEF p
    <3> QED BY <1>1, <2>1, <3>1
  <2>6. buf[p] = [of |-> size, part |-> 1]
    BY <1>2, <2>1, <2>4 DEF FrameAt
  <2>7. Copied(Close(Add(push_item(w), words)), buf, stack, 2 * n - 1, p + size)
    <3> HIDE DEF p, to
    <3>1. p + size < Room
      BY <1>4, <2>4
    <3> QED BY <1>1, <1>2, <1>4, <2>1, <2>2, <2>5, <2>6, <3>1, CopiedMessage
  <2>8. Depth(stack) = 2 * n - 1
    BY <1>6 DEF Depth
  <2> HIDE DEF p, to
  <2>9. Copied(Close(Add(push_item(w), words)), buf, stack, Depth(stack), to)
    BY <1>4, <2>7, <2>8
  <2> QED BY <1>3, <2>3, <2>9 DEF to
<1> QED BY <1>5, <1>6

LEMMA HandleForge ==
  ASSUME PacketInv, ReadInv, ForgeInv, HandleMessage
  PROVE  ForgeInv'
<1> DEFINE r == ReadMessage(Current.from, Current.to)
           event == [is |-> "message", timetag |-> Current.timetag,
                     path |-> r.path, args |-> r.args]
<1>1. /\ pc = "read" /\ calling /\ IsMessage /\ r.valid /\ pc' = "read" /\ calling' = FALSE
      /\ UNCHANGED <<writer, consumer, end, written, items>>
      /\ stack' = stack /\ events' = Append(events, event)
  BY DEF HandleMessage, Reads
<1>2. calling = TRUE
  BY <1>1 DEF PacketInv, TypeOK
<1>3. Rewrite' = WriteAgain(Rewrite, event)
  <2>1. PICK V : events \in Seq(V)
    BY DEF ReadInv
  <2>2. \E d \in {event} : events' = Append(events, d)
    BY <1>1
  <2> HIDE DEF event
  <2> QED BY <2>1, <2>2, RewriteStep
<1>4. event.is = "message" /\ event.path = r.path /\ event.args = r.args
  OBVIOUS
<1> HIDE DEF event
<1>5. ASSUME consumer = "forge", stack # << >> \/ end = Len(buf)
      PROVE  Copied(Rewrite', buf, stack, Depth(stack), Current.to)
  <2>1. Copied(Rewrite, buf, stack, Depth(stack), Upto(TRUE, stack))
    BY <1>1, <1>2, <1>5 DEF ForgeInv, Underway
  <2>2. r = ReadMessage(Current.from, Current.to)
    OBVIOUS
  <2> HIDE DEF r
  <2> QED BY <1>1, <1>2, <1>3, <1>4, <1>5, <2>1, <2>2, HandleCopied
<1> HIDE DEF r
<1>6. CASE stack = << >>
  <2>1. Current.from = 0 /\ Current.to = end /\ Depth(stack) = 0
    BY <1>6 DEF Current, Depth
  <2>2. ~Bundled
    BY <1>1, <2>1 DEF IsMessage, Bundled
  <2>3. ASSUME consumer = "forge" PROVE Rewritten'
    <3>1. CASE end = Len(buf)
      <4>1. Copied(Rewrite', buf, stack, 0, end)
        BY <1>5, <2>1, <2>3, <3>1
      <4>2. Rewrite'.ok = TRUE /\ Rewrite'.buf = SubSeq(buf, 1, end)
        BY <1>1, <4>1, CopiedAll, StackFacts
      <4> QED BY <1>1, <2>2, <4>2, RewrittenNext
    <3>2. CASE end # Len(buf)
      <4>1. buf' = buf /\ end' = end /\ ~Bundled'
        BY <1>1, <2>2 DEF buf, Bundled, Word
      <4> QED BY <3>2, <4>1 DEF Rewritten
    <3> QED BY <3>1, <3>2
  <2> QED BY <1>1, <1>6, <2>3, ForgeFinishes
<1>7. CASE stack # << >>
  <2>1. \A k \in 1..Len(stack) : FrameAt(buf, stack, k)
    BY <1>1, FrameFacts
  <2>2. Upto(FALSE, stack) = Current.to
    <3>1. Upto(FALSE, stack) = stack[Len(stack)].from + stack[Len(stack)].size
      BY <1>7 DEF Upto
    <3> QED BY <1>1, <1>7, <3>1, InnermostFacts
  <2>3. consumer = "forge" => Copied(Rewrite', buf, stack, Depth(stack), Upto(FALSE, stack))
    BY <1>5, <1>7, <2>2
  <2> QED BY <1>1, <1>7, <2>1, <2>3, ForgeGoesOn
<1> QED BY <1>6, <1>7

(* What is not read is not forged either.                                  *)
LEMMA RefusedForge ==
  ASSUME PacketInv, ReadInv, ForgeInv, SkipBundle \/ NullMessage \/ NothingThere
  PROVE  ForgeInv'
<1>1. /\ pc = "read" /\ stack' = stack /\ UNCHANGED <<writer, consumer, end, written, items>>
      /\ GoesOnOrRefuses \/ pc' \in {"crashed", "refused"}
      /\ consumer # "app" => pc' = "refused"
  BY DEF SkipBundle, NullMessage, NothingThere, Reads, GoesOnOrRefuses
<1>2. buf' = buf /\ \A k \in 1..Len(stack) : FrameAt(buf, stack, k)
  BY <1>1, FrameFacts DEF buf
<1>3. consumer' = "forge" => pc' = "refused"
  BY <1>1
<1> QED BY <1>1, <1>2, <1>3 DEF ForgeInv, Underway

(* What is written again when a bundle is left: its frame and, unless it   *)
(* is the outermost, that of the item around it are closed.                *)
LEMMA LeaveCopied ==
  ASSUME PacketInv, ReadInv, ForgeInv, Leave,
         NEW w, Copied(w, buf, stack, Depth(stack), Upto(FALSE, stack)),
         NEW event, event.is = "leave"
  PROVE  Copied(WriteAgain(w, event), buf, stack,
                IF Len(stack) = 1 THEN 0 ELSE 2 * (Len(stack) - 1) - 1, Behind)
<1> DEFINE n == Len(stack)
           k == n - 1
           q == stack[n].from + stack[n].size
           v == pop_bundle(w)
<1>1. pc = "read" /\ stack # << >>
  BY DEF Leave, Iterates
<1>2. /\ n \in Nat /\ n > 0 /\ n \in 1..n /\ q \in Nat /\ Behind = q
      /\ n # 1 => q = stack[n - 1].from + stack[n - 1].size
  BY LeftAt
<1>3. /\ Len(buf) \in Nat /\ DOMAIN stack = 1..n
      /\ \A j \in 1..n : /\ stack[j].from \in Nat /\ 4 < stack[j].from /\ stack[j].size \in Nat
                         /\ stack[j].size > 0 /\ FrameAt(buf, stack, j)
      /\ \A i, j \in 1..n : i < j => stack[i].from + 4 < stack[j].from
  BY <1>1, FrameFacts
<1>4. k \in Nat /\ 2 * n - 1 = 2 * k + 1 /\ k <= n /\ (n = 1 <=> k = 0)
      /\ (k # 0 => k \in 1..n /\ k < n)
  <2> HIDE DEF n
  <2> QED BY <1>2
<1>5. Copied(w, buf, stack, 2 * k + 1, q)
  <2>1. Depth(stack) = 2 * n - 1 /\ Upto(FALSE, stack) = q
    BY <1>1 DEF Depth, Upto
  <2> HIDE DEF n, k, q
  <2> QED BY <1>4, <2>1 DEF n
<1>6. stack[n].from < q /\ stack[n].from \in Nat /\ 4 < stack[n].from
  <2>1. stack[n].from \in Nat /\ stack[n].size \in Nat /\ stack[n].size > 0 /\ 4 < stack[n].from
    BY <1>2, <1>3
  <2> QED BY <2>1
<1>7. IF k = 0 THEN 4 < q ELSE stack[k].from \in Nat /\ stack[k].from + 4 < q
  <2> DEFINE f == stack[n].from
             g == stack[k].from
  <2>1. k # 0 => g \in Nat /\ g + 4 < f
    <3> HIDE DEF k
    <3> QED BY <1>2, <1>3, <1>4
  <2>2. f < q /\ f \in Nat /\ 4 < f
    BY <1>6
  <2> HIDE DEF f, g, k, q
  <2>3. k # 0 => g + 4 < q
    BY <1>2, <2>1, <2>2
  <2>4. 4 < q
    BY <1>2, <2>2
  <2> QED BY <2>1, <2>3, <2>4 DEF g
<1> HIDE DEF k, q
<1>8. Copied(v, buf, stack, 2 * k, q)
  BY <1>2, <1>3, <1>4, <1>5, <1>7, CopiedPopBundle
<1>9. WriteAgain(w, event) = Close(v)
  BY DEF WriteAgain
<1>10. Len(v.refs) = 2 * k
  BY <1>8 DEF Copied, Frames
<1> HIDE DEF v
<1>11. CASE n = 1
  <2>1. k = 0
    BY <1>4, <1>11
  <2>2. v.refs = << >>
    BY <1>8, <2>1 DEF Copied, Frames
  <2>3. Close(v) = v /\ 2 * k = 0
    BY <2>1, <2>2 DEF Close
  <2> QED BY <1>2, <1>8, <1>9, <1>11, <2>3
<1>12. CASE n # 1
  <2>1. k # 0 /\ k \in 1..n /\ k < n
    BY <1>4, <1>12
  <2>2. Close(v) = pop_item(v)
    <3>1. v.refs = << >> => Len(v.refs) = 0
      OBVIOUS
    <3>2. v.refs # << >>
      BY <1>4, <1>10, <2>1, <3>1
    <3> QED BY <3>2 DEF Close
  <2>3. /\ stack[k].from \in Nat /\ 0 < stack[k].from /\ stack[k].from < q
        /\ q - stack[k].from = stack[k].size
    <3> DEFINE f == stack[k].from
               z == stack[k].size
    <3>1. f \in Nat /\ 4 < f /\ z \in Nat /\ z > 0
      BY <1>3, <2>1
    <3>2. q = f + z
      BY <1>2, <1>12 DEF k
    <3> HIDE DEF f, z
    <3>3. 0 < f /\ f < q /\ q - f = z
      BY <3>1, <3>2
    <3> QED BY <3>1, <3>3 DEF f, z
  <2>4. buf[stack[k].from] = [of |-> q - stack[k].from, part |-> 1]
    <3>1. FrameAt(buf, stack, k)
      BY <1>3, <2>1
    <3> QED BY <2>3, <3>1 DEF FrameAt
  <2>5. \A j \in 1..n : j < k => stack[j].from # stack[k].from
    <3> SUFFICES ASSUME NEW j \in 1..n, j < k PROVE stack[j].from # stack[k].from
      OBVIOUS
    <3>1. stack[j].from + 4 < stack[k].from /\ stack[j].from \in Nat
      BY <1>3, <2>1
    <3> QED BY <3>1
  <2>6. Copied(pop_item(v), buf, stack, 2 * k - 1, q)
    BY <1>2, <1>3, <1>8, <2>1, <2>3, <2>4, <2>5, CopiedPopItem
  <2>7. Copied(Close(v), buf, stack, 2 * (n - 1) - 1, q)
    BY <2>2, <2>6 DEF k
  <2> HIDE DEF n
  <2> QED BY <1>2, <1>9, <1>12, <2>7 DEF n
<1> QED BY <1>11, <1>12

(* The last item that arrived is the end of what is to be copied.          *)
LEMMA MostComplete ==
  ASSUME PacketInv, ReadInv, Leave, Len(stack) = 1
  PROVE  Most(Complete) = Behind /\ Behind \in Nat /\ Behind <= Len(buf)
<1>1. pc = "read" /\ Bundled /\ Behind \in Nat
  BY LeftAt DEF Leave, Iterates
<1>2. /\ buf # << >>
      /\ \E k \in 1..Len(items) :
           /\ Behind = items[k] /\ items[k] <= end
           /\ \A j \in 1..Len(items) : j > k => ~(items[j] <= end)
  BY LeftAt
<1>3. PICK k \in 1..Len(items) :
           /\ Behind = items[k] /\ items[k] <= end
           /\ \A j \in 1..Len(items) : j > k => ~(items[j] <= end)
  BY <1>2
<1>4. /\ Len(items) \in Nat /\ Len(buf) \in Nat
      /\ \A j \in 1..Len(items) : items[j] \in Nat /\ items[j] <= Len(buf)
      /\ \A i, j \in 1..Len(items) : i < j => items[i] < items[j]
  BY <1>1, <1>2, ItemsFollow
<1>5. Complete \in SUBSET (0..Len(buf)) /\ Complete # {}
  BY <1>4 DEF Complete
<1>6. Behind \in Complete
  BY <1>3 DEF Complete
<1>7. \A c \in Complete : c <= Behind
  <2>1. ASSUME NEW j \in 1..Len(items), items[j] <= end PROVE items[j] <= items[k]
    <3>1. ~(j > k)
      BY <1>3, <2>1
    <3>2. j = k \/ j < k
      BY <1>4, <3>1
    <3> QED BY <1>4, <3>2
  <2>2. 0 <= Behind
    BY <1>1
  <2> QED BY <1>3, <2>1, <2>2 DEF Complete
<1>8. Most(Complete) \in Complete /\ \A c \in Complete : c <= Most(Complete)
  BY <1>4, <1>5, MostFacts
<1> DEFINE m == Most(Complete)
<1>9. m \in Nat /\ m <= Behind /\ Behind <= m
  <2>1. m \in Complete /\ \A c \in Complete : c <= m
    BY <1>8
  <2> HIDE DEF m
  <2>2. m \in 0..Len(buf)
    BY <1>5, <2>1
  <2> QED BY <1>4, <1>6, <1>7, <2>1, <2>2
<1> HIDE DEF m
<1>10. m = Behind
  BY <1>1, <1>9
<1> QED BY <1>1, <1>3, <1>4, <1>10 DEF m

LEMMA LeaveForge ==
  ASSUME PacketInv, ReadInv, ForgeInv, Leave
  PROVE  ForgeInv'
<1> DEFINE n == Len(stack)
           event == [is |-> "leave"]
<1>1. /\ pc = "read" /\ stack # << >> /\ ~calling
      /\ stack' = Front(stack) /\ events' = Append(events, event)
      /\ calling' = calling /\ pc' = "read"
      /\ UNCHANGED <<writer, consumer, end, written, items>>
  BY DEF Leave, Iterates
<1>2. calling = FALSE
  BY <1>1 DEF PacketInv, TypeOK
<1>3. /\ n \in Nat /\ n > 0 /\ Behind \in Nat /\ Bundled
      /\ n # 1 => Behind = stack[n - 1].from + stack[n - 1].size
  BY LeftAt
<1>4. DOMAIN stack = 1..n /\ \A k \in 1..n : FrameAt(buf, stack, k)
  BY <1>1, FrameFacts
<1>5. /\ Len(stack') = n - 1 /\ \A k \in 1..(n - 1) : stack'[k] = stack[k]
      /\ (n = 1 => stack' = << >>) /\ (n # 1 => stack' # << >>)
  <2>1. PICK V : stack \in Seq(FrameOf(V))
    BY <1>1, StackFacts DEF Stacked
  <2> DEFINE F == FrameOf(V)
  <2>2. stack \in Seq(F)
    BY <2>1
  <2> HIDE DEF F
  <2>3. /\ stack' \in Seq(F) /\ Len(stack') = n - 1
        /\ \A k \in 1..(n - 1) : stack'[k] = stack[k]
    BY <1>1, <1>3, <2>2, FrontFacts
  <2>4. stack' = << >> <=> Len(stack') = 0
    BY <2>3
  <2> QED BY <1>3, <2>3, <2>4
<1>6. Rewrite' = WriteAgain(Rewrite, event)
  <2>1. PICK V : events \in Seq(V)
    BY DEF ReadInv
  <2>2. \E d \in {event} : events' = Append(events, d)
    BY <1>1
  <2> HIDE DEF event
  <2> QED BY <2>1, <2>2, RewriteStep
<1>7. event.is = "leave"
  OBVIOUS
<1> HIDE DEF event
<1>8. ASSUME consumer = "forge"
      PROVE  Copied(Rewrite', buf, stack, IF n = 1 THEN 0 ELSE 2 * (n - 1) - 1, Behind)
  <2>1. Copied(Rewrite, buf, stack, Depth(stack), Upto(FALSE, stack))
    BY <1>1, <1>2, <1>8 DEF ForgeInv, Underway
  <2> QED BY <1>6, <1>7, <2>1, LeaveCopied
<1>9. CASE n = 1
  <2>1. ASSUME consumer = "forge" PROVE Rewritten'
    <3>1. Copied(Rewrite', buf, stack, 0, Behind)
      BY <1>8, <1>9, <2>1
    <3>2. Most(Complete) = Behind /\ Behind <= Len(buf)
      BY <1>9, MostComplete
    <3>3. Rewrite'.ok = TRUE /\ Rewrite'.buf = SubSeq(buf, 1, Behind)
      BY <1>1, <1>3, <3>1, <3>2, CopiedAll, StackFacts
    <3> QED BY <1>1, <1>3, <3>2, <3>3, RewrittenNext
  <2> QED BY <1>1, <1>2, <1>5, <1>9, <2>1, ForgeFinishes
<1>10. CASE n # 1
  <2>1. n - 1 \in Nat /\ n - 1 \in 1..(n - 1) /\ \A k \in 1..(n - 1) : k \in 1..n
    <3> HIDE DEF n
    <3> QED BY <1>3, <1>10
  <2>2. \A k \in 1..Len(stack') : FrameAt(buf, stack', k)
    <3> SUFFICES ASSUME NEW k \in 1..(n - 1) PROVE FrameAt(buf, stack', k)
      BY <1>5
    <3>1. FrameAt(buf, stack, k)
      BY <1>4, <2>1
    <3>2. k # 1 => k - 1 \in 1..(n - 1)
      <4> HIDE DEF n
      <4> QED BY <2>1
    <3> QED BY <1>5, <3>1, <3>2 DEF FrameAt
  <2>3. ASSUME consumer = "forge"
        PROVE  Copied(Rewrite', buf, stack', Depth(stack'), Upto(calling', stack'))
    <3>1. Depth(stack') = 2 * (n - 1) - 1
      BY <1>5, <1>10 DEF Depth
    <3>2. Upto(calling', stack') = Behind
      <4>1. stack'[Len(stack')] = stack[n - 1]
        BY <1>5, <2>1
      <4> QED BY <1>1, <1>2, <1>3, <1>5, <1>10, <4>1 DEF Upto
    <3>3. Copied(Rewrite', buf, stack, 2 * (n - 1) - 1, Behind)
      BY <1>8, <1>10, <2>3
    <3>4. /\ 2 * (n - 1) - 1 \in Nat
          /\ \A k \in Nat : 2 * k <= 2 * (n - 1) - 1 /\ k # 0 =>
               k <= n /\ k <= n - 1 /\ k \in 1..(n - 1)
      <4> DEFINE l == n - 1
      <4>0. n \in Nat /\ n > 0 /\ n # 1 /\ l = n - 1
        BY <1>3, <1>10
      <4> HIDE DEF n
      <4>1. l \in Nat /\ l > 0 /\ n = l + 1
        BY <4>0
      <4> HIDE DEF l, n
      <4>2. /\ 2 * l - 1 \in Nat
            /\ \A k \in Nat : 2 * k <= 2 * l - 1 /\ k # 0 => k <= n /\ k <= l /\ k \in 1..l
        BY <4>1
      <4> QED BY <4>2 DEF l
    <3>5. \A k \in Nat : 2 * k <= 2 * (n - 1) - 1 /\ k # 0 =>
            k <= Len(stack) /\ k <= Len(stack') /\ stack'[k].from = stack[k].from
      BY <1>5, <3>4
    <3>6. Len(stack') \in Nat
      BY <1>5, <2>1
    <3>7. Copied(Rewrite', buf, stack', 2 * (n - 1) - 1, Behind)
      BY <1>3, <3>3, <3>4, <3>5, <3>6, CopiedMoved
    <3> QED BY <3>1, <3>2, <3>7
  <2> QED BY <1>1, <1>5, <1>10, <2>2, <2>3, ForgeGoesOn
<1> QED BY <1>9, <1>10

LEMMA DoneForge ==
  ASSUME PacketInv, ForgeInv, Done
  PROVE  ForgeInv'
<1>1. /\ pc = "read" /\ ~calling /\ stack = << >> /\ pc' = "done" /\ stack' = stack
      /\ UNCHANGED <<writer, consumer, end, written, items, events>>
  BY DEF Done
<1>2. consumer = "forge" => Rewritten
  BY <1>1 DEF ForgeInv
<1>3. Rewritten => Rewritten'
  BY <1>1 DEF Rewritten, Rewrite, Bundled, Word, buf, Complete
<1>4. pc' \in Ended
  BY <1>1 DEF Ended
<1> QED BY <1>1, <1>2, <1>3, <1>4, ForgeFinishes

LEMMA WritesForge ==
  ASSUME NEW w, Writes(w)
  PROVE  ForgeInv'
<1>1. pc' \in {"write", "failed"}
  BY DEF Writes
<1> QED BY <1>1 DEF ForgeInv, Underway, Finished, Ended

(* Before anything is read, nothing is written again.                      *)
LEMMA TransmitForge ==
  ASSUME PacketInv, ReadInv, Transmit
  PROVE  ForgeInv'
<1>1. /\ pc = "write" /\ pc' = "read" /\ UNCHANGED <<writer, stack, calling, events>>
  BY DEF Transmit
<1>2. stack = << >> /\ events = << >> /\ calling = TRUE
  BY <1>1 DEF PacketInv, ReadInv
<1>3. Rewrite' = Empty
  <2>1. Rewrite' = RewriteOf(events')
    BY DEF Rewrite, RewriteOf
  <2> QED BY <1>1, <1>2, <2>1, RewriteNone
<1>4. Copied(Rewrite', buf', stack', Depth(stack'), Upto(calling', stack'))
  BY <1>1, <1>2, <1>3, CopiedNone DEF Depth, Upto
<1>5. \A k \in 1..Len(stack') : FALSE
  <2>1. Len(stack') = 0
    BY <1>1, <1>2
  <2> QED BY <2>1
<1> QED BY <1>1, <1>2, <1>4, <1>5 DEF ForgeInv

LEMMA ForgeInvInit == ASSUME Init PROVE ForgeInv
<1>1. pc = "write"
  BY DEF Init
<1> QED BY <1>1 DEF ForgeInv, Underway, Finished, Ended

LEMMA ForgeInvNext == ASSUME PacketInv, ReadInv, ForgeInv, [Next]_vars PROVE ForgeInv'
<1>1. ASSUME NEW timetag \in Timetags, PushBundle(timetag) PROVE ForgeInv'
  BY <1>1, WritesForge DEF PushBundle
<1>2. ASSUME NEW message \in Messages, AddMessage(message) PROVE ForgeInv'
  BY <1>2, WritesForge DEF AddMessage
<1>3. ASSUME PushItem \/ PopItem \/ PopBundle \/ Transmit PROVE ForgeInv'
  BY <1>3, WritesForge, TransmitForge DEF PushItem, PopItem, PopBundle
<1>4. ASSUME Read PROVE ForgeInv'
  BY <1>4, EnterForge, RefusedForge, HandleForge, NextForge, LeaveForge, DoneForge DEF Read
<1>5. ASSUME UNCHANGED vars PROVE ForgeInv'
  <2>1. UNCHANGED <<pc, writer, consumer, end, stack, calling, items, events>>
    BY <1>5 DEF vars
  <2>2. buf' = buf /\ Rewrite' = Rewrite /\ (Underway' <=> Underway) /\ (Rewritten' <=> Rewritten)
    BY <2>1 DEF buf, Rewrite, Underway, Rewritten, Bundled, Word, Complete
  <2> QED BY <2>1, <2>2 DEF ForgeInv
<1> QED BY <1>1, <1>2, <1>3, <1>4, <1>5 DEF Next

LEMMA ForgeInvWritten == ASSUME ForgeInv PROVE ForgedIsWritten
<1> SUFFICES ASSUME consumer = "forge", pc = "done", Bundled \/ end = Len(buf)
             PROVE  ForgedIsWritten
  BY DEF ForgedIsWritten
<1>1. /\ Rewrite.ok
      /\ Rewrite.buf = SubSeq(buf, 1, IF Bundled THEN Most(Complete) ELSE end)
  BY DEF ForgeInv, Rewritten
<1> QED BY <1>1 DEF ForgedIsWritten, Most, Complete
-----------------------------------------------------------------------------
(* Of a message that is whole nothing is looked for behind its end.        *)
LEMMA WholeScanned ==
  ASSUME NEW m \in Messages, NEW from \in Nat, NEW to \in Nat,
         to = from + Len(MessageWords(m)), IsAt(m, from)
  PROVE  ~ScansBehind(from, to)
<1> DEFINE n == Len(m.args)
           p == PaddedWords(m.path.bytes + 1)
           h == p + PaddedWords(FormatOf(m.args).bytes + 1)
           types == FormatOf(m.args).text
           ends == ArgumentEnds(types, from + h, to)
<1>1. /\ n \in Nat /\ p \in Nat /\ p > 0 /\ h \in Nat /\ p < h
      /\ Len(MessageWords(m)) \in Nat /\ h <= Len(MessageWords(m))
      /\ ArgumentsEnd(m, 0) = h
      /\ \A k \in 0..n : /\ ArgumentsEnd(m, k) \in Nat
                         /\ ArgumentsEnd(m, k) <= Len(MessageWords(m))
  BY MessageParts
<1>2. from < to /\ from + p < to /\ from + h <= to
  <2> HIDE DEF p, h
  <2> QED BY <1>1
<1>3. /\ StringEnd(from, to) = from + p /\ Word(from + p) = FormatOf(m.args)
      /\ StringEnd(from + p, to) = IF from + p < to THEN from + h ELSE from + p + 1
  BY <1>2, HeadRead
<1>4. Len(types) = n
  <2>1. DOMAIN m.args = 1..n
    BY MessagesAssumption
  <2> QED BY <1>1, <2>1 DEF FormatOf
<1>5. ASSUME NEW k \in 0..n PROVE ends[k] <= to /\ ends[k] \in Nat
  <2> DEFINE a == ArgumentsEnd(m, k)
             b == ends[k]
  <2>1. IF from + a <= to THEN b = from + a ELSE b \in Nat /\ b > to
    <3>1. ArgumentEnds(FormatOf(m.args).text, from + ArgumentsEnd(m, 0), to) = ends
      BY <1>1
    <3>2. to <= from + Len(MessageWords(m))
      BY <1>1
    <3> HIDE DEF ends, types
    <3> QED BY <3>1, <3>2, EndsFacts
  <2>2. a \in Nat /\ a <= Len(MessageWords(m))
    BY <1>1
  <2> HIDE DEF a, b
  <2>3. b <= to /\ b \in Nat
    BY <1>1, <2>1, <2>2
  <2> QED BY <2>3 DEF b
<1>6. ScansBehind(from, to) =
        \/ from + p > to
        \/ from + h > to
        \/ \E k \in 1..n : types[k] = "s" /\ ends[k - 1] <= to /\ to < ends[k]
  <2>1. StringEnd(from + p, to) = from + h
    BY <1>2, <1>3
  <2> QED BY <1>3, <1>4, <2>1 DEF ScansBehind
<1>7. \A k \in 1..n : ~(to < ends[k])
  <2> SUFFICES ASSUME NEW k \in 1..n PROVE ~(to < ends[k])
    OBVIOUS
  <2> DEFINE b == ends[k]
  <2>1. b <= to /\ b \in Nat
    <3>1. k \in 0..n
      BY <1>1
    <3> QED BY <1>5, <3>1
  <2> HIDE DEF b
  <2>2. ~(to < b)
    BY <2>1
  <2> QED BY <2>2 DEF b
<1>8. ~(from + p > to) /\ ~(from + h > to)
  <2> HIDE DEF p, h
  <2> QED BY <1>1, <1>2
<1> HIDE DEF p, h, n, types, ends
<1> QED BY <1>6, <1>7, <1>8

(* What is looked at is whole unless it is the packet and that was cut.    *)
LEMMA LooksInside ==
  ASSUME PacketInv
  PROVE  pc = "read" /\ calling /\ LooksBehind =>
           stack = << >> /\ end < Len(buf) /\ (Bundled => end < 2)
<1> SUFFICES ASSUME pc = "read", LooksBehind
             PROVE  stack = << >> /\ end < Len(buf) /\ (Bundled => end < 2)
  OBVIOUS
<1> DEFINE p == Current.from
           to == Current.to
           d == MaxDepth - Len(stack)
           W == Begun(written)
           t == Current.timetag
<1>1. PICK e \in Nat :
           /\ p \in Nat /\ to \in Nat /\ to <= e /\ Sound(buf, W, APacket(p, e, d, t))
           /\ stack = << >> => e = Len(buf) /\ to = end
           /\ stack # << >> => e = to
  BY CurrentFacts
<1>2. d \in Nat /\ end \in Nat /\ Len(buf) \in Nat /\ end <= Len(buf)
  BY StackFacts
<1>3. /\ p < e /\ e <= Len(buf)
      /\ \/ MessageAt(buf, W, APacket(p, e, d, t))
         \/ HeadAt(buf, W, p) /\ p + 4 < e
  <2> HIDE DEF p, d, W, t
  <2> QED BY <1>1, <1>2, PacketFacts
<1>4. to # e
  <2> SUFFICES ASSUME to = e PROVE FALSE
    OBVIOUS
  <2>1. p # to /\ p < to
    <3> HIDE DEF p, to
    <3> QED BY <1>1, <1>3
  <2>2. CASE IsMessage
    <3>1. PICK j \in 1..Len(written) :
             LET m == written[j].message
                 f == p + Len(MessageWords(m))
             IN  /\ f \in Nat /\ m \in Messages /\ IsAt(m, p) /\ f <= Len(buf)
                 /\ to <= f /\ (stack # << >> => to = f)
      BY <2>2, CurrentMessage
    <3> DEFINE m == written[j].message
               f == p + Len(MessageWords(m))
    <3>2. /\ f \in Nat /\ m \in Messages /\ IsAt(m, p) /\ f <= Len(buf)
          /\ to <= f /\ (stack # << >> => to = f)
      BY <3>1
    <3>3. to = f
      <4> HIDE DEF f, to
      <4> QED BY <1>1, <1>2, <3>2
    <3>4. ~ScansBehind(p, to)
      <4>1. p \in Nat /\ to \in Nat
        BY <1>1
      <4> HIDE DEF p, to, m
      <4> QED BY <3>2, <3>3, <4>1, WholeScanned
    <3> QED BY <2>1, <2>2, <3>4 DEF LooksBehind, IsMessage, IsBundle
  <2>3. CASE ~IsMessage
    <3>1. IsBundle /\ to < p + 2
      BY <2>1, <2>3 DEF LooksBehind
    <3>2. Word(p) = Bundle
      BY <3>1 DEF IsBundle
    <3>3. p + 4 < e
      <4>1. MessageAt(buf, W, APacket(p, e, d, t)) => Word(p) # Bundle
        <5> DEFINE x == APacket(p, e, d, t)
        <5>1. x.from = p
          BY DEF APacket
        <5> HIDE DEF x
        <5>2. MessageAt(buf, W, x) => buf[p + 1].of # Bundle
          BY <5>1, MessageStart
        <5> QED BY <5>2 DEF x, Word
      <4> HIDE DEF p, W, d, t
      <4> QED BY <1>3, <3>2, <4>1
    <3> HIDE DEF p, to
    <3> QED BY <1>1, <3>1, <3>3
  <2> QED BY <2>2, <2>3
<1>5. stack = << >> /\ to = end /\ end < Len(buf) /\ p = 0
  <2>1. stack = << >>
    BY <1>1, <1>4
  <2>2. to = end /\ e = Len(buf) /\ p = 0
    BY <1>1, <2>1 DEF Current
  <2> HIDE DEF p, to
  <2> QED BY <1>1, <1>2, <1>4, <2>1, <2>2
<1>6. ASSUME Bundled PROVE end < 2
  <2>1. ~IsMessage
    BY <1>5, <1>6 DEF IsMessage, Bundled
  <2>2. p = to \/ to < p + 2
    BY <2>1 DEF LooksBehind
  <2> HIDE DEF p, to
  <2> QED BY <1>2, <1>5, <2>2
<1> QED BY <1>5, <1>6

LEMMA PacketInvInside == ASSUME PacketInv PROVE StaysInside
<1>1. TypeOK /\ Stacked(buf, Begun(written), end, stack) /\ end \in Nat
  <2>1. TypeOK /\ Stacked(buf, Begun(written), end, stack) /\ IsWords(buf)
    BY DEF PacketInv
  <2>2. Len(buf) \in Nat
    BY <2>1, LengthOfWords
  <2> QED BY <2>1, <2>2 DEF TypeOK
<1>2. PICK V : stack \in Seq(FrameOf(V))
  BY <1>1 DEF Stacked
<1>3. Len(stack) \in Nat /\ \A k \in 1..Len(stack) : stack[k].from \in Nat /\ stack[k].size \in Nat
  <2> DEFINE F == FrameOf(V)
  <2>1. \A f \in F : f.from \in Nat /\ f.size \in Nat
    BY DEF FrameOf
  <2>2. stack \in Seq(F)
    BY <1>2
  <2> HIDE DEF F
  <2> QED BY <2>1, <2>2
<1>4. ASSUME NEW k \in 1..Len(stack)
      PROVE  /\ stack[k].from + stack[k].size <= stack[k].to
             /\ stack[k].to <= IF k = 1 THEN end ELSE stack[k - 1].from + stack[k - 1].size
  <2> DEFINE bound == IF k = 1 THEN end ELSE stack[k - 1].from + stack[k - 1].size
  <2>1. StackedAt(buf, Begun(written), end, stack, k)
    BY <1>1 DEF Stacked
  <2>2. bound \in Nat
    <3>1. k # 1 => k - 1 \in 1..Len(stack)
      BY <1>3
    <3> QED BY <1>1, <1>3, <3>1
  <2>3. stack[k].to = bound /\ stack[k].from + stack[k].size <= stack[k].to
    BY <2>1 DEF StackedAt
  <2>4. stack[k].to <= bound
    <3> HIDE DEF bound
    <3> QED BY <2>2, <2>3
  <2> QED BY <2>3, <2>4
<1>5. pc = "read" /\ calling /\ LooksBehind =>
        stack = << >> /\ end < Len(buf) /\ (Bundled => end < 2)
  BY LooksInside
<1> QED BY <1>1, <1>4, <1>5 DEF StaysInside
-----------------------------------------------------------------------------
(* However bundles, items and messages are put together, dropped and read: *)
(* writer.h keeps what it writes below the end of its buffer, and          *)
(* lv2_osc_reader_item_raw keeps the reader of every bundle inside the     *)
(* item that the bundle is, and all of them inside what has arrived.  What *)
(* strlen and strncmp look at before anything is tested is inside, too,    *)
(* but for a message in no bundle that was cut and for a packet of less    *)
(* than two words.                                                         *)
THEOREM ReaderStaysInside == Spec => []StaysInside
<1>1. Init => PacketInv
  BY PacketInvInit
<1>2. PacketInv /\ [Next]_vars => PacketInv'
  BY PacketInvNext
<1>3. PacketInv => StaysInside
  BY PacketInvInside
<1> QED BY <1>1, <1>2, <1>3, PTL DEF Spec

(* Whatever is handed on is a packet all through: every item in it, at any *)
(* depth, has its size in front of it, holds a message or a bundle, and    *)
(* ends where the next one or the bundle around it does.                   *)
THEOREM SentIsSound ==
  Spec => [](pc \notin {"write", "failed"} => Sound(buf, Begun(written), AllSent))
<1>1. Init => PacketInv
  BY PacketInvInit
<1>2. PacketInv /\ [Next]_vars => PacketInv'
  BY PacketInvNext
<1>3. PacketInv =>
        (pc \notin {"write", "failed"} => Sound(buf, Begun(written), AllSent))
  BY DEF PacketInv
<1> QED BY <1>1, <1>2, <1>3, PTL DEF Spec

(* What is written arrives, or else is cut where the transport cut it:     *)
(* _handle_osc_packet and lv2_osc_forge_packet hand on, for any packet     *)
(* written and wherever it was cut, every message of every item of the     *)
(* outermost bundle that arrived whole, once, in order and under its       *)
(* bundle's timetag, and nothing else; of a message on its own, the        *)
(* arguments that arrived.                                                 *)
THEOREM WrittenIsRead == Spec => []WholeIsRead
<1>1. Init => PacketInv /\ ReadInv
  BY PacketInvInit, ReadInvInit
<1>2. PacketInv /\ ReadInv /\ [Next]_vars => PacketInv' /\ ReadInv'
  BY PacketInvNext, ReadInvNext
<1>3. PacketInv /\ ReadInv => WholeIsRead
  BY ReadInvWhole
<1> QED BY <1>1, <1>2, <1>3, PTL DEF Spec

(* Of a bundle that arrived, be it cut, main.c never reads an argument     *)
(* that is not there: only a message in no bundle, or no word at all,      *)
(* brings it down, before anything was handled.                            *)
THEOREM BundlesNeverCrash == Spec => []CrashesOnLoneMessages
<1>1. Init => PacketInv /\ ReadInv
  BY PacketInvInit, ReadInvInit
<1>2. PacketInv /\ ReadInv /\ [Next]_vars => PacketInv' /\ ReadInv'
  BY PacketInvNext, ReadInvNext
<1>3. PacketInv /\ ReadInv => CrashesOnLoneMessages
  BY DEF ReadInv, CrashesOnLoneMessages
<1> QED BY <1>1, <1>2, <1>3, PTL DEF Spec

(* forge.h and lv2_osc_writer_packet are each other's inverse: what        *)
(* lv2_osc_forge_packet makes of a whole packet, however deep its bundles, *)
(* is written as the same packet again, word for word; of a bundle that    *)
(* was cut, as the items that arrived whole, with the sizes they had.      *)
THEOREM ForgedIsWrittenAgain == Spec => []ForgedIsWritten
<1>1. Init => PacketInv /\ ReadInv /\ ForgeInv
  BY PacketInvInit, ReadInvInit, ForgeInvInit
<1>2. PacketInv /\ ReadInv /\ ForgeInv /\ [Next]_vars => PacketInv' /\ ReadInv' /\ ForgeInv'
  BY PacketInvNext, ReadInvNext, ForgeInvNext
<1>3. PacketInv /\ ReadInv /\ ForgeInv => ForgedIsWritten
  BY ForgeInvWritten
<1> QED BY <1>1, <1>2, <1>3, PTL DEF Spec
=============================================================================
