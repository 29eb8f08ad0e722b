---------------------------- MODULE SlipStream ----------------------------
(***************************************************************************)
(* stream.h: receiving SLIP-framed packets, as a TCP server from one       *)
(* client after another, or from a serial line.  Each call of              *)
(* lv2_osc_stream_run accepts a client if there is none, reads once what   *)
(* has arrived behind what was left over, decodes packet after packet in   *)
(* place, hands each to the ring, and keeps the rest for the next call.    *)
(*                                                                         *)
(* The clients send the packets of Payloads one after the other, encoded   *)
(* by lv2_osc_slip_encode_inline.  A read returns any part of what was     *)
(* sent.  The ring is a bounded queue that the beat thread empties.        *)
(***************************************************************************)
EXTENDS SlipFormat

CONSTANTS
  Payloads,                            \* what is sent, in that order
  BufSize,                             \* sizeof(stream->rx_buf)
  RingSize,                            \* packets that fit the ring
  MaxClients                           \* bound: TCP connections

ASSUME PayloadsAssumption ==
  /\ Payloads \in Seq(Seq(Int) \ {<< >>})
  /\ \A i, j \in DOMAIN Payloads : Payloads[i] = Payloads[j] => i = j
ASSUME BoundsAssumption == {BufSize, RingSize, MaxClients} \subseteq Nat

VARIABLES
  serial,     \* stream->serial: a serial line or a TCP server
  connected,  \* stream->connected
  peer,       \* the other end of stream->fd
  clients,    \* how many there have been
  sent,       \* how many payloads were sent
  wire,       \* of these, what has not been read, packet by packet
  rx,         \* rx_buf from ptr on; between calls, what was left over
  pc,         \* "run" between calls, "parse" in the loop over rx_buf
  unread,     \* packets in the ring
  \* history
  taken,      \* everything handed to the ring
  hurt,       \* numbers of packets cut by a read or a disconnection, refused,
              \* or left in rx_buf behind one that was refused
  spoiled     \* numbers of packets that come first from a client while rx_buf
              \* still holds something from the client before it

line == <<serial, connected, peer, clients, sent, wire>>
vars == <<line, rx, pc, unread, taken, hurt, spoiled>>

Numbers == DOMAIN Payloads

TypeOK ==
  /\ serial \in BOOLEAN
  /\ connected \in BOOLEAN
  /\ peer \in IF connected THEN {"open", "closed", "reset"} ELSE {"none"}
  /\ clients \in 0..MaxClients
  /\ sent \in 0..Len(Payloads)
  /\ \A k \in 1..Len(wire) : wire[k].number \in 1..sent /\ wire[k].bytes # << >>
  /\ Len(rx) <= BufSize
  /\ pc \in {"run", "parse"}
  /\ unread \in 0..RingSize
  /\ unread <= Len(taken)
  /\ hurt \subseteq Numbers /\ spoiled \subseteq Numbers

Init ==
  /\ serial \in BOOLEAN
  /\ connected = serial /\ peer = (IF serial THEN "open" ELSE "none") /\ clients = 0
  /\ sent = 0 /\ wire = << >> /\ rx = << >> /\ pc = "run"
  /\ unread = 0 /\ taken = << >> /\ hurt = {} /\ spoiled = {}
-----------------------------------------------------------------------------
(* The output was written over the beginning of the input.                 *)
Overwritten(buf, out) == out \o From(buf, Len(out) + 1)
-----------------------------------------------------------------------------
(* The other end *)

Send ==
  /\ connected /\ peer = "open"
  /\ sent < Len(Payloads)
  /\ sent' = sent + 1
  /\ wire' = Append(wire, [number |-> sent + 1, bytes |-> Encode(Payloads[sent + 1])])
  /\ UNCHANGED <<serial, connected, peer, clients, rx, pc, unread, taken, hurt, spoiled>>

(* The connection is closed by the peer, or breaks.                        *)
PeerLeave ==
  /\ ~serial /\ peer = "open"
  /\ peer' \in {"closed", "reset"}
  /\ UNCHANGED <<serial, connected, clients, sent, wire, rx, pc, unread, taken, hurt, spoiled>>
-----------------------------------------------------------------------------
(* lv2_osc_stream_run *)

(* What was left over from one client is still there for the next.         *)
Accept ==
  /\ ~connected /\ clients < MaxClients
  /\ connected' = TRUE /\ peer' = "open" /\ clients' = clients + 1
  /\ spoiled' = IF rx # << >> /\ sent < Len(Payloads) THEN spoiled \cup {sent + 1} ELSE spoiled
  /\ UNCHANGED <<serial, sent, wire, rx, pc, unread, taken, hurt>>

(* Faulty: the socket is closed but connected stays.                       *)
CloseOnly ==
  /\ peer' = "none" /\ wire' = << >>
  /\ hurt' = hurt \cup {wire[k].number : k \in 1..Len(wire)}
  /\ UNCHANGED <<serial, connected, clients, sent, rx, pc, unread, taken, spoiled>>

Disconnect ==
  /\ connected' = FALSE /\ peer' = "none" /\ wire' = << >>
  /\ hurt' = hurt \cup {wire[k].number : k \in 1..Len(wire)}
  /\ UNCHANGED <<serial, clients, sent, rx, pc, unread, taken, spoiled>>

Space == BufSize - Len(rx)

(* recv returns k packets and the first s bytes of another.                *)
Recv(k, s) ==
  LET whole == FlattenSeq([i \in 1..k |-> wire[i].bytes])
      part == IF s = 0 THEN << >> ELSE SubSeq(wire[k + 1].bytes, 1, s)
      rest == From(wire, k + 1)
  IN
  /\ pc = "run" /\ connected
  /\ 0 < Len(whole) + s /\ Len(whole) + s <= Space
  /\ rx' = rx \o whole \o part
  /\ wire' = IF s = 0 THEN rest ELSE [rest EXCEPT ![1].bytes = From(@, s + 1)]
  /\ hurt' = IF s = 0 THEN hurt ELSE hurt \cup {wire[k + 1].number}
  /\ pc' = "parse"
  /\ UNCHANGED <<serial, connected, peer, clients, sent, unread, taken, spoiled>>

Read ==
  \E k \in 0..Len(wire) :
    \/ Recv(k, 0)
    \/ /\ k < Len(wire)
       /\ \E s \in 1..(Len(wire[k + 1].bytes) - 1) : Recv(k, s)

(* recv returns 0: the peer has closed, or there is no room to receive     *)
(* what has arrived.  The serial line is never closed.                     *)
ReadNothing ==
  /\ pc = "run" /\ connected /\ ~serial
  /\ \/ peer = "closed" /\ wire = << >>
     \/ Space = 0 /\ wire # << >>
  /\ Disconnect

ReadError ==
  /\ pc = "run" /\ connected
  /\ peer = "reset"
  /\ Disconnect

Parsing == pc = "parse" /\ rx # << >>

Keep(rest) == rx' = rest /\ pc' = "run"

(* Faulty: ptr is not moved on.                                            *)
DispatchAgain ==
  LET packet == Decode(rx) IN
  /\ Parsing
  /\ packet.valid /\ packet.out # << >>
  /\ unread < RingSize
  /\ taken' = Append(taken, packet.out)
  /\ unread' = unread + 1
  /\ UNCHANGED <<line, rx, pc, hurt, spoiled>>

(* A packet for which the ring has room                                    *)
Dispatch ==
  LET packet == Decode(rx) IN
  /\ Parsing
  /\ packet.valid /\ packet.out # << >>
  /\ unread < RingSize
  /\ taken' = Append(taken, packet.out)
  /\ unread' = unread + 1
  /\ rx' = From(rx, packet.parsed + 1)
  /\ UNCHANGED <<line, pc, hurt, spoiled>>

(* What was read and not handed on: the packet that is refused and those   *)
(* behind it, besides what was hurt or spoiled before.                     *)
Arrived(n) == \E k \in 1..Len(taken) : taken[k] = Payloads[n]

Undelivered ==
  {n \in 1..sent \ spoiled : ~Arrived(n) /\ \A k \in 1..Len(wire) : wire[k].number # n}

(* ENOMEM: rx_buf is looked at again when something else has been read.    *)
Refuse ==
  LET packet == Decode(rx) IN
  /\ Parsing
  /\ packet.valid /\ packet.out # << >>
  /\ unread = RingSize
  /\ Keep(Overwritten(rx, packet.out))
  /\ hurt' = hurt \cup Undelivered
  /\ UNCHANGED <<line, unread, taken, spoiled>>

(* Faulty: all that was read is dropped.                                   *)
SkipAll ==
  LET packet == Decode(rx) IN
  /\ Parsing
  /\ packet.parsed > 0
  /\ ~packet.valid \/ packet.out = << >>
  /\ Keep(<< >>)
  /\ UNCHANGED <<line, unread, taken, hurt, spoiled>>

(* Faulty: what is no packet is kept as if it were incomplete.             *)
KeepGarbage ==
  LET packet == Decode(rx) IN
  /\ Parsing
  /\ packet.parsed > 0
  /\ ~packet.valid \/ packet.out = << >>
  /\ Keep(rx)
  /\ UNCHANGED <<line, unread, taken, hurt, spoiled>>

(* Something that ends, but is empty or did not begin                      *)
Skip ==
  LET packet == Decode(rx) IN
  /\ Parsing
  /\ packet.parsed > 0
  /\ ~packet.valid \/ packet.out = << >>
  /\ rx' = From(rx, packet.parsed + 1)
  /\ UNCHANGED <<line, pc, unread, taken, hurt, spoiled>>

Incomplete ==
  LET packet == Decode(rx) IN
  /\ Parsing
  /\ packet.parsed = 0
  /\ Keep(Overwritten(rx, packet.out))
  /\ UNCHANGED <<line, unread, taken, hurt, spoiled>>

Parsed ==
  /\ pc = "parse" /\ rx = << >>
  /\ Keep(<< >>)
  /\ UNCHANGED <<line, unread, taken, hurt, spoiled>>

Run == Read \/ ReadNothing \/ ReadError \/ Dispatch \/ Refuse \/ Skip \/ Incomplete \/ Parsed

(* The beat thread *)
Drain ==
  /\ unread > 0
  /\ unread' = unread - 1
  /\ UNCHANGED <<line, rx, pc, taken, hurt, spoiled>>

Next ==
  \/ Send \/ PeerLeave
  \/ Accept
  \/ Run
  \/ Drain

Spec == Init /\ [][Next]_vars

(* main calls lv2_osc_stream_run again and again, the beat thread drains   *)
(* the ring; nobody has to send or to connect.                             *)
FairSpec == Spec /\ WF_vars(Run) /\ WF_vars(Drain)
-----------------------------------------------------------------------------
(* Properties *)

NumberOf(payload) == CHOOSE n \in Numbers : Payloads[n] = payload

(* What was handed to the ring as it had been sent                         *)
AsSent == LET Known(packet) == \E n \in Numbers : Payloads[n] = packet
          IN  SelectSeq(taken, Known)

Framing == INSTANCE Line WITH
  delivered <- [k \in 1..Len(AsSent) |-> NumberOf(AsSent[k])]

(* Anything else in the ring was made of what is left of one packet that   *)
(* was cut and has an End among its bytes: an End that was decoded in      *)
(* place is taken for the beginning of a packet when rx_buf is decoded     *)
(* again.  What it spoils of the next client may be joined to it.          *)
InventedFromHurt ==
  \A k \in 1..Len(taken) :
    \/ \E n \in Numbers : Payloads[n] = taken[k]
    \/ \E n \in hurt : /\ End \in Range(Payloads[n])
                      /\ \E m \in {n} \cup spoiled :
                           Range(taken[k]) \subseteq Range(Encode(Payloads[n]) \o Encode(Payloads[m]))

(* Whatever is cut, refused or left over, each packet that was sent gets   *)
(* to the ring at most once, whole and in order; and nothing else does but *)
(* for the remains of packets that hold an End (which must not happen to   *)
(* have the bytes of another packet).                                      *)
InOrder == Framing!Spec /\ []InventedFromHurt

(* When rx_buf is full, read is asked for nothing and returns nothing, and *)
(* a serial line has nobody to disconnect.                                 *)
Stuck == serial /\ pc = "run" /\ Space = 0

(* A line gets stuck only because the ring refuses a packet: with room in  *)
(* it, what a cut packet has left in rx_buf never piles up.  (rx_buf must  *)
(* be able to hold the longest packet.)                                    *)
StuckWhenRefused == [][~Stuck /\ Stuck' => unread = RingSize]_vars

(* A packet that is not cut itself is not lost because another one of the  *)
(* same client was: the decoder finds its beginning again.  Of another     *)
(* client's, what is left over may spoil the first packet, uncut as it is, *)
(* but none behind it.                                                     *)
UnhurtArrive ==
  \A n \in Numbers : sent >= n ~> (n \in hurt \cup spoiled \/ Arrived(n) \/ Stuck)

(* "is there remaining chunk for next call?": what was read is kept until  *)
(* the rest of the packet comes.  When all has been read and decoded, on a *)
(* first connection that still stands, into a ring that never refuses,     *)
(* every packet was handed over as it was sent.                            *)
RemainderIsKept ==
  /\ connected /\ clients <= 1 /\ RingSize >= Len(Payloads)
  /\ pc = "run" /\ rx = << >> /\ wire = << >>
  => taken = SubSeq(Payloads, 1, sent)

(* "orderly shutdown": the connection is given up only when the peer has   *)
(* closed it, or it broke.                                                 *)
OrderlyShutdown ==
  [][connected /\ ~connected' => peer \in {"closed", "reset"}]_vars

(* lv2_osc_slip_decode_inline undoes lv2_osc_slip_encode_inline: whatever  *)
(* is left in rx_buf behind a packet, the decoder finds its end, parses    *)
(* all of it, and writes what was encoded.                                 *)
RoundTrip(payload) ==
  LET bytes == Encode(payload)
      packet == Decode(bytes \o rx)
  IN  packet.valid /\ packet.parsed = Len(bytes) /\ packet.out = payload
=============================================================================
