------------------------------ MODULE Sending ------------------------------
(***************************************************************************)
(* stream.h: sending what is in the ring tx, datagram by datagram, or over *)
(* TCP or a serial line in one of the two framings.  Each call of          *)
(* lv2_osc_stream_run sends chunk after chunk until there is none, or one  *)
(* is not sent as a whole.  A chunk leaves the ring when it was sent, or   *)
(* is too long ever to be; otherwise the next call sends it from its       *)
(* beginning again.                                                        *)
(*                                                                         *)
(* The link takes any part of what is sent.  What is at its other end is   *)
(* judged by what it makes of the bytes: PeerDecodes.                      *)
(***************************************************************************)
EXTENDS SlipFormat

CONSTANTS
  Chunks,       \* what is put into tx, in that order; see ChunksAreFit
  TxSize,       \* sizeof(stream->tx_buf)
  MaxParts,     \* bound: sends that are cut short
  MaxLinks      \* bound: connections

VARIABLES
  kind,       \* socket_type: "udp", "tcp" or "serial"
  slip,       \* stream->slip
  ready,      \* udp: is there a peer to send to?  tcp: connected
  put,        \* how many chunks were put into tx
  next,       \* the one read_req returns
  wire,       \* what this link has taken: bytes, or datagrams
  \* history
  links,      \* how many there have been
  parts,      \* how many sends were cut short
  received,   \* what the peers before this one have decoded
  hurt,       \* chunks that were once sent in part
  sent        \* chunks that were sent

(* No chunk is empty, and no byte begins two.  tx_buf has room for every   *)
(* chunk that fits it before it is encoded (16 KiB are enough for chunks   *)
(* half as long).                                                          *)
ChunksAreFit ==
  /\ Chunks \in Seq(Seq(Nat) \ {<< >>})
  /\ \A i, j \in DOMAIN Chunks : Chunks[i][1] = Chunks[j][1] => i = j
  /\ \A i \in DOMAIN Chunks : Len(Chunks[i]) <= TxSize => Len(Encode(Chunks[i])) <= TxSize

vars == <<kind, slip, ready, put, next, wire, links, parts, received, hurt, sent>>

TypeOK ==
  /\ kind \in {"udp", "tcp", "serial"} /\ slip \in BOOLEAN /\ ready \in BOOLEAN
  /\ put \in 0..Len(Chunks)
  /\ next \in 1..(put + 1)
  /\ links \in 0..MaxLinks /\ parts \in 0..MaxParts
  /\ hurt \subseteq 1..put
  /\ sent \in Seq(1..(next - 1))

Init ==
  /\ kind \in {"udp", "tcp", "serial"} /\ slip \in BOOLEAN
  /\ ready = (kind = "serial")
  /\ put = 0 /\ next = 1 /\ wire = << >> /\ links = 0
  /\ parts = 0 /\ received = << >> /\ hurt = {} /\ sent = << >>

(* The length in network byte order                                        *)
Prefixed(payload) == <<0, 0, 0, Len(payload)>> \o payload

(* As it is put into tx_buf                                                *)
Framed(payload) == IF slip THEN Encode(payload) ELSE Prefixed(payload)
Fits(payload) == (IF slip THEN Len(payload) ELSE Len(payload) + 4) <= TxSize

(* Every packet a SLIP decoder finds in bytes                              *)
SlipPackets(bytes) ==
  LET from[k \in 0..Len(bytes)] ==
        LET packet == Decode(SubSeq(bytes, k + 1, Len(bytes))) IN
        IF packet.parsed = 0 THEN << >>
        ELSE (IF packet.valid /\ packet.out # << >> THEN <<packet.out>> ELSE << >>)
               \o from[k + packet.parsed]
  IN  from[0]

PrefixedPackets(bytes) ==
  LET length(k) == IF \A i \in 1..3 : bytes[k + i] = 0 THEN bytes[k + 4] ELSE Len(bytes)
      from[k \in 0..Len(bytes)] ==
        IF k + 4 > Len(bytes) THEN << >>
        ELSE IF k + 4 + length(k) > Len(bytes) THEN << >>
        ELSE <<SubSeq(bytes, k + 5, k + 4 + length(k))>> \o from[k + 4 + length(k)]
  IN  from[0]

PeerDecodes ==
  CASE kind = "udp" -> wire
    [] kind # "udp" /\ slip -> SlipPackets(wire)
    [] kind # "udp" /\ ~slip -> PrefixedPackets(wire)
-----------------------------------------------------------------------------
(* The ring and the other end *)

Put ==
  /\ put < Len(Chunks)
  /\ put' = put + 1
  /\ UNCHANGED <<kind, slip, ready, next, wire, links, parts, received, hurt, sent>>

(* A datagram tells run_udp whom to answer; a client, or a connection, is  *)
(* there.                                                                  *)
Link ==
  /\ ~ready /\ links < MaxLinks
  /\ ready' = TRUE /\ links' = links + 1
  /\ UNCHANGED <<kind, slip, put, next, wire, parts, received, hurt, sent>>
-----------------------------------------------------------------------------
(* "send everything" in the three functions run by lv2_osc_stream_run      *)

ReadRequest == ready /\ next <= put

SendDatagram ==
  /\ kind = "udp" /\ ReadRequest
  /\ wire' = Append(wire, Chunks[next])
  /\ next' = next + 1 /\ sent' = Append(sent, next)
  /\ UNCHANGED <<kind, slip, ready, put, links, parts, received, hurt>>

Send ==
  /\ kind # "udp" /\ ReadRequest /\ Fits(Chunks[next])
  /\ wire' = wire \o Framed(Chunks[next])
  /\ next' = next + 1 /\ sent' = Append(sent, next)
  /\ UNCHANGED <<kind, slip, ready, put, links, parts, received, hurt>>

(* Faulty: what has no room is tried again.                                *)
KeepTooLong ==
  /\ kind # "udp" /\ ReadRequest /\ ~Fits(Chunks[next])
  /\ UNCHANGED vars

(* tosend = 0, which is "sent".                                            *)
DropTooLong ==
  /\ kind # "udp" /\ ReadRequest /\ ~Fits(Chunks[next])
  /\ next' = next + 1
  /\ UNCHANGED <<kind, slip, ready, put, wire, links, parts, received, hurt, sent>>

(* Faulty: the rest of the chunk is forgotten.                             *)
SendPartAndGoOn ==
  /\ kind # "udp" /\ ReadRequest /\ Fits(Chunks[next]) /\ parts < MaxParts
  /\ \E n \in 1..(Len(Framed(Chunks[next])) - 1) :
       wire' = wire \o SubSeq(Framed(Chunks[next]), 1, n)
  /\ parts' = parts + 1 /\ next' = next + 1
  /\ UNCHANGED <<kind, slip, ready, put, links, received, hurt, sent>>

(* EIO: the chunk stays, but so does its part on the line.                 *)
SendPart ==
  /\ kind # "udp" /\ ReadRequest /\ Fits(Chunks[next]) /\ parts < MaxParts
  /\ \E n \in 1..(Len(Framed(Chunks[next])) - 1) :
       wire' = wire \o SubSeq(Framed(Chunks[next]), 1, n)
  /\ parts' = parts + 1 /\ hurt' = hurt \cup {next}
  /\ UNCHANGED <<kind, slip, ready, put, next, links, received, sent>>

(* The connection is closed; the next one gets the chunk.  (An error on a  *)
(* serial line or a socket for datagrams, and EAGAIN, change nothing.)     *)
SendError ==
  /\ kind = "tcp" /\ ReadRequest /\ Fits(Chunks[next])
  /\ ready' = FALSE
  /\ received' = received \o PeerDecodes /\ wire' = << >>
  /\ UNCHANGED <<kind, slip, put, next, links, parts, hurt, sent>>

Run == SendDatagram \/ Send \/ DropTooLong

Next == Put \/ Link \/ Run \/ SendPart \/ SendError

Spec == Init /\ [][Next]_vars

(* main calls lv2_osc_stream_run again and again, there is somebody to     *)
(* send to at last, and the link takes something at last.                  *)
FairSpec == Spec /\ WF_vars(Link) /\ WF_vars(Run)
-----------------------------------------------------------------------------
(* Properties *)

Delivered == received \o PeerDecodes

(* A chunk that was never sent in part                                     *)
Whole(packet) ==
  /\ \E n \in DOMAIN Chunks : Chunks[n] = packet
  /\ \A n \in hurt : Chunks[n] # packet

(* The peer gets the chunks that were sent in one go, as they were, in     *)
(* order, each once; and whatever else a SLIP decoder finds begins as a    *)
(* chunk that was sent in parts.                                           *)
UnhurtIsDelivered ==
  slip \/ hurt = {} =>
    /\ FlattenSeq([k \in DOMAIN Delivered |->
                     IF Whole(Delivered[k]) THEN <<Delivered[k]>> ELSE << >>])
         = FlattenSeq([k \in DOMAIN sent |->
                         IF sent[k] \in hurt THEN << >> ELSE <<Chunks[sent[k]]>>])
    /\ \A k \in DOMAIN Delivered :
         Whole(Delivered[k]) \/ \E n \in hurt : Delivered[k][1] = Chunks[n][1]

(* No chunk holds up the others for ever: it is sent, or too long, or      *)
(* nobody is there any more to send it to.                                 *)
EveryChunkGoes ==
  \A n \in DOMAIN Chunks : put >= n ~> (next > n \/ (~ready /\ links = MaxLinks))
=============================================================================
