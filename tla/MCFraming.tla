----------------------------- MODULE MCFraming -----------------------------
(* A stream over TCP or a serial line decodes SLIP, or is told the lengths *)
(* of the packets, for stream->slip is set once and for all; or it sends.  *)
(* What belongs to the other two never changes.  The packets received are  *)
(* those of MCSlip and MCPrefix.  Of those sent, the third has no room in  *)
(* tx_buf.                                                                 *)
EXTENDS MCSlip, PrefixFormat

CONSTANTS Chunks, TxSize, MaxParts, MaxLinks    \* of Sending

VARIABLES
  role,       \* which of the three this stream does
  pconnected, ppeer, psent, pwire, parrived, ppc, pprefix, punread, ptaken, pcut,
  kind, slip, ready, put, next, swire, links, parts, received, shurt, ssent

MCLengths == <<1, 2>>
MCChunks == << <<1>>, <<2, Esc>>, <<3, 3, 3, 3, 3, 3, 3>>, <<4, End>> >>

pvars == <<pconnected, ppeer, psent, pwire, parrived, ppc, pprefix, punread, ptaken, pcut>>
svars == <<kind, slip, ready, put, next, swire, links, parts, received, shurt, ssent>>

P == INSTANCE PrefixStream WITH
  connected <- pconnected, peer <- ppeer, sent <- psent, wire <- pwire,
  arrived <- parrived, pc <- ppc, prefix <- pprefix, unread <- punread,
  taken <- ptaken, cut <- pcut

S == INSTANCE Sending WITH
  wire <- swire, hurt <- shurt, sent <- ssent

ASSUME ChunksAssumption == S!ChunksAreFit
ASSUME LinksAssumption == MaxParts \in Nat /\ MaxLinks \in Nat

(* An End behind an Esc is lost; it is not read as what stands for another.*)
ASSUME EndAssumption == End \notin {EndReplace, EscReplace}

framing == <<role, vars, pvars, svars>>

InSlip == role = "slip" /\ UNCHANGED <<role, pvars, svars>>
InPrefix == role = "prefix" /\ UNCHANGED <<role, vars, svars>>
InSend == role = "send" /\ UNCHANGED <<role, vars, pvars>>

MCInit ==
  /\ role \in {"slip", "prefix", "send"}
  /\ Init /\ P!Init /\ S!Init
  /\ role # "slip" => serial
  /\ role # "send" => kind = "serial" /\ slip

MCNext ==
  \/ InSlip /\ Next
  \/ InPrefix /\ P!Next
  \/ InSend /\ S!Next

MCSpec ==
  /\ MCInit /\ [][MCNext]_framing
  /\ WF_vars(InSlip /\ Run) /\ WF_vars(InSlip /\ Drain)
  /\ WF_pvars(InPrefix /\ P!Arrive) /\ WF_pvars(InPrefix /\ P!Run)
  /\ WF_pvars(InPrefix /\ P!Drain)
  /\ WF_svars(InSend /\ S!Link) /\ WF_svars(InSend /\ S!Run)

Bytes == {1, End, Esc, EndReplace, EscReplace}

(* SlipStream: decoding undoes encoding, for every packet of one or two    *)
(* bytes before everything that rx_buf holds.                              *)
RoundTrips ==
  role = "slip" =>
    \A payload \in [1..1 -> Bytes] \cup [1..2 -> Bytes] : RoundTrip(payload)

(* What the three say of their states                                      *)
FramingTypeOK == TypeOK /\ P!TypeOK /\ S!TypeOK

(* PrefixStream: packets that arrive whole get to the ring whole and in    *)
(* order; of those that do not, no byte is received into it twice or too   *)
(* late, and what else is published is at most three bytes in the place of *)
(* a length that came in parts.                                            *)
PrefixedInOrder == P!WholeInOrder /\ P!BytesInOrder /\ P!ReceivedOrStale

(* PrefixStream: every packet gets there.                                  *)
AllArrive == P!AllArrive

(* PrefixStream: a connection that is over is given up.                    *)
NoticesTheEnd == P!NoticesTheEnd

(* Sending: what is sent in one go gets to the peer as it was.             *)
UnhurtIsDelivered == S!UnhurtIsDelivered

(* Sending: no chunk holds up the others.                                  *)
EveryChunkGoes == S!EveryChunkGoes
============================================================================
