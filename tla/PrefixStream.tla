--------------------------- MODULE PrefixStream ---------------------------
(***************************************************************************)
(* stream.h: receiving packets behind a length of four bytes, as a TCP     *)
(* server.  _lv2_osc_stream_run_tcp reserves room in the ring, receives    *)
(* the length, receives as many bytes straight into the ring, publishes as *)
(* many as the last recv returned, and starts again until nothing is left  *)
(* to receive or the ring is full.  The length itself is received into a   *)
(* local variable: when only a part of it comes, as many bytes are         *)
(* published of what the ring's memory held before.                        *)
(* Any part of what was sent may arrive.                                   *)
(***************************************************************************)
EXTENDS PrefixFormat

CONSTANT RingSize     \* packets that fit the ring

VARIABLES
  connected,  \* stream->connected
  peer,       \* the other end of stream->fd
  sent,       \* how many packets were sent
  wire,       \* what of them was not received
  arrived,    \* how much of that could be
  pc,         \* which recv is next; "aborted" when an assertion failed
  prefix,     \* the length received, in host byte order
  unread,     \* packets in the ring
  \* history
  taken,      \* everything that was published; see Stale
  cut         \* has a packet ever arrived in part?

vars == <<connected, peer, sent, wire, arrived, pc, prefix, unread, taken, cut>>

TypeOK ==
  /\ connected \in BOOLEAN
  /\ peer \in IF connected THEN {"open", "closed", "reset"} ELSE {"none"}
  /\ sent \in 0..Len(Lengths)
  /\ arrived \in 0..Len(wire)
  /\ pc \in {"prefix", "body", "aborted"}
  /\ prefix \in Nat
  /\ unread \in 0..RingSize /\ unread <= Len(taken)
  /\ cut \in BOOLEAN

Init ==
  /\ connected = TRUE /\ peer = "open"
  /\ sent = 0 /\ wire = << >> /\ arrived = 0
  /\ pc = "prefix" /\ prefix = 0
  /\ unread = 0 /\ taken = << >> /\ cut = FALSE
-----------------------------------------------------------------------------
(* The other end *)

Send ==
  /\ peer = "open" /\ sent < Len(Lengths)
  /\ sent' = sent + 1
  /\ wire' = wire \o Prefix(sent + 1) \o Body(sent + 1)
  /\ UNCHANGED <<connected, peer, arrived, pc, prefix, unread, taken, cut>>

Arrive ==
  /\ connected
  /\ arrived' \in (arrived + 1)..Len(wire)
  /\ cut' = (cut \/ (arrived' < Len(wire) /\ wire[arrived' + 1].at # 1))
  /\ UNCHANGED <<connected, peer, sent, wire, pc, prefix, unread, taken>>

PeerLeave ==
  /\ peer = "open"
  /\ peer' \in {"closed", "reset"}
  /\ UNCHANGED <<connected, sent, wire, arrived, pc, prefix, unread, taken, cut>>
-----------------------------------------------------------------------------
(* _lv2_osc_stream_run_tcp *)

(* write_req grants LV2_OSC_STREAM_REQBUF: the loop is entered.            *)
Granted == connected /\ unread < RingSize

(* recv takes n bytes off the socket.                                      *)
Recv(n) ==
  /\ wire' = SubSeq(wire, n + 1, Len(wire))
  /\ arrived' = arrived - n

(* A byte of the ring's memory that nobody has written since it was        *)
(* granted: 0, or a byte of a packet that was there before.                *)
Stale == Place(0, 0)

(* What recv has put into the ring is published, if it was put there.      *)
(* varchunk_write_advance asserts that written is within the reservation.  *)
Advance(bytes, there) ==
  IF Len(bytes) > Reserved
  THEN pc' = "aborted" /\ UNCHANGED <<unread, taken>>
  ELSE /\ pc' = there
       /\ taken' = Append(taken, bytes)
       /\ unread' = unread + 1

ReadPrefix ==
  /\ pc = "prefix" /\ Granted
  /\ arrived >= PrefixSize
  /\ Recv(PrefixSize)
  /\ prefix' \in IF SubSeq(wire, 1, PrefixSize) = Prefix(wire[1].number)
                 THEN {Lengths[wire[1].number]}
                 ELSE 0..MaxPrefix
  /\ pc' = "body"
  /\ UNCHANGED <<connected, peer, sent, unread, taken, cut>>

(* Fewer than four bytes are neither an error nor a shutdown: they are     *)
(* lost in the local variable, and as many are published.                  *)
ReadPartOfPrefix ==
  /\ pc = "prefix" /\ Granted
  /\ arrived \in 1..(PrefixSize - 1)
  /\ Recv(arrived)
  /\ Advance([i \in 1..arrived |-> Stale], "prefix")
  /\ UNCHANGED <<connected, peer, sent, prefix, cut>>

(* Faulty: 0 is taken for nothing to receive.                              *)
DisconnectOnError ==
  /\ pc = "prefix" /\ Granted
  /\ peer = "reset"
  /\ connected' = FALSE /\ peer' = "none"
  /\ wire' = << >> /\ arrived' = 0
  /\ UNCHANGED <<sent, pc, prefix, unread, taken, cut>>

(* Faulty: the socket is closed but connected stays.                       *)
CloseOnly ==
  /\ pc = "prefix" /\ Granted
  /\ \/ arrived = 0 /\ wire = << >> /\ peer = "closed"
     \/ peer = "reset"
  /\ peer' = "none" /\ wire' = << >> /\ arrived' = 0
  /\ UNCHANGED <<connected, sent, pc, prefix, unread, taken, cut>>

(* recv returned 0 or an error.  (EAGAIN changes nothing.)                 *)
Disconnect ==
  /\ pc = "prefix" /\ Granted
  /\ \/ arrived = 0 /\ wire = << >> /\ peer = "closed"
     \/ peer = "reset"
  /\ connected' = FALSE /\ peer' = "none"
  /\ wire' = << >> /\ arrived' = 0
  /\ UNCHANGED <<sent, pc, prefix, unread, taken, cut>>

(* Faulty: what was received can be received again (MSG_PEEK).             *)
PeekBody ==
  LET n == IF prefix < arrived THEN prefix ELSE arrived IN
  /\ pc = "body" /\ connected
  /\ arrived > 0
  /\ Advance(SubSeq(wire, 1, n), "prefix")
  /\ UNCHANGED <<connected, peer, sent, wire, arrived, prefix, cut>>

(* Faulty: a body is taken to be as long as what has arrived.              *)
ReadAllAsBody ==
  /\ pc = "body" /\ connected
  /\ arrived > 0
  /\ Recv(arrived)
  /\ Advance(SubSeq(wire, 1, arrived), "prefix")
  /\ UNCHANGED <<connected, peer, sent, prefix, cut>>

(* No more than prefix bytes, no more than there are                       *)
ReadBody ==
  LET n == IF prefix < arrived THEN prefix ELSE arrived IN
  /\ pc = "body" /\ connected
  /\ arrived > 0
  /\ Recv(n)
  /\ Advance(SubSeq(wire, 1, n), "prefix")
  /\ UNCHANGED <<connected, peer, sent, prefix, cut>>

(* The peer has closed the connection: recv returns 0, which is published. *)
ReadNoBody ==
  /\ pc = "body" /\ connected
  /\ arrived = 0 /\ wire = << >> /\ peer = "closed"
  /\ Advance(<< >>, "prefix")
  /\ UNCHANGED <<connected, peer, sent, wire, arrived, prefix, cut>>

(* recv returns -1, with EAGAIN or an error, which is more than any        *)
(* reservation when it is passed to write_adv as a size_t.                 *)
ReadBodyTooEarly ==
  /\ pc = "body" /\ connected
  /\ arrived = 0 /\ (peer = "open" \/ peer = "reset" \/ wire # << >>)
  /\ pc' = "aborted"
  /\ UNCHANGED <<connected, peer, sent, wire, arrived, prefix, unread, taken, cut>>

Run ==
  \/ ReadPrefix \/ ReadPartOfPrefix \/ Disconnect
  \/ ReadBody \/ ReadNoBody \/ ReadBodyTooEarly

(* The beat thread *)
Drain ==
  /\ unread > 0 /\ pc # "aborted"
  /\ unread' = unread - 1
  /\ UNCHANGED <<connected, peer, sent, wire, arrived, pc, prefix, taken, cut>>

Next == Send \/ Arrive \/ PeerLeave \/ Run \/ Drain

Spec == Init /\ [][Next]_vars

(* What was sent arrives, main and the beat thread run.                    *)
FairSpec == Spec /\ WF_vars(Arrive) /\ WF_vars(Run) /\ WF_vars(Drain)
-----------------------------------------------------------------------------
(* Properties *)

(* As long as packets arrive whole, however many at once, the ring gets    *)
(* them whole, in order, and none is left out.                             *)
WholeInOrder == ~cut => taken = [n \in 1..Len(taken) |-> Body(n)]

(* Each of them gets there, full as the ring may be: what it has no room   *)
(* for is left on the line.  Unless the connection breaks before.          *)
AllArrive ==
  \A n \in DOMAIN Lengths :
    sent >= n ~> (Len(taken) >= n \/ cut \/ peer \in {"reset", "none"})

(* However the stream is cut, no byte is received into the ring twice, or  *)
(* behind one that was sent after it, the length of a packet included when *)
(* it is mistaken for something else.                                      *)
Sooner(a, b) == a.number < b.number \/ (a.number = b.number /\ a.at < b.at)

BytesInOrder ==
  \A m, n \in DOMAIN taken : \A i \in DOMAIN taken[m], j \in DOMAIN taken[n] :
    /\ m < n \/ (m = n /\ i < j)
    /\ taken[m][i] # Stale /\ taken[n][j] # Stale
    => Sooner(taken[m][i], taken[n][j])

(* What is published is what was received, or, after a length that came in *)
(* parts, fewer than four bytes of which none was received.                *)
ReceivedOrStale ==
  \A n \in DOMAIN taken :
    \/ \A i \in DOMAIN taken[n] : taken[n][i] # Stale
    \/ /\ cut /\ Len(taken[n]) < PrefixSize
       /\ \A i \in DOMAIN taken[n] : taken[n][i] = Stale

(* A connection that is over is given up, wherever its last byte was.      *)
NoticesTheEnd ==
  peer \in {"closed", "reset"} ~> (~connected \/ pc = "aborted")

(* varchunk.h: "fail miserably if stupid programmer tries to write more    *)
(* than rsvd": the receiver never does.                                    *)
NeverAborts == pc # "aborted"
===========================================================================
