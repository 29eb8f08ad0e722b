------------------------------- MODULE Bridge -------------------------------
(***************************************************************************)
(* From the socket to the message that is executed: the two threads and    *)
(* the ring between them.  The main thread runs _lv2_osc_stream_run_udp    *)
(* (stream.h), which moves datagrams from the socket's queue to the ring   *)
(* as long as there are some and the ring grants LV2_OSC_STREAM_REQBUF.    *)
(* The beat thread (Sched) drains the ring in every frame, looking at each *)
(* chunk in place until its messages are dealt with.  The ring is what     *)
(* Fifo says of it; it may refuse whenever it is not empty, since how much *)
(* is free in one piece depends on what is in it.                          *)
(*                                                                         *)
(* A datagram is known by its number until the beat thread reads it; only  *)
(* then does it matter what it holds: any packet of Sched, or none, which  *)
(* stands for one that is neither a bundle nor a message.                  *)
(***************************************************************************)
EXTENDS Sched

CONSTANTS
  QueueSize,     \* datagrams that fit the socket's queue
  RingSize,      \* chunks that fit the ring
  MaxDatagrams   \* bound: datagrams sent in a behaviour

ASSUME SizesAssumption == {QueueSize, RingSize} \subseteq Nat \ {0}
ASSUME DatagramsAssumption == MaxDatagrams \in Nat

VARIABLES
  queue,      \* the socket's queue, datagrams by their numbers
  ring,       \* the chunks in the ring, likewise
  holding,    \* does the beat thread look at the oldest of them?
  osc,        \* where the main thread is: in poll, or in run_udp's loop
  \* history
  sent,       \* how many datagrams were sent
  empty,      \* those that were found to be of length zero
  read,       \* those the beat thread looked at, in that order
  cut,        \* how many had been sent when the program last stopped
  published   \* the last one in the ring when the frame's draining began

path == <<queue, ring, holding, osc, sent, empty, read, cut, published>>
bridge == <<vars, path>>

Datagrams == 1..sent

BridgeTypeOK ==
  /\ TypeOK
  /\ sent \in 0..MaxDatagrams
  /\ queue \in Seq(Datagrams) /\ Len(queue) <= QueueSize
  /\ ring \in Seq(Datagrams) /\ Len(ring) <= RingSize
  /\ holding \in BOOLEAN /\ (holding => pc = "drain" /\ ring # << >>)
  /\ osc \in {"poll", "run"}
  /\ read \in Seq(Datagrams)
  /\ empty \subseteq Datagrams /\ cut \in 0..sent
  /\ published \in 0..sent

BridgeInit ==
  /\ Init
  /\ queue = << >> /\ ring = << >> /\ holding = FALSE /\ osc = "poll"
  /\ sent = 0 /\ empty = {} /\ read = << >> /\ cut = 0 /\ published = 0
-----------------------------------------------------------------------------
(* The network: what the queue has no room for is lost.                    *)
Send ==
  /\ sent < MaxDatagrams
  /\ sent' = sent + 1
  /\ queue' = IF Len(queue) < QueueSize THEN Append(queue, sent') ELSE queue
  /\ UNCHANGED <<vars, ring, holding, osc, empty, read, cut, published>>
-----------------------------------------------------------------------------
(* The main thread: lv2_osc_stream_pollin and _lv2_osc_stream_run_udp *)

(* poll returns as soon as there is something to receive.                  *)
PollIn ==
  /\ osc = "poll" /\ queue # << >>
  /\ osc' = "run"
  /\ UNCHANGED <<vars, queue, ring, holding, sent, empty, read, cut, published>>

(* Faulty: the room in the ring is not asked for.                          *)
GrantedAlways == osc = "run"

Granted == osc = "run" /\ Len(ring) < RingSize

(* Faulty: write_adv is left out when nothing else waits.                  *)
RecvUnpublished ==
  /\ Granted /\ queue # << >>
  /\ ring' = IF Tail(queue) = << >> THEN ring ELSE Append(ring, Head(queue))
  /\ queue' = Tail(queue)
  /\ UNCHANGED <<vars, holding, osc, sent, empty, read, cut, published>>

Recv ==
  /\ Granted /\ queue # << >>
  /\ ring' = Append(ring, Head(queue))
  /\ queue' = Tail(queue)
  /\ UNCHANGED <<vars, holding, osc, sent, empty, read, cut, published>>

(* "peer has shut down": it has not, but the loop ends.                    *)
RecvNothing ==
  /\ Granted /\ queue # << >>
  /\ queue' = Tail(queue)
  /\ empty' = empty \cup {Head(queue)}
  /\ osc' = "poll"
  /\ UNCHANGED <<vars, ring, holding, sent, read, cut, published>>

QueueEmpty ==
  /\ Granted /\ queue = << >>
  /\ osc' = "poll"
  /\ UNCHANGED <<vars, queue, ring, holding, sent, empty, read, cut, published>>

(* write_req returns NULL.                                                 *)
Refused ==
  /\ osc = "run" /\ ring # << >>
  /\ osc' = "poll"
  /\ UNCHANGED <<vars, queue, ring, holding, sent, empty, read, cut, published>>

RunUdp == PollIn \/ Recv \/ RecvNothing \/ QueueEmpty \/ Refused
-----------------------------------------------------------------------------
(* The beat thread *)

(* Faulty: what has just been looked at may be looked at again.            *)
ReadRequestAgain ==
  /\ ring # << >> /\ items = << >>
  /\ \E packet \in Packets \cup {<< >>} : Receive(packet)
  /\ holding' = TRUE
  /\ read' = Append(read, Head(ring))
  /\ Len(read) < 2 * MaxDatagrams
  /\ UNCHANGED <<queue, ring, osc, sent, empty, cut, published>>

ReadRequest ==
  /\ ~holding /\ ring # << >>
  /\ \E packet \in Packets \cup {<< >>} : Receive(packet)
  /\ holding' = TRUE
  /\ read' = Append(read, Head(ring))
  /\ UNCHANGED <<queue, ring, osc, sent, empty, cut, published>>

HandleMessage == Handle /\ UNCHANGED path

ReadAdvance ==
  /\ holding /\ items = << >>
  /\ ring' = Tail(ring) /\ holding' = FALSE
  /\ UNCHANGED <<vars, queue, osc, sent, empty, read, cut, published>>

(* Faulty: one chunk per frame.                                            *)
DrainedOnce ==
  /\ ~holding
  /\ Drained
  /\ UNCHANGED path

RingEmpty ==
  /\ ~holding /\ ring = << >>
  /\ Drained
  /\ UNCHANGED path

ExecuteDue == RunDue /\ UNCHANGED path
ListIsDone == ListDone /\ UNCHANGED path

NextFrame ==
  /\ Frame
  /\ published' = IF ring = << >> THEN 0 ELSE Last(ring)
  /\ UNCHANGED <<queue, ring, holding, osc, sent, empty, read, cut>>

Beat ==
  \/ ReadRequest \/ HandleMessage \/ ReadAdvance \/ RingEmpty
  \/ ExecuteDue \/ ListIsDone \/ NextFrame

(* _loop gives back the socket and the ring as well, and is called again.  *)
StopAll ==
  /\ Stop
  /\ queue' = << >> /\ ring' = << >> /\ osc' = "poll" /\ published' = 0
  /\ cut' = sent
  /\ UNCHANGED <<holding, sent, empty, read>>

BridgeNext == Send \/ RunUdp \/ Beat \/ StopAll

BridgeSpec == BridgeInit /\ [][BridgeNext]_bridge

(* Both threads run.  Nobody has to send.                                  *)
FairBridge == BridgeSpec /\ WF_bridge(RunUdp) /\ WF_bridge(Beat)
-----------------------------------------------------------------------------
(* Properties *)

(* Whatever the threads do to each other, datagrams are handled once each  *)
(* and in the order in which they were sent.                               *)
Order == INSTANCE Line WITH delivered <- read

DatagramsInOrder == Order!Spec

(* A datagram that was queued is handled: it is not lost because the ring  *)
(* was full, nor with another one, an empty one for example, on which the  *)
(* loop gives up.                                                          *)
QueuedIsHandled ==
  \A n \in 1..MaxDatagrams :
    n \in ToSet(queue) ~> (n \in ToSet(read) \/ n \in empty \/ n <= cut)

(* What was in the ring when a frame began is dealt with before the frame  *)
(* is sent.                                                                *)
SameFrame ==
  pc \in {"list", "frame"} => \A n \in ToSet(ring) : n > published

(* The drain loop ends, and frames go on, when the senders pause.          *)
FramesGoOn == []<>(pc = "frame")
=============================================================================
