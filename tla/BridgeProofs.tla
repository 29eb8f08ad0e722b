---------------------------- MODULE BridgeProofs ----------------------------
(***************************************************************************)
(* Theorems about Bridge, for any size of the queue and of the ring and    *)
(* any number of datagrams: it implements Sched, so that what is proved of *)
(* Sched holds of messages that come through the ring; and it implements   *)
(* Line, because from what was read last, over the ring, to the queue the  *)
(* datagrams stand in the order in which they were sent.                   *)
(***************************************************************************)
EXTENDS Bridge, SchedProofs

Ascending(s) == \A j, k \in 1..Len(s) : j < k => s[j] < s[k]
Above(s, n) == \A k \in 1..Len(s) : n < s[k]

PathTyped ==
  /\ sent \in 0..MaxDatagrams
  /\ queue \in Seq(Datagrams) /\ Len(queue) <= QueueSize
  /\ ring \in Seq(Datagrams) /\ Len(ring) <= RingSize
  /\ holding \in BOOLEAN /\ (holding => pc = "drain" /\ ring # << >>)
  /\ osc \in {"poll", "run"}
  /\ read \in Seq(Datagrams)
  /\ empty \subseteq Datagrams /\ cut \in 0..sent
  /\ published \in 0..sent

(* Each place holds datagrams in order, and older ones than the place      *)
(* before it; the one the beat thread looks at has already been read.      *)
InOrder ==
  /\ Ascending(queue) /\ Ascending(ring)
  /\ \A k \in 1..Len(ring) : Above(queue, ring[k])
  /\ Above(queue, Order!Latest)
  /\ IF holding THEN Head(ring) = Order!Latest ELSE Above(ring, Order!Latest)

(* What came into the ring since the frame began is younger than what was  *)
(* in it, and what was in it is gone when the draining ends.               *)
Younger ==
  /\ Above(queue, published)
  /\ pc # "drain" => Above(ring, published)

PathInv == PathTyped /\ InOrder /\ Younger
-----------------------------------------------------------------------------
(* The rest of an ascending sequence lies above its head.                  *)
LEMMA TailAscends ==
  ASSUME NEW N, N \subseteq Nat, NEW s \in Seq(N), s # << >>, Ascending(s)
  PROVE  /\ Head(s) \in N /\ Tail(s) \in Seq(N) /\ Head(s) = s[1] /\ 1 \in 1..Len(s)
         /\ Len(Tail(s)) = Len(s) - 1
         /\ Ascending(Tail(s)) /\ Above(Tail(s), Head(s))
         /\ \A n : Above(s, n) => Above(Tail(s), n) /\ n < Head(s)
         /\ \A k \in 1..Len(Tail(s)) : k + 1 \in 1..Len(s) /\ Tail(s)[k] = s[k + 1]
<1>1. /\ Head(s) \in N /\ Tail(s) \in Seq(N) /\ Len(Tail(s)) = Len(s) - 1
      /\ \A k \in 1..Len(Tail(s)) : Tail(s)[k] = s[k + 1]
  BY HeadTailProperties
<1>2. Len(s) \in Nat /\ Len(s) >= 1
  BY EmptySeq, LenProperties
<1>3. Head(s) = s[1] /\ 1 \in 1..Len(s)
  BY <1>2
<1>4. \A k \in 1..Len(Tail(s)) :
        k + 1 \in 1..Len(s) /\ 1 < k + 1 /\ Tail(s)[k] = s[k + 1]
  BY <1>1, <1>2
<1>5. Ascending(Tail(s))
  BY <1>4 DEF Ascending
<1>6. Above(Tail(s), Head(s))
  BY <1>3, <1>4 DEF Ascending, Above
<1>7. \A n : Above(s, n) => Above(Tail(s), n) /\ n < Head(s)
  BY <1>3, <1>4 DEF Above
<1>8. QED
  BY <1>1, <1>3, <1>4, <1>5, <1>6, <1>7

(* Something younger than all the rest is put behind it.                   *)
LEMMA AppendAscends ==
  ASSUME NEW N, N \subseteq Nat, NEW s \in Seq(N), NEW e \in N,
         Ascending(s), \A k \in 1..Len(s) : s[k] < e
  PROVE  /\ Append(s, e) \in Seq(N) /\ Len(Append(s, e)) = Len(s) + 1
         /\ Ascending(Append(s, e))
         /\ \A n : Above(s, n) /\ n < e => Above(Append(s, e), n)
         /\ \A k \in 1..Len(Append(s, e)) :
              (k \in 1..Len(s) /\ Append(s, e)[k] = s[k]) \/ Append(s, e)[k] = e
         /\ s # << >> => Head(Append(s, e)) = Head(s)
<1> DEFINE t == Append(s, e)
<1>1. /\ t \in Seq(N) /\ Len(t) = Len(s) + 1 /\ t # << >>
      /\ \A k \in 1..Len(s) : t[k] = s[k]
      /\ t[Len(s) + 1] = e
  BY AppendProperties
<1>2. s # << >> => Head(t) = Head(s)
  BY HeadTailAppend
<1> HIDE DEF t
<1>3. Len(s) \in Nat
  BY LenProperties
<1>4. \A k \in 1..Len(t) : k \in 1..Len(s) \/ k = Len(s) + 1
  BY <1>1, <1>3
<1>5. Ascending(t)
  <2> SUFFICES ASSUME NEW j \in 1..Len(t), NEW k \in 1..Len(t), j < k PROVE t[j] < t[k]
    BY DEF Ascending
  <2>1. j \in 1..Len(s)
    BY <1>1, <1>3
  <2>2. QED
    BY <1>1, <1>4, <2>1 DEF Ascending
<1>6. \A n : Above(s, n) /\ n < e => Above(t, n)
  BY <1>1, <1>4 DEF Above
<1>7. \A k \in 1..Len(t) : (k \in 1..Len(s) /\ t[k] = s[k]) \/ t[k] = e
  BY <1>1, <1>4
<1>8. QED
  BY <1>1, <1>2, <1>5, <1>6, <1>7 DEF t
-----------------------------------------------------------------------------
(* What the main thread and the network do, Sched does not see; of the     *)
(* beat thread's steps it sees all but the end of a chunk, and a chunk     *)
(* without messages.                                                       *)
LEMMA StepsOfSched == [BridgeNext]_bridge => [Next]_vars
<1> SUFFICES ASSUME [BridgeNext]_bridge PROVE [Next]_vars
  OBVIOUS
<1>1. CASE Send
  BY <1>1 DEF Send
<1>2. CASE RunUdp
  BY <1>2 DEF RunUdp, PollIn, Recv, RecvNothing, QueueEmpty, Refused
<1>3. CASE ReadRequest
  <2>1. PICK packet \in Packets \cup {<< >>} : Receive(packet)
    BY <1>3 DEF ReadRequest
  <2>2. CASE packet \in Packets
    BY <2>1, <2>2 DEF Next
  <2>3. CASE packet = << >>
    BY <2>1, <2>3 DEF Receive, vars
  <2>4. QED
    BY <2>2, <2>3
<1>4. CASE ReadAdvance
  BY <1>4 DEF ReadAdvance
<1>5. CASE HandleMessage \/ RingEmpty \/ ExecuteDue \/ ListIsDone \/ NextFrame
  BY <1>5 DEF HandleMessage, RingEmpty, ExecuteDue, ListIsDone, NextFrame, Next, BeatNext
<1>6. CASE StopAll
  BY <1>6 DEF StopAll, Next
<1>7. CASE UNCHANGED bridge
  BY <1>7 DEF bridge
<1>8. QED
  BY <1>1, <1>2, <1>3, <1>4, <1>5, <1>6, <1>7 DEF BridgeNext, Beat

(* The bridge is a way to bring packets to the scheduler.                  *)
THEOREM ImplementsSched == BridgeSpec => Spec
<1>1. BridgeInit => Init
  BY DEF BridgeInit
<1>2. QED
  BY <1>1, StepsOfSched, PTL DEF BridgeSpec, Spec

(* So messages that came through the ring are executed in their place, and *)
(* held up only by earlier ones.                                           *)
THEOREM ExecutedInPlaceBehindTheRing == BridgeSpec => []InItsPlace /\ []Prompt
  BY ImplementsSched, ExecutedInPlace, HeldUpOnlyByEarlier, PTL
-----------------------------------------------------------------------------
(* PathInv holds initially: every place is empty.                          *)
LEMMA InitPath == BridgeInit => PathInv
<1> SUFFICES ASSUME BridgeInit PROVE PathInv
  OBVIOUS
<1>1. QueueSize \in Nat /\ RingSize \in Nat
  BY SizesAssumption
<1>2. PathTyped
  <2>1. 0 \in 0..MaxDatagrams /\ 0 \in 0..0 /\ 0 <= QueueSize /\ 0 <= RingSize
    BY <1>1, DatagramsAssumption
  <2>2. Len(<< >>) = 0 /\ << >> \in Seq(Datagrams)
    BY EmptySeq
  <2>3. QED
    BY <2>1, <2>2 DEF BridgeInit, PathTyped
<1>3. InOrder /\ Younger
  BY DEF BridgeInit, Init, InOrder, Younger, Ascending, Above
<1>4. QED
  BY <1>2, <1>3 DEF PathInv

(* Facts about the three places that every step relies on                  *)
LEMMA PathFacts ==
  ASSUME PathInv
  PROVE  /\ sent \in Nat /\ Datagrams \subseteq Nat /\ \A n \in Datagrams : n <= sent
         /\ published \in Nat /\ published <= sent
         /\ queue \in Seq(Datagrams) /\ ring \in Seq(Datagrams) /\ read \in Seq(Datagrams)
         /\ Len(queue) \in Nat /\ Len(ring) \in Nat
         /\ \A k \in 1..Len(queue) : queue[k] \in Datagrams
         /\ \A k \in 1..Len(ring) : ring[k] \in Datagrams
         /\ Order!Latest \in 0..sent
<1>1. /\ sent \in Nat /\ published \in Nat /\ published <= sent
      /\ queue \in Seq(Datagrams) /\ ring \in Seq(Datagrams) /\ read \in Seq(Datagrams)
  BY DatagramsAssumption DEF PathInv, PathTyped
<1>2. Datagrams \subseteq Nat /\ \A n \in Datagrams : n \in 0..sent
  BY <1>1 DEF Datagrams
<1> DEFINE D == Datagrams
<1> HIDE DEF D
<1>3. /\ Len(queue) \in Nat /\ Len(ring) \in Nat
      /\ \A k \in 1..Len(queue) : queue[k] \in D
      /\ \A k \in 1..Len(ring) : ring[k] \in D
  BY <1>1, LenProperties, ElementOfSeq DEF D
<1>4. Order!Latest \in 0..sent
  <2>1. CASE read = << >>
    BY <1>1, <2>1 DEF Order!Latest
  <2>2. CASE read # << >>
    <3>1. Len(read) \in 1..Len(read)
      BY <1>1, <2>2, EmptySeq, LenProperties
    <3>2. read[Len(read)] \in Datagrams
      BY <1>1, <3>1, ElementOfSeq
    <3>3. QED
      BY <1>2, <2>2, <3>2 DEF Order!Latest
  <2>3. QED
    BY <2>1, <2>2
<1>5. QED
  BY <1>1, <1>2, <1>3, <1>4 DEF D

(* A new datagram is younger than all others.                              *)
LEMMA SendPath == PathInv /\ Send => PathInv'
<1> SUFFICES ASSUME PathInv, Send PROVE PathInv'
  OBVIOUS
<1> DEFINE D == 1..(sent + 1)
<1>1. /\ sent \in Nat /\ Datagrams \subseteq Nat /\ \A n \in Datagrams : n <= sent
      /\ published \in Nat /\ published <= sent
      /\ queue \in Seq(Datagrams) /\ ring \in Seq(Datagrams) /\ read \in Seq(Datagrams)
      /\ Len(queue) \in Nat /\ Len(ring) \in Nat
      /\ \A k \in 1..Len(queue) : queue[k] \in Datagrams
      /\ \A k \in 1..Len(ring) : ring[k] \in Datagrams
      /\ Order!Latest \in 0..sent
  BY PathFacts
<1>2. sent' = sent + 1 /\ sent < MaxDatagrams
  BY DEF Send
<1>3. Datagrams \subseteq D /\ sent + 1 \in D /\ D \subseteq Nat /\ Datagrams' = D
  BY <1>1, <1>2 DEF Datagrams
<1> HIDE DEF D
<1>older. \A n \in Datagrams : n < sent + 1
  BY <1>1 DEF Datagrams
<1>4. queue \in Seq(D) /\ ring \in Seq(D) /\ read \in Seq(D)
  BY <1>1, <1>3, SeqMonotonic
<1>5. UNCHANGED <<pc, ring, holding, osc, empty, read, cut, published>>
  BY DEF Send, vars
<1>6. /\ queue' \in Seq(D) /\ Len(queue') <= QueueSize /\ Ascending(queue')
      /\ \A n : Above(queue, n) /\ n < sent + 1 => Above(queue', n)
  <2>1. CASE Len(queue) < QueueSize
    <3>1. queue' = Append(queue, sent + 1)
      BY <1>2, <2>1 DEF Send
    <3>2. \A k \in 1..Len(queue) : queue[k] < sent + 1
      BY <1>1, <1>older
    <3>3. Ascending(queue)
      BY DEF PathInv, InOrder
    <3>4. /\ Append(queue, sent + 1) \in Seq(D)
          /\ Len(Append(queue, sent + 1)) = Len(queue) + 1
          /\ Ascending(Append(queue, sent + 1))
          /\ \A n : Above(queue, n) /\ n < sent + 1 => Above(Append(queue, sent + 1), n)
      BY <1>3, <1>4, <3>2, <3>3, AppendAscends
    <3>5. Len(queue) + 1 <= QueueSize
      BY <1>1, <2>1, SizesAssumption
    <3>6. QED
      BY <3>1, <3>4, <3>5
  <2>2. CASE ~(Len(queue) < QueueSize)
    BY <1>4, <2>2 DEF Send, PathInv, PathTyped, InOrder
  <2>3. QED
    BY <2>1, <2>2
<1>7. PathTyped'
  <2>1. sent' \in 0..MaxDatagrams /\ cut' \in 0..sent' /\ published' \in 0..sent'
    BY <1>1, <1>2, <1>5, DatagramsAssumption DEF PathInv, PathTyped
  <2>2. empty' \subseteq D
    BY <1>3, <1>5 DEF PathInv, PathTyped
  <2>3. QED
    BY <1>3, <1>4, <1>5, <1>6, <2>1, <2>2 DEF PathInv, PathTyped
<1>8. Order!Latest' = Order!Latest
  BY <1>5 DEF Order!Latest
<1>9. Order!Latest < sent + 1 /\ published < sent + 1
      /\ \A k \in 1..Len(ring) : ring[k] < sent + 1
  <2>1. Order!Latest < sent + 1 /\ published < sent + 1
    BY <1>1
  <2>2. QED
    BY <1>1, <1>older, <2>1
<1>10. InOrder'
  BY <1>5, <1>6, <1>8, <1>9 DEF PathInv, InOrder
<1>11. Younger'
  BY <1>5, <1>6, <1>9 DEF PathInv, Younger
<1>12. QED
  BY <1>7, <1>10, <1>11 DEF PathInv

(* Poll, and the ends of the loop at which nothing was taken               *)
LEMMA IdlePath ==
  ASSUME PathInv, UNCHANGED <<pc, queue, ring, holding, sent, empty, read, cut, published>>,
         osc' \in {"poll", "run"}
  PROVE  PathInv'
<1>1. Order!Latest' = Order!Latest
  BY DEF Order!Latest
<1>2. PathTyped'
  BY DEF PathInv, PathTyped, Datagrams
<1>3. InOrder' /\ Younger'
  BY <1>1 DEF PathInv, InOrder, Younger
<1>4. QED
  BY <1>2, <1>3 DEF PathInv

(* The oldest of the queue is younger than all in the ring.                *)
LEMMA RunUdpPath == PathInv /\ RunUdp => PathInv'
<1> SUFFICES ASSUME PathInv, RunUdp PROVE PathInv'
  OBVIOUS
<1> DEFINE D == Datagrams
<1>1. /\ D \subseteq Nat /\ queue \in Seq(D) /\ ring \in Seq(D) /\ Len(ring) \in Nat
      /\ Ascending(queue) /\ Ascending(ring) /\ Len(queue) \in Nat
  BY PathFacts DEF PathInv, InOrder
<1> HIDE DEF D
<1>2. ASSUME queue # << >>
      PROVE  /\ Head(queue) \in D /\ Head(queue) = queue[1] /\ 1 \in 1..Len(queue)
             /\ Tail(queue) \in Seq(D) /\ Len(Tail(queue)) <= QueueSize
             /\ Ascending(Tail(queue)) /\ Above(Tail(queue), Head(queue))
             /\ \A n : Above(queue, n) => Above(Tail(queue), n) /\ n < Head(queue)
  <2>1. /\ Head(queue) \in D /\ Head(queue) = queue[1] /\ 1 \in 1..Len(queue)
        /\ Tail(queue) \in Seq(D) /\ Len(Tail(queue)) = Len(queue) - 1
        /\ Ascending(Tail(queue)) /\ Above(Tail(queue), Head(queue))
        /\ \A n : Above(queue, n) => Above(Tail(queue), n) /\ n < Head(queue)
    BY <1>1, <1>2, TailAscends
  <2>2. Len(queue) - 1 <= QueueSize
    BY <1>1, SizesAssumption DEF PathInv, PathTyped
  <2>3. QED
    BY <2>1, <2>2
<1>3. CASE PollIn \/ QueueEmpty \/ Refused
  BY <1>3, IdlePath DEF PollIn, QueueEmpty, Refused, vars
<1>4. CASE Recv
  <2>1. /\ queue # << >> /\ queue' = Tail(queue) /\ ring' = Append(ring, Head(queue))
        /\ UNCHANGED <<pc, holding, osc, sent, empty, read, cut, published>>
        /\ Len(ring) < RingSize
    BY <1>4 DEF Recv, Granted, vars
  <2>2. /\ Head(queue) \in D
        /\ Tail(queue) \in Seq(D) /\ Len(Tail(queue)) <= QueueSize
        /\ Ascending(Tail(queue)) /\ Above(Tail(queue), Head(queue))
        /\ \A n : Above(queue, n) => Above(Tail(queue), n) /\ n < Head(queue)
    BY <1>2, <2>1
  <2>3. \A k \in 1..Len(ring) : ring[k] < Head(queue)
    BY <2>2 DEF PathInv, InOrder
  <2>4. /\ ring' \in Seq(D) /\ Len(ring') = Len(ring) + 1 /\ Ascending(ring')
        /\ \A n : Above(ring, n) /\ n < Head(queue) => Above(ring', n)
        /\ \A k \in 1..Len(ring') :
             (k \in 1..Len(ring) /\ ring'[k] = ring[k]) \/ ring'[k] = Head(queue)
        /\ ring # << >> => Head(ring') = Head(ring)
    <3> DEFINE e == Head(queue)
               r == Append(ring, e)
    <3>1. /\ D \subseteq Nat /\ ring \in Seq(D) /\ e \in D /\ Ascending(ring)
          /\ \A k \in 1..Len(ring) : ring[k] < e
      BY <1>1, <2>2, <2>3
    <3>2. ring' = r
      BY <2>1
    <3> HIDE DEF e
    <3>3. /\ r \in Seq(D) /\ Len(r) = Len(ring) + 1 /\ Ascending(r)
          /\ \A n : Above(ring, n) /\ n < e => Above(r, n)
          /\ \A k \in 1..Len(r) : (k \in 1..Len(ring) /\ r[k] = ring[k]) \/ r[k] = e
          /\ ring # << >> => Head(r) = Head(ring)
      BY <3>1, AppendAscends
    <3> HIDE DEF r
    <3>4. QED
      BY <3>2, <3>3 DEF e
  <2>5. Len(ring') <= RingSize /\ ring' # << >>
    <3>1. Len(ring) + 1 <= RingSize /\ Len(ring) + 1 # 0
      BY <1>1, <2>1, SizesAssumption
    <3>2. QED
      BY <2>4, <3>1, EmptySeq
  <2>6. D' = D
    BY <2>1 DEF D, Datagrams
  <2>7. PathTyped'
    BY <2>1, <2>2, <2>4, <2>5, <2>6 DEF PathInv, PathTyped, D
  <2>8. Order!Latest' = Order!Latest
    BY <2>1 DEF Order!Latest
  <2>9. \A k \in 1..Len(ring') : Above(queue', ring'[k])
    BY <2>1, <2>2, <2>4 DEF PathInv, InOrder
  <2>10. Above(queue', Order!Latest) /\ Order!Latest < Head(queue)
    BY <2>1, <2>2 DEF PathInv, InOrder
  <2>11. IF holding THEN Head(ring') = Order!Latest ELSE Above(ring', Order!Latest)
    BY <2>4, <2>10 DEF PathInv, InOrder, PathTyped
  <2>12. InOrder'
    BY <2>1, <2>2, <2>4, <2>8, <2>9, <2>10, <2>11 DEF InOrder
  <2>13. Younger'
    BY <2>1, <2>2, <2>4 DEF PathInv, Younger
  <2>14. QED
    BY <2>7, <2>12, <2>13 DEF PathInv
<1>5. CASE RecvNothing
  <2>1. /\ queue # << >> /\ queue' = Tail(queue) /\ empty' = empty \cup {Head(queue)}
        /\ UNCHANGED <<pc, ring, holding, sent, read, cut, published>> /\ osc' = "poll"
    BY <1>5 DEF RecvNothing, vars
  <2>2. /\ Head(queue) \in D
        /\ Tail(queue) \in Seq(D) /\ Len(Tail(queue)) <= QueueSize
        /\ Ascending(Tail(queue))
        /\ \A n : Above(queue, n) => Above(Tail(queue), n)
    BY <1>2, <2>1
  <2>3. D' = D /\ Order!Latest' = Order!Latest
    BY <2>1 DEF D, Datagrams, Order!Latest
  <2>4. PathTyped'
    BY <2>1, <2>2, <2>3 DEF PathInv, PathTyped, D
  <2>5. InOrder' /\ Younger'
    BY <2>1, <2>2, <2>3 DEF PathInv, InOrder, Younger
  <2>6. QED
    BY <2>4, <2>5 DEF PathInv
<1>6. QED
  BY <1>3, <1>4, <1>5 DEF RunUdp
(* What the beat thread looks at is the oldest in the ring, and has been   *)
(* looked at when it is given back.                                        *)
LEMMA BeatPath == PathInv /\ Beat => PathInv'
<1> SUFFICES ASSUME PathInv, Beat PROVE PathInv'
  OBVIOUS
<1> DEFINE D == Datagrams
<1>1. /\ D \subseteq Nat /\ queue \in Seq(D) /\ ring \in Seq(D) /\ read \in Seq(D)
      /\ Len(ring) \in Nat /\ Ascending(ring)
      /\ \A k \in 1..Len(ring) : ring[k] \in D
      /\ published \in Nat /\ sent \in Nat /\ \A n \in D : n <= sent
  BY PathFacts DEF PathInv, InOrder
<1> HIDE DEF D
<1>2. ASSUME ring # << >>
      PROVE  /\ Head(ring) \in D /\ Head(ring) = ring[1] /\ 1 \in 1..Len(ring)
             /\ Tail(ring) \in Seq(D) /\ Len(Tail(ring)) = Len(ring) - 1
             /\ Ascending(Tail(ring)) /\ Above(Tail(ring), Head(ring))
             /\ \A k \in 1..Len(Tail(ring)) :
                  k + 1 \in 1..Len(ring) /\ Tail(ring)[k] = ring[k + 1]
             /\ \A n : Above(ring, n) => Above(Tail(ring), n)
  BY <1>1, <1>2, TailAscends
<1>3. CASE ReadRequest
  <2>1. /\ ~holding /\ ring # << >> /\ holding' = TRUE /\ read' = Append(read, Head(ring))
        /\ UNCHANGED <<queue, ring, osc, sent, empty, cut, published>>
        /\ pc = "drain" /\ pc' = "drain"
    BY <1>3 DEF ReadRequest, Receive
  <2>2. Head(ring) \in D /\ Head(ring) = ring[1] /\ 1 \in 1..Len(ring)
    BY <1>2, <2>1
  <2>3. D' = D
    BY <2>1 DEF D, Datagrams
  <2>4. /\ read' \in Seq(D) /\ read' # << >> /\ Len(read') = Len(read) + 1
        /\ read'[Len(read) + 1] = Head(ring)
    BY <1>1, <2>1, <2>2, AppendProperties
  <2>5. Order!Latest' = Head(ring)
    BY <2>4 DEF Order!Latest
  <2>6. PathTyped'
    BY <2>1, <2>3, <2>4 DEF PathInv, PathTyped, D
  <2>7. InOrder'
    BY <2>1, <2>2, <2>5 DEF PathInv, InOrder
  <2>8. Younger'
    BY <2>1 DEF PathInv, Younger
  <2>9. QED
    BY <2>6, <2>7, <2>8 DEF PathInv
<1>4. CASE ReadAdvance
  <2>1. /\ holding /\ ring # << >> /\ ring' = Tail(ring) /\ holding' = FALSE
        /\ UNCHANGED <<pc, queue, osc, sent, empty, read, cut, published>>
    BY <1>4 DEF ReadAdvance, vars, PathInv, PathTyped
  <2>2. /\ Tail(ring) \in Seq(D) /\ Len(Tail(ring)) = Len(ring) - 1
        /\ Ascending(Tail(ring)) /\ Above(Tail(ring), Head(ring))
        /\ \A k \in 1..Len(Tail(ring)) :
             k + 1 \in 1..Len(ring) /\ Tail(ring)[k] = ring[k + 1]
        /\ \A n : Above(ring, n) => Above(Tail(ring), n)
    BY <1>2, <2>1
  <2>3. Len(ring') <= RingSize
    BY <1>1, <2>1, <2>2, SizesAssumption DEF PathInv, PathTyped
  <2>4. D' = D /\ Order!Latest' = Order!Latest /\ Head(ring) = Order!Latest
    BY <2>1 DEF D, Datagrams, Order!Latest, PathInv, InOrder
  <2>5. PathTyped'
    BY <2>1, <2>2, <2>3, <2>4 DEF PathInv, PathTyped, D
  <2>6. InOrder'
    BY <2>1, <2>2, <2>4 DEF PathInv, InOrder
  <2>7. Younger'
    BY <2>1, <2>2 DEF PathInv, Younger
  <2>8. QED
    BY <2>5, <2>6, <2>7 DEF PathInv
<1>5. CASE HandleMessage \/ ExecuteDue \/ ListIsDone
  <2>1. UNCHANGED path /\ (pc' = pc \/ (pc = "list" /\ pc' = "frame"))
    BY <1>5 DEF HandleMessage, Handle, ExecuteDue, RunDue, ListIsDone, ListDone
  <2>2. UNCHANGED <<queue, ring, holding, osc, sent, empty, read, cut, published>>
    BY <2>1 DEF path
  <2>3. Order!Latest' = Order!Latest
    BY <2>2 DEF Order!Latest
  <2>4. PathTyped' /\ Younger'
    BY <2>1, <2>2 DEF PathInv, PathTyped, Younger, Datagrams
  <2>5. InOrder'
    BY <2>2, <2>3 DEF PathInv, InOrder
  <2>6. QED
    BY <2>4, <2>5 DEF PathInv
<1>6. CASE RingEmpty
  <2>1. ~holding /\ ring = << >> /\ UNCHANGED path
    BY <1>6 DEF RingEmpty
  <2>2. UNCHANGED <<queue, ring, holding, osc, sent, empty, read, cut, published>>
    BY <2>1 DEF path
  <2>3. Order!Latest' = Order!Latest
    BY <2>2 DEF Order!Latest
  <2>4. PathTyped' /\ Younger'
    BY <2>1, <2>2 DEF PathInv, PathTyped, Younger, Above, Datagrams
  <2>5. InOrder'
    BY <2>2, <2>3 DEF PathInv, InOrder
  <2>6. QED
    BY <2>4, <2>5 DEF PathInv
<1>7. CASE NextFrame
  <2>1. /\ pc' = "drain" /\ pc = "frame"
        /\ UNCHANGED <<queue, ring, holding, osc, sent, empty, read, cut>>
        /\ published' = IF ring = << >> THEN 0 ELSE Last(ring)
    BY <1>7 DEF NextFrame, Frame
  <2>2. Order!Latest' = Order!Latest
    BY <2>1 DEF Order!Latest
  <2>3. published' \in 0..sent /\ Above(queue, published')
    <3>1. CASE ring = << >>
      <4>1. \A k \in 1..Len(queue) : queue[k] > 0
        <5>1. \A k \in 1..Len(queue) : queue[k] \in D
          BY <1>1, ElementOfSeq
        <5>2. QED
          BY <5>1 DEF D, Datagrams
      <4>2. QED
        BY <1>1, <2>1, <3>1, <4>1 DEF Above
    <3>2. CASE ring # << >>
      <4>1. Len(ring) \in 1..Len(ring)
        BY <1>1, <1>2, <3>2
      <4>2. published' = ring[Len(ring)]
        BY <2>1, <3>2 DEF Last
      <4>3. published' \in D /\ Above(queue, published')
        BY <1>1, <4>1, <4>2 DEF PathInv, InOrder
      <4>4. QED
        BY <1>1, <4>3
    <3>3. QED
      BY <3>1, <3>2
  <2>4. PathTyped'
    BY <2>1, <2>3 DEF PathInv, PathTyped, Datagrams
  <2>5. InOrder'
    BY <2>1, <2>2 DEF PathInv, InOrder
  <2>6. Younger'
    BY <2>1, <2>3 DEF Younger
  <2>7. QED
    BY <2>4, <2>5, <2>6 DEF PathInv
<1>8. QED
  BY <1>3, <1>4, <1>5, <1>6, <1>7 DEF Beat

(* A stop empties the queue and the ring.                                  *)
LEMMA StopPath == PathInv /\ StopAll => PathInv'
<1> SUFFICES ASSUME PathInv, StopAll PROVE PathInv'
  OBVIOUS
<1>1. /\ pc = "frame" /\ pc' = "drain" /\ UNCHANGED <<holding, sent, empty, read>>
      /\ queue' = << >> /\ ring' = << >> /\ osc' = "poll" /\ published' = 0 /\ cut' = sent
  BY DEF StopAll, Stop
<1>2. ~holding
  BY <1>1 DEF PathInv, PathTyped
<1>3. sent \in Nat
  BY PathFacts
<1>4. 0 <= QueueSize /\ 0 <= RingSize /\ sent \in 0..sent /\ 0 \in 0..sent
  BY <1>3, SizesAssumption
<1>5. << >> \in Seq(Datagrams) /\ Len(<< >>) = 0
  BY EmptySeq
<1>6. PathTyped'
  BY <1>1, <1>2, <1>4, <1>5 DEF PathInv, PathTyped, Datagrams
<1>7. InOrder' /\ Younger'
  BY <1>1, <1>2, <1>5 DEF InOrder, Younger, Ascending, Above
<1>8. QED
  BY <1>6, <1>7 DEF PathInv

(* Every step, and every stutter, keeps PathInv.                           *)
LEMMA NextPath == PathInv /\ [BridgeNext]_bridge => PathInv'
<1> SUFFICES ASSUME PathInv, [BridgeNext]_bridge PROVE PathInv'
  OBVIOUS
<1>1. CASE UNCHANGED bridge
  <2>1. UNCHANGED <<pc, queue, ring, holding, osc, sent, empty, read, cut, published>>
    BY <1>1 DEF bridge, vars, path
  <2>2. QED
    BY <2>1, IdlePath DEF PathInv, PathTyped
<1>2. QED
  BY <1>1, SendPath, RunUdpPath, BeatPath, StopPath DEF BridgeNext

(* What is in the queue, in the ring and read, and in which order          *)
THEOREM BridgeInvariant == BridgeSpec => []PathInv
  BY InitPath, NextPath, PTL DEF BridgeSpec

(* Places keep to their sizes; a chunk is only held while draining.        *)
THEOREM BridgeTyped == BridgeSpec => []BridgeTypeOK
<1>1. PathInv /\ IInv => BridgeTypeOK
  BY DEF PathInv, PathTyped, IInv, BridgeTypeOK
<1>2. QED
  BY <1>1, BridgeInvariant, ImplementsSched, SchedInvariant, PTL

(* What was in the ring when a frame began is dealt with in that frame.    *)
THEOREM DrainedInTheFrame == BridgeSpec => []SameFrame
<1>1. PathInv => SameFrame
  <2> SUFFICES ASSUME PathInv, pc \in {"list", "frame"}, NEW n \in ToSet(ring)
               PROVE  n > published
    BY DEF SameFrame
  <2>1. PICK k \in 1..Len(ring) : n = ring[k]
    BY PathFacts, LenProperties DEF ToSet
  <2>2. published < ring[k]
    BY DEF PathInv, Younger, Above
  <2>3. QED
    BY <2>1, <2>2
<1>2. QED
  BY <1>1, BridgeInvariant, PTL

(* The bridge implements Line: datagrams are read in the order in which    *)
(* they were sent, each at most once.                                      *)
THEOREM ReadInOrder == BridgeSpec => DatagramsInOrder
<1>1. BridgeInit => Order!Init
  BY DEF BridgeInit, Order!Init
<1>2. PathInv /\ [BridgeNext]_bridge => [Order!Next]_(Order!vars)
  <2> SUFFICES ASSUME PathInv, [BridgeNext]_bridge PROVE [Order!Next]_(Order!vars)
    OBVIOUS
  <2>1. CASE Send
    BY <2>1 DEF Send, Order!Next, Order!Send
  <2>2. CASE ReadRequest
    <3>1. ~holding /\ ring # << >> /\ read' = Append(read, Head(ring)) /\ UNCHANGED sent
      BY <2>2 DEF ReadRequest
    <3>2. Head(ring) = ring[1] /\ 1 \in 1..Len(ring)
      BY <3>1, PathFacts
    <3>3. Order!Latest < Head(ring)
      BY <3>1, <3>2 DEF PathInv, InOrder, Above
    <3>4. Head(ring) \in Datagrams /\ Order!Latest \in 0..sent /\ sent \in Nat
      BY <3>2, PathFacts
    <3>5. Head(ring) \in (Order!Latest + 1)..sent
      BY <3>3, <3>4 DEF Datagrams
    <3>6. QED
      BY <3>1, <3>5 DEF Order!Next, Order!Deliver
  <2>3. CASE RunUdp
    BY <2>3 DEF RunUdp, PollIn, Recv, RecvNothing, QueueEmpty, Refused, Order!vars
  <2>4. CASE ReadAdvance \/ HandleMessage \/ RingEmpty \/ ExecuteDue \/ ListIsDone
    BY <2>4 DEF ReadAdvance, HandleMessage, RingEmpty, ExecuteDue, ListIsDone, path, Order!vars
  <2>5. CASE NextFrame \/ StopAll
    BY <2>5 DEF NextFrame, StopAll, Order!vars
  <2>6. CASE UNCHANGED bridge
    BY <2>6 DEF bridge, path, Order!vars
  <2>7. QED
    BY <2>1, <2>2, <2>3, <2>4, <2>5, <2>6 DEF BridgeNext, Beat
<1>3. QED
  BY <1>1, <1>2, BridgeInvariant, PTL DEF BridgeSpec, DatagramsInOrder, Order!Spec
============================================================================
