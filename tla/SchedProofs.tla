---------------------------- MODULE SchedProofs ----------------------------
(***************************************************************************)
(* Theorems about Sched: messages are executed where they belong, for      *)
(* every frame rate, every packet and any number of messages and stops.    *)
(* What they rest on is that app->list is always in order of arrival.      *)
(***************************************************************************)
EXTENDS Sched, SequenceTheorems, TLAPS

(* The list is in order of arrival.                                        *)
Arrival ==
  \A j, k \in 1..Len(list) : j < k => list[j].number < list[k].number

(* What is on it has a timetag, at whose second it is due, and has been    *)
(* neither executed nor given up.                                          *)
Listed(i) == \E k \in 1..Len(list) : list[k].number = i

Scheduled ==
  \A k \in 1..Len(list) :
    /\ given[list[k].number] # Immediate
    /\ list[k].to = Seconds(given[list[k].number])
    /\ ~HasRun(list[k].number) /\ list[k].number \notin lost

(* What has been handled was executed, was given up, or is on the list.    *)
Accounted == \A i \in Numbers : HasRun(i) \/ i \in lost \/ Listed(i)

RanKnown == \A k \in 1..Len(ran) : ran[k].number \in Numbers

IInv ==
  /\ TypeOK /\ Arrival /\ Scheduled /\ Accounted /\ RanKnown
  /\ InItsSecond /\ KeepsOrder
-----------------------------------------------------------------------------
(* An element is inserted behind the last one.                             *)
LEMMA InsertAtEnd ==
  ASSUME NEW S, NEW s \in Seq(S), NEW e \in S
  PROVE  InsertAt(s, Len(s) + 1, e) = Append(s, e)
<1>1. Len(s) \in Nat
  BY LenProperties
<1>2. SubSeq(s, 1, (Len(s) + 1) - 1) = s
  <2>1. (Len(s) + 1) - 1 = Len(s)
    BY <1>1
  <2>2. QED
    BY <2>1, SubSeqFull
<1>3. SubSeq(s, Len(s) + 1, Len(s)) = << >>
  BY <1>1, SubSeqEmpty
<1>4. s \o <<e>> = Append(s, e)
  BY AppendIsConcat
<1>5. Append(s, e) \o << >> = Append(s, e)
  BY AppendProperties, ConcatEmptySeq
<1>6. QED
  BY <1>2, <1>3, <1>4, <1>5, Zenon DEF InsertAt

(* _sched_append, which is to keep the list sorted, appends: both fields   *)
(* of the time would have to be later, and tv_nsec is always 0.            *)
THEOREM AppendsAlways ==
  ASSUME NEW S, NEW elmnts \in Seq(S), NEW elmnt \in S
  PROVE  sched_append(elmnts, elmnt) = Append(elmnts, elmnt)
<1>1. {k \in 1..Len(elmnts) : Later(elmnts[k], elmnt)} = {}
  BY DEF Later, Nanoseconds
<1>2. QED
  BY <1>1, InsertAtEnd, Zenon DEF sched_append

(* The whole seconds of a timetag are a time up to it.                     *)
LEMMA SecondsTime ==
  ASSUME NEW timetag \in Timetags
  PROVE  Seconds(timetag) \in Timetags
<1>1. timetag \in Nat /\ Fps \in Nat /\ Fps > 0 /\ Horizon \in Nat /\ timetag <= Horizon
  BY FpsAssumption, HorizonAssumption DEF Timetags
<1> DEFINE q == timetag \div Fps
<1>2. q \in Nat /\ q * Fps + (timetag % Fps) = timetag /\ timetag % Fps \in Nat
  BY <1>1
<1>3. q * Fps \in Nat
  BY <1>1, <1>2
<1> HIDE DEF q
<1>4. q * Fps <= timetag
  BY <1>1, <1>2, <1>3
<1>5. q * Fps \in Timetags
  BY <1>1, <1>3, <1>4 DEF Timetags
<1>6. QED
  BY <1>5, Zenon DEF Seconds, q
-----------------------------------------------------------------------------
(* IInv holds initially: nothing has come.                                 *)
LEMMA InitIInv == Init => IInv
<1> SUFFICES ASSUME Init PROVE IInv
  OBVIOUS
<1>1. 0 \in Timetags /\ 0 \in 0..MaxStops
  BY HorizonAssumption, BoundsAssumption DEF Timetags
<1>2. TypeOK
  BY <1>1 DEF Init, TypeOK
<1>3. Arrival /\ Scheduled /\ Accounted /\ RanKnown /\ InItsSecond /\ KeepsOrder
  BY DEF Init, Arrival, Scheduled, Accounted, RanKnown, InItsSecond, KeepsOrder, Numbers
<1>4. QED
  BY <1>2, <1>3 DEF IInv

(* Executing a message that has not been executed, whose second has come,  *)
(* and before which all under the same timetag were executed or given up.  *)
LEMMA RunKeeps ==
  ASSUME IInv, NEW n \in Numbers', Run(n), ~HasRun(n), UNCHANGED lost,
         \A i \in Numbers : i \in Numbers' /\ given'[i] = given[i],
         \A i \in Numbers' : i \notin Numbers => \A j \in Numbers : j < i,
         given'[n] # Immediate => to >= Seconds(given'[n]),
         \A i \in Numbers' :
           i < n /\ given'[i] = given'[n] /\ i \notin lost => HasRun(i)
  PROVE  /\ ran' \in Seq(RanAt) /\ RanKnown' /\ InItsSecond' /\ KeepsOrder'
         /\ \A i : HasRun(i)' <=> HasRun(i) \/ i = n
<1> DEFINE r == [number |-> n, at |-> to]
<1>1. ran \in Seq(RanAt) /\ given \in Seq(Timetags \cup {Immediate}) /\ to \in Timetags
  BY DEF IInv, TypeOK
<1>2. n \in Nat \ {0}
  BY DEF Numbers
<1>3. r \in RanAt
  BY <1>1, <1>2 DEF RanAt
<1>4. ran' = Append(ran, r)
  BY DEF Run
<1>5. Len(ran) \in Nat
  BY <1>1, LenProperties
<1>6. /\ ran' \in Seq(RanAt) /\ Len(ran') = Len(ran) + 1
      /\ \A k \in 1..Len(ran) : ran'[k] = ran[k]
      /\ ran'[Len(ran) + 1] = r
  BY <1>1, <1>3, <1>4, AppendProperties
<1>7. r.number = n /\ r.at = to
  OBVIOUS
<1> HIDE DEF r
<1>8. \A k \in 1..Len(ran') : k \in 1..Len(ran) \/ k = Len(ran) + 1
  BY <1>5, <1>6
<1>9. \A k \in 1..Len(ran) : k \in 1..Len(ran')
  BY <1>5, <1>6
<1>10. Len(ran) + 1 \in 1..Len(ran')
  BY <1>5, <1>6
<1>11. \A k \in 1..Len(ran) : ran[k].number \in Numbers /\ ran[k].number # n
  BY DEF IInv, RanKnown, HasRun
<1>12. RanKnown'
  BY <1>6, <1>7, <1>8, <1>11 DEF RanKnown
<1>13. InItsSecond'
  <2>1. \A j, k \in 1..Len(ran') : ran'[j].number = ran'[k].number => j = k
    BY <1>6, <1>7, <1>8, <1>11 DEF IInv, InItsSecond
  <2>2. ASSUME NEW k \in 1..Len(ran'), given'[ran'[k].number] # Immediate
        PROVE  ran'[k].at >= Seconds(given'[ran'[k].number])
    <3>1. CASE k = Len(ran) + 1
      BY <2>2, <3>1, <1>6, <1>7
    <3>2. CASE k \in 1..Len(ran)
      <4>1. ran'[k] = ran[k] /\ given'[ran[k].number] = given[ran[k].number]
        BY <3>2, <1>6, <1>11
      <4>2. given[ran[k].number] # Immediate
        BY <2>2, <4>1
      <4>3. ran[k].at >= Seconds(given[ran[k].number])
        BY <3>2, <4>2 DEF IInv, InItsSecond
      <4>4. QED
        BY <4>1, <4>3
    <3>3. QED
      BY <3>1, <3>2, <1>8
  <2>3. QED
    BY <2>1, <2>2 DEF InItsSecond
<1>14. KeepsOrder'
  <2> SUFFICES ASSUME NEW k \in 1..Len(ran'), NEW i \in Numbers',
                      i < ran'[k].number, given'[i] = given'[ran'[k].number], i \notin lost
               PROVE  \E j \in 1..(k - 1) : ran'[j].number = i
    BY DEF KeepsOrder
  <2>1. CASE k = Len(ran) + 1
    <3>1. HasRun(i)
      BY <2>1, <1>6, <1>7
    <3>2. PICK j \in 1..Len(ran) : ran[j].number = i
      BY <3>1 DEF HasRun
    <3>3. j \in 1..(k - 1)
      BY <2>1, <1>5
    <3>4. QED
      BY <3>2, <3>3, <1>6
  <2>2. CASE k \in 1..Len(ran)
    <3>1. ran'[k] = ran[k] /\ ran[k].number \in Numbers
      BY <2>2, <1>6, <1>11
    <3>2. i \in Numbers
      <4>1. SUFFICES ASSUME i \notin Numbers PROVE FALSE
        OBVIOUS
      <4>2. ran[k].number < i
        BY <3>1, <4>1
      <4>3. i \in Nat /\ ran[k].number \in Nat
        BY <3>1, <1>1, LenProperties DEF Numbers
      <4>4. QED
        BY <3>1, <4>2, <4>3
    <3>3. given[i] = given[ran[k].number]
      BY <3>1, <3>2
    <3>4. PICK j \in 1..(k - 1) : ran[j].number = i
      BY <2>2, <3>1, <3>2, <3>3 DEF IInv, KeepsOrder
    <3>5. j \in 1..Len(ran)
      BY <2>2, <1>5
    <3>6. QED
      BY <3>4, <3>5, <1>6
  <2>3. QED
    BY <2>1, <2>2, <1>8
<1>15. \A i : HasRun(i)' <=> HasRun(i) \/ i = n
  BY <1>6, <1>7, <1>8, <1>9, <1>10 DEF HasRun
<1>16. QED
  BY <1>6, <1>12, <1>13, <1>14, <1>15
-----------------------------------------------------------------------------
(* A step that leaves the list and what is known of messages alone.        *)
LEMMA IdleKeeps ==
  ASSUME IInv, TypeOK', UNCHANGED <<list, given, ran, lost>>
  PROVE  IInv'
<1>1. Arrival' /\ Scheduled' /\ Accounted' /\ RanKnown'
  BY DEF IInv, Arrival, Scheduled, Accounted, RanKnown, HasRun, Listed, Numbers
<1>2. InItsSecond' /\ KeepsOrder'
  BY DEF IInv, InItsSecond, KeepsOrder, Numbers
<1>3. QED
  BY <1>1, <1>2 DEF IInv

LEMMA ReceiveIInv == IInv /\ (\E packet \in Packets : Receive(packet)) => IInv'
<1> SUFFICES ASSUME IInv, NEW packet \in Packets, Receive(packet) PROVE IInv'
  OBVIOUS
<1>1. TypeOK'
  BY PacketsAssumption DEF IInv, TypeOK, Receive, Numbers
<1>2. QED
  BY <1>1, IdleKeeps DEF Receive

LEMMA DrainedIInv == IInv /\ Drained => IInv'
<1> SUFFICES ASSUME IInv, Drained PROVE IInv'
  OBVIOUS
<1>1. TypeOK'
  BY DEF IInv, TypeOK, Drained, Numbers
<1>2. QED
  BY <1>1, IdleKeeps DEF Drained

LEMMA ListDoneIInv == IInv /\ ListDone => IInv'
<1> SUFFICES ASSUME IInv, ListDone PROVE IInv'
  OBVIOUS
<1>1. TypeOK'
  BY DEF IInv, TypeOK, ListDone, Numbers
<1>2. QED
  BY <1>1, IdleKeeps DEF ListDone

LEMMA FrameIInv == IInv /\ Frame => IInv'
<1> SUFFICES ASSUME IInv, Frame PROVE IInv'
  OBVIOUS
<1>1. to' \in Timetags
  BY HorizonAssumption DEF IInv, TypeOK, Frame, Timetags
<1>2. TypeOK'
  BY <1>1 DEF IInv, TypeOK, Frame, Numbers
<1>3. QED
  BY <1>2, IdleKeeps DEF Frame

(* The messages on the list are given up.                                  *)
LEMMA StopIInv == IInv /\ Stop => IInv'
<1> SUFFICES ASSUME IInv, Stop PROVE IInv'
  OBVIOUS
<1> DEFINE E == [to : Timetags, number : Numbers]
<1>1. list \in Seq(E) /\ lost \subseteq Numbers
  BY DEF IInv, TypeOK
<1>2. \A k \in 1..Len(list) : list[k].number \in Numbers
  <2>1. \A k \in 1..Len(list) : list[k] \in E
    <3> HIDE DEF E
    <3> QED
      BY <1>1, ElementOfSeq
  <2>2. QED
    BY <2>1
<1>3. stops' \in 0..MaxStops
  BY BoundsAssumption DEF IInv, TypeOK, Stop
<1>4. lost' \subseteq Numbers
  BY <1>1, <1>2 DEF Stop
<1>5. TypeOK'
  BY <1>3, <1>4 DEF IInv, TypeOK, Stop, Numbers
<1>6. Arrival' /\ Scheduled'
  BY DEF Stop, Arrival, Scheduled
<1>7. Accounted' /\ RanKnown'
  BY DEF IInv, Stop, Accounted, Listed, RanKnown, HasRun, Numbers
<1>8. InItsSecond' /\ KeepsOrder'
  BY DEF IInv, Stop, InItsSecond, KeepsOrder, Numbers
<1>9. QED
  BY <1>5, <1>6, <1>7, <1>8 DEF IInv

(* The first on the list is the first that came of all on it.              *)
LEMMA RunDueIInv == IInv /\ RunDue => IInv'
<1> SUFFICES ASSUME IInv, RunDue PROVE IInv'
  OBVIOUS
<1> DEFINE n == Head(list).number
<1> DEFINE E == [to : Timetags, number : Numbers]
<1>1. list \in Seq(E) /\ list # << >> /\ to >= Head(list).to
  BY DEF IInv, TypeOK, RunDue, Due
<1> HIDE DEF E
<1>2. /\ Tail(list) \in Seq(E) /\ Len(Tail(list)) = Len(list) - 1
      /\ \A k \in 1..Len(Tail(list)) : Tail(list)[k] = list[k + 1]
  BY <1>1, HeadTailProperties
<1>3. Len(list) \in Nat /\ Len(list) >= 1
  BY <1>1, EmptySeq, LenProperties
<1>4. 1 \in 1..Len(list) /\ Head(list) = list[1]
  BY <1>1, <1>3
<1>5. list[1] \in E
  BY <1>1, <1>4, ElementOfSeq
<1>6. n \in Numbers
  BY <1>4, <1>5 DEF E
<1>7. ~HasRun(n) /\ given[n] # Immediate /\ to >= Seconds(given[n])
  BY <1>1, <1>4 DEF IInv, Scheduled
<1>8. list' = Tail(list) /\ Run(n) /\ UNCHANGED <<given, lost, pc, to, items, stops>>
  BY DEF RunDue
<1>9. Numbers' = Numbers
  BY <1>8 DEF Numbers
<1>10. \A k \in 1..Len(list) : k # 1 => list[1].number < list[k].number
  BY <1>3, <1>4 DEF IInv, Arrival
<1>11. ASSUME NEW i \in Numbers, i < n, given[i] = given[n], i \notin lost
       PROVE  HasRun(i)
  <2>1. SUFFICES ASSUME Listed(i) PROVE FALSE
    BY <1>11 DEF IInv, Accounted
  <2>2. PICK k \in 1..Len(list) : list[k].number = i
    BY <2>1 DEF Listed
  <2>3. n \in Int /\ i \in Int
    BY <1>6 DEF Numbers
  <2>4. QED
    BY <1>4, <1>10, <1>11, <2>2, <2>3
<1> HIDE DEF n
<1>12. /\ ran' \in Seq(RanAt) /\ RanKnown' /\ InItsSecond' /\ KeepsOrder'
       /\ \A i : HasRun(i)' <=> HasRun(i) \/ i = n
  BY <1>6, <1>7, <1>8, <1>9, <1>11, RunKeeps
<1>13. TypeOK'
  <2>1. list' \in Seq([to : Timetags, number : Numbers'])
    BY <1>2, <1>8, <1>9 DEF E
  <2>2. QED
    BY <2>1, <1>8, <1>9, <1>12 DEF IInv, TypeOK
<1>14. \A k \in 1..Len(list') : k + 1 \in 1..Len(list) /\ k + 1 # 1 /\ list'[k] = list[k + 1]
  BY <1>2, <1>3, <1>8
<1>15. Arrival'
  BY <1>14 DEF IInv, Arrival
<1>16. Scheduled'
  <2> SUFFICES ASSUME NEW k \in 1..Len(list'), NEW i, i = list'[k].number
               PROVE  /\ given[i] # Immediate /\ list'[k].to = Seconds(given[i])
                      /\ ~HasRun(i)' /\ i \notin lost
    BY <1>8 DEF Scheduled, HasRun
  <2>1. i # n
    <3>1. list[1].number < i
      BY <1>10, <1>14
    <3>2. list[1].number \in Int
      BY <1>5 DEF E, Numbers
    <3>3. QED
      BY <1>4, <3>1, <3>2 DEF n
  <2>2. /\ given[i] # Immediate /\ list'[k].to = Seconds(given[i])
        /\ ~HasRun(i) /\ i \notin lost
    BY <1>14 DEF IInv, Scheduled
  <2>3. QED
    BY <1>12, <2>1, <2>2
<1>17. Accounted'
  <2> SUFFICES ASSUME NEW i \in Numbers PROVE HasRun(i)' \/ i \in lost \/ Listed(i)'
    BY <1>8, <1>9 DEF Accounted
  <2>1. CASE Listed(i)
    <3>1. PICK k \in 1..Len(list) : list[k].number = i
      BY <2>1 DEF Listed
    <3>2. CASE k = 1
      BY <1>4, <1>12, <3>1, <3>2 DEF n
    <3>3. CASE k # 1
      <4>1. k - 1 \in 1..Len(list') /\ list'[k - 1] = list[k]
        BY <1>2, <1>3, <1>8, <3>3
      <4>2. QED
        BY <3>1, <4>1 DEF Listed
    <3>4. QED
      BY <3>2, <3>3
  <2>2. QED
    BY <2>1, <1>12 DEF IInv, Accounted
<1>18. QED
  BY <1>12, <1>13, <1>15, <1>16, <1>17 DEF IInv
-----------------------------------------------------------------------------
(* Handling a message: what is known of it beforehand                      *)
LEMMA Handled ==
  ASSUME IInv, Handle, NEW n, n = Len(given) + 1
  PROVE  /\ Head(items) \in Timetags \cup {Immediate} /\ given'[n] = Head(items)
         /\ given' \in Seq(Timetags \cup {Immediate})
         /\ items' \in Seq(Timetags \cup {Immediate})
         /\ Numbers' = Numbers \cup {n} /\ n \notin Numbers /\ n \in Nat \ {0}
         /\ \A i \in Numbers : i < n /\ given'[i] = given[i]
         /\ ~HasRun(n) /\ n \notin lost /\ ~Listed(n)
         /\ \A k \in 1..Len(list) : list[k].number \in Numbers
         /\ list \in Seq([to : Timetags, number : Numbers'])
<1> DEFINE T == Timetags \cup {Immediate}
<1> DEFINE E == [to : Timetags, number : Numbers]
<1>1. /\ given \in Seq(T) /\ items \in Seq(T) /\ items # << >>
      /\ list \in Seq(E) /\ lost \subseteq Numbers
  BY DEF IInv, TypeOK, Handle
<1>2. given' = Append(given, Head(items)) /\ items' = Tail(items)
  BY DEF Handle
<1>3. \A k \in 1..Len(list) : list[k] \in E
  <2> HIDE DEF E
  <2> QED
    BY <1>1, ElementOfSeq
<1>4. \A k \in 1..Len(list) : list[k].number \in Numbers
  BY <1>3
<1> HIDE DEF T, E
<1>5. Head(items) \in T /\ items' \in Seq(T)
  BY <1>1, <1>2, HeadTailProperties
<1>6. Len(given) \in Nat
  BY <1>1, LenProperties
<1>7. /\ given' \in Seq(T) /\ Len(given') = Len(given) + 1
      /\ \A i \in 1..Len(given) : given'[i] = given[i]
      /\ given'[n] = Head(items)
  BY <1>1, <1>2, <1>5, AppendProperties
<1>8. /\ Numbers' = Numbers \cup {n} /\ n \notin Numbers /\ n \in Nat \ {0}
      /\ \A i \in Numbers : i < n /\ given'[i] = given[i]
  BY <1>6, <1>7 DEF Numbers
<1>9. ~HasRun(n) /\ n \notin lost /\ ~Listed(n)
  BY <1>1, <1>4, <1>8 DEF IInv, RanKnown, HasRun, Listed
<1>10. list \in Seq([to : Timetags, number : Numbers'])
  <2>1. E \subseteq [to : Timetags, number : Numbers']
    BY <1>8 DEF E
  <2>2. QED
    BY <1>1, <2>1, SeqMonotonic
<1>11. QED
  BY <1>4, <1>5, <1>7, <1>8, <1>9, <1>10 DEF T

(* What remains the same where the message is not put on the list          *)
LEMMA ListKept ==
  ASSUME IInv, Handle, UNCHANGED list, NEW n, n = Len(given) + 1,
         \A i \in Numbers : HasRun(i)' <=> HasRun(i),
         \A i \in Numbers : i \in lost' <=> i \in lost
  PROVE  Arrival' /\ Scheduled'
<1>1. Arrival'
  BY DEF IInv, Arrival
<1>2. /\ \A k \in 1..Len(list) : list[k].number \in Numbers
      /\ \A i \in Numbers : given'[i] = given[i]
  BY Handled
<1>3. ASSUME NEW k \in 1..Len(list), NEW i, i = list[k].number
      PROVE  /\ given'[i] # Immediate /\ list[k].to = Seconds(given'[i])
             /\ ~HasRun(i)' /\ i \notin lost'
  BY <1>2, <1>3 DEF IInv, Scheduled
<1>4. Scheduled'
  BY <1>3 DEF Scheduled, HasRun
<1>5. QED
  BY <1>1, <1>4

(* What remains the same where the message is not executed                 *)
LEMMA RanKept ==
  ASSUME IInv, Handle, UNCHANGED ran, lost \subseteq lost'
  PROVE  RanKnown' /\ InItsSecond' /\ KeepsOrder'
<1> DEFINE n == Len(given) + 1
<1>1. /\ Numbers' = Numbers \cup {n} /\ n \notin Numbers /\ n \in Nat \ {0}
      /\ \A i \in Numbers : i < n /\ given'[i] = given[i]
  BY Handled
<1> HIDE DEF n
<1>2. \A k \in 1..Len(ran) : ran[k].number \in Numbers
  BY DEF IInv, RanKnown
<1>3. RanKnown'
  BY <1>1, <1>2 DEF RanKnown
<1>4. InItsSecond'
  BY <1>1, <1>2 DEF IInv, InItsSecond
<1>5. KeepsOrder'
  <2> SUFFICES ASSUME NEW k \in 1..Len(ran), NEW i \in Numbers',
                      i < ran[k].number, given'[i] = given'[ran[k].number], i \notin lost'
               PROVE  \E j \in 1..(k - 1) : ran[j].number = i
    BY DEF KeepsOrder
  <2>1. i # n
    <3>1. ran[k].number < n /\ ran[k].number \in Nat
      BY <1>1, <1>2 DEF Numbers
    <3>2. QED
      BY <1>1, <3>1
  <2>2. i \in Numbers /\ given[i] = given[ran[k].number]
    BY <1>1, <1>2, <2>1
  <2>3. QED
    BY <2>2 DEF IInv, KeepsOrder
<1>6. QED
  BY <1>3, <1>4, <1>5

(* A message is executed, put at the end of the list, or given up.         *)
LEMMA HandleIInv == IInv /\ Handle => IInv'
<1> SUFFICES ASSUME IInv, Handle PROVE IInv'
  OBVIOUS
<1> DEFINE n == Len(given) + 1
<1>1. /\ Head(items) \in Timetags \cup {Immediate} /\ given'[n] = Head(items)
      /\ given' \in Seq(Timetags \cup {Immediate})
      /\ items' \in Seq(Timetags \cup {Immediate})
      /\ Numbers' = Numbers \cup {n} /\ n \notin Numbers /\ n \in Nat \ {0}
      /\ \A i \in Numbers : i < n /\ given'[i] = given[i]
      /\ ~HasRun(n) /\ n \notin lost /\ ~Listed(n)
      /\ \A k \in 1..Len(list) : list[k].number \in Numbers
      /\ list \in Seq([to : Timetags, number : Numbers'])
  BY Handled
<1>2. UNCHANGED <<pc, to, stops>>
  BY DEF Handle
<1>3. ASSUME list' \in Seq([to : Timetags, number : Numbers']), ran' \in Seq(RanAt),
             lost' \subseteq Numbers'
      PROVE  TypeOK'
  BY <1>1, <1>2, <1>3 DEF IInv, TypeOK
<1>4. ran \in Seq(RanAt) /\ lost \subseteq Numbers
  BY DEF IInv, TypeOK
<1>5. CASE Head(items) = Immediate /\ Run(n) /\ UNCHANGED <<list, lost>>
  <2>1. ASSUME NEW i \in Numbers', i < n, given'[i] = given'[n], i \notin lost
        PROVE  HasRun(i)
    <3>1. i \in Numbers /\ given[i] = Immediate
      BY <1>1, <1>5, <2>1
    <3>2. ~Listed(i)
      BY <3>1 DEF IInv, Scheduled, Listed
    <3>3. QED
      BY <2>1, <3>1, <3>2 DEF IInv, Accounted
  <2> HIDE DEF n
  <2>2. /\ ran' \in Seq(RanAt) /\ RanKnown' /\ InItsSecond' /\ KeepsOrder'
        /\ \A i : HasRun(i)' <=> HasRun(i) \/ i = n
    BY <1>1, <1>5, <2>1, RunKeeps
  <2>3. Arrival' /\ Scheduled'
    <3>1. \A i \in Numbers : HasRun(i)' <=> HasRun(i)
      BY <1>1, <2>2
    <3>2. QED
      BY <1>5, <3>1, ListKept
  <2>4. Accounted'
    BY <1>1, <1>5, <2>2 DEF IInv, Accounted, Listed
  <2>5. TypeOK'
    BY <1>1, <1>3, <1>4, <1>5, <2>2
  <2>6. QED
    BY <2>2, <2>3, <2>4, <2>5 DEF IInv
<1>6. CASE /\ Head(items) # Immediate
           /\ list' = sched_append(list, [to |-> Seconds(Head(items)), number |-> n])
           /\ UNCHANGED <<ran, lost>>
  <2> DEFINE e == [to |-> Seconds(Head(items)), number |-> n]
  <2> DEFINE E == [to : Timetags, number : Numbers']
  <2>1. e \in E /\ e.number = n /\ e.to = Seconds(Head(items))
    <3>1. Seconds(Head(items)) \in Timetags
      BY <1>1, <1>6, SecondsTime
    <3>2. QED
      BY <1>1, <3>1
  <2> HIDE DEF n, E, e
  <2>2. list' = Append(list, e)
    BY <1>1, <1>6, <2>1, AppendsAlways DEF E, e
  <2>3. Len(list) \in Nat
    BY <1>1, LenProperties
  <2>4. /\ list' \in Seq(E) /\ Len(list') = Len(list) + 1
        /\ \A k \in 1..Len(list) : list'[k] = list[k]
        /\ list'[Len(list) + 1] = e
    BY <1>1, <2>1, <2>2, AppendProperties DEF E
  <2>5. /\ \A k \in 1..Len(list') : k \in 1..Len(list) \/ k = Len(list) + 1
        /\ \A k \in 1..Len(list) : k \in 1..Len(list') /\ k < Len(list) + 1
        /\ Len(list) + 1 \in 1..Len(list')
    BY <2>3, <2>4
  <2>6. Arrival'
    <3> SUFFICES ASSUME NEW j \in 1..Len(list'), NEW k \in 1..Len(list'), j < k
                 PROVE  list'[j].number < list'[k].number
      BY DEF Arrival
    <3>1. j \in 1..Len(list)
      BY <2>3, <2>5
    <3>2. CASE k = Len(list) + 1
      BY <1>1, <2>1, <2>4, <3>1, <3>2
    <3>3. CASE k \in 1..Len(list)
      BY <2>4, <3>1, <3>3 DEF IInv, Arrival
    <3>4. QED
      BY <2>5, <3>2, <3>3
  <2>7. Scheduled'
    <3> SUFFICES ASSUME NEW k \in 1..Len(list'), NEW i, i = list'[k].number
                 PROVE  /\ given'[i] # Immediate /\ list'[k].to = Seconds(given'[i])
                        /\ ~HasRun(i) /\ i \notin lost
      BY <1>6 DEF Scheduled, HasRun
    <3>1. CASE k = Len(list) + 1
      BY <1>1, <1>6, <2>1, <2>4, <3>1
    <3>2. CASE k \in 1..Len(list)
      BY <1>1, <2>4, <3>2 DEF IInv, Scheduled
    <3>3. QED
      BY <2>5, <3>1, <3>2
  <2>8. Accounted'
    <3>1. \A i : i = n => Listed(i)'
      BY <2>1, <2>4, <2>5 DEF Listed
    <3>2. \A i \in Numbers : Listed(i) => Listed(i)'
      BY <2>4, <2>5 DEF Listed
    <3>3. QED
      BY <1>1, <1>6, <3>1, <3>2 DEF IInv, Accounted, HasRun
  <2>9. RanKnown' /\ InItsSecond' /\ KeepsOrder'
    BY <1>6, RanKept
  <2>10. TypeOK'
    BY <1>1, <1>3, <1>4, <1>6, <2>4 DEF E
  <2>11. QED
    BY <2>6, <2>7, <2>8, <2>9, <2>10 DEF IInv
<1>7. CASE Head(items) # Immediate /\ lost' = lost \cup {n} /\ UNCHANGED <<list, ran>>
  <2>1. Arrival' /\ Scheduled'
    <3>1. \A i \in Numbers : (HasRun(i)' <=> HasRun(i)) /\ (i \in lost' <=> i \in lost)
      BY <1>1, <1>7 DEF HasRun
    <3>2. QED
      BY <1>7, <3>1, ListKept
  <2>2. RanKnown' /\ InItsSecond' /\ KeepsOrder'
    BY <1>7, RanKept
  <2>3. Accounted'
    BY <1>1, <1>7 DEF IInv, Accounted, Listed, HasRun
  <2>4. TypeOK'
    BY <1>1, <1>3, <1>4, <1>7
  <2>5. QED
    BY <2>1, <2>2, <2>3, <2>4 DEF IInv
<1>8. QED
  BY <1>5, <1>6, <1>7, Zenon DEF Handle
-----------------------------------------------------------------------------
(* Every step, and every stutter, keeps IInv.                              *)
LEMMA NextIInv == IInv /\ [Next]_vars => IInv'
<1> SUFFICES ASSUME IInv, [Next]_vars PROVE IInv'
  OBVIOUS
<1>1. CASE UNCHANGED vars
  <2>1. TypeOK'
    BY <1>1 DEF IInv, TypeOK, vars, Numbers
  <2>2. QED
    BY <1>1, <2>1, IdleKeeps DEF vars
<1>2. CASE Next
  BY <1>2, ReceiveIInv, HandleIInv, DrainedIInv, RunDueIInv, ListDoneIInv, FrameIInv, StopIInv
     DEF Next, BeatNext
<1>3. QED
  BY <1>1, <1>2

(* What is known of every message at every moment: it was executed, was    *)
(* given up, or waits on a list that is in order of arrival.               *)
THEOREM SchedInvariant == Spec => []IInv
  BY InitIInv, NextIInv, PTL DEF Spec

(* No message is executed twice, before its second, or before one that     *)
(* came before it under the same timetag.                                  *)
THEOREM ExecutedInPlace == Spec => []InItsPlace
<1>1. IInv => InItsPlace
  BY DEF IInv, InItsPlace
<1>2. QED
  BY <1>1, SchedInvariant, PTL
(* The loop over the list ends where the first on it is not due.           *)
Settled == pc = "frame" => ~Due

LEMMA SettledAlways == Spec => []Settled
<1>1. Init => Settled
  BY DEF Init, Settled
<1>2. Settled /\ [Next]_vars => Settled'
  <2> SUFFICES ASSUME Settled, [Next]_vars, pc' = "frame" PROVE ~Due'
    BY DEF Settled
  <2>1. CASE ListDone
    BY <2>1 DEF ListDone, Due
  <2>2. CASE UNCHANGED vars
    BY <2>2 DEF vars, Settled, Due
  <2>3. CASE Frame \/ Stop \/ Drained \/ Handle \/ RunDue
             \/ \E packet \in Packets : Receive(packet)
    BY <2>3 DEF Frame, Stop, Drained, Handle, RunDue, Receive
  <2>4. QED
    BY <2>1, <2>2, <2>3 DEF Next, BeatNext
<1>3. QED
  BY <1>1, <1>2, PTL DEF Spec

(* A message whose second has come waits beyond the end of a frame only    *)
(* behind one whose second has not.                                        *)
THEOREM HeldUpOnlyByEarlier == Spec => []Prompt
<1>1. IInv /\ Settled => Prompt
  <2> SUFFICES ASSUME IInv, Settled, pc = "frame",
                      NEW i \in Numbers, Waits(i), to >= Seconds(given[i])
               PROVE  \E j \in 1..(i - 1) : Waits(j) /\ to < Seconds(given[j])
    BY DEF Prompt
  <2> DEFINE E == [to : Timetags, number : Numbers]
  <2>1. list \in Seq(E) /\ to \in Timetags
    BY DEF IInv, TypeOK
  <2>2. PICK k \in 1..Len(list) : list[k].number = i
    BY DEF IInv, Accounted, Waits, Listed
  <2>3. Len(list) \in Nat /\ \A l \in 1..Len(list) : list[l] \in E
    <3> HIDE DEF E
    <3> QED
      BY <2>1, LenProperties, ElementOfSeq
  <2>4. 1 \in 1..Len(list) /\ list # << >> /\ Head(list) = list[1]
    BY <2>1, <2>2, <2>3
  <2>5. ~(to >= list[1].to)
    BY <2>4 DEF Settled, Due
  <2>6. list[1].number \in Numbers /\ list[1].to \in Timetags
    BY <2>3, <2>4
  <2>7. to < list[1].to
    BY <2>1, <2>5, <2>6 DEF Timetags
  <2>8. list[1].to = Seconds(given[list[1].number]) /\ list[k].to = Seconds(given[i])
    BY <2>2, <2>4 DEF IInv, Scheduled
  <2>9. k # 1
    BY <2>2, <2>5, <2>8
  <2>10. list[1].number < i
    BY <2>2, <2>4, <2>9 DEF IInv, Arrival
  <2>11. list[1].number \in 1..(i - 1)
    BY <2>6, <2>10 DEF Numbers
  <2>12. Waits(list[1].number)
    BY <2>4, <2>6 DEF IInv, Scheduled, Waits
  <2>13. QED
    BY <2>7, <2>8, <2>11, <2>12
<1>2. QED
  BY <1>1, SchedInvariant, SettledAlways, PTL
============================================================================
