------------------------------- MODULE Sched -------------------------------
(***************************************************************************)
(* main.c: how _beat brings received packets to _handle_osc_message.  Once *)
(* per frame it drains the ring, executes what is not in a bundle or in a  *)
(* bundle to be executed immediately, puts the rest on app->list, then     *)
(* executes from the head of that list what is due.                        *)
(*                                                                         *)
(* A packet is the sequence of the timetags its messages are under, a      *)
(* plain message being Immediate; a bundle in a bundle has a timetag of    *)
(* its own, so any sequence can arrive.  Time is counted in frames, Fps to *)
(* the second.  A message is known by the number of its arrival.           *)
(***************************************************************************)
EXTENDS Integers, Sequences, SequencesExt

CONSTANTS
  Fps,
  Packets,       \* what may be in the ring
  Immediate,     \* LV2_OSC_IMMEDIATE
  Horizon,       \* bound: the clock stops counting here, no timetag is later
  MaxMessages,   \* bound: messages received in a behaviour
  MaxStops       \* bound: beat threads that end before the last one

Timetags == 0..Horizon

ASSUME FpsAssumption == Fps \in Nat \ {0}
ASSUME HorizonAssumption == Horizon \in Nat /\ Immediate \notin Timetags
ASSUME PacketsAssumption == Packets \subseteq Seq(Timetags \cup {Immediate})
ASSUME BoundsAssumption == MaxMessages \in Nat /\ MaxStops \in Nat

VARIABLES
  pc,         \* where the beat thread is in its frame
  to,         \* the beat timestamp
  list,       \* app->list
  items,      \* what is left of the packet being handled
  stops,      \* beat threads that have ended
  \* history
  given,      \* the timetag of every message handled, by its number
  ran,        \* messages executed, in that order, and when
  lost        \* messages that were given up

vars == <<pc, to, list, items, stops, given, ran, lost>>

Numbers == 1..Len(given)
RanAt == [number : Nat \ {0}, at : Timetags]

TypeOK ==
  /\ pc \in {"drain", "list", "frame"}
  /\ to \in Timetags
  /\ list \in Seq([to : Timetags, number : Numbers])
  /\ items \in Seq(Timetags \cup {Immediate})
  /\ stops \in 0..MaxStops
  /\ given \in Seq(Timetags \cup {Immediate})
  /\ ran \in Seq(RanAt)
  /\ lost \subseteq Numbers

Init ==
  /\ pc = "drain" /\ to = 0 /\ list = << >> /\ items = << >> /\ stops = 0
  /\ given = << >> /\ ran = << >> /\ lost = {}
-----------------------------------------------------------------------------
(* timetag >> 32: only whole seconds are left of it.                       *)
Seconds(timetag) == (timetag \div Fps) * Fps

(* (timetag && 32) * 0x1p-32 * 1e9 is below one, so tv_nsec is always 0.   *)
Nanoseconds(timetag) == 0

(* Faulty: elements of the same time are passed.                           *)
NotEarlier(elmnt, other) == elmnt.to >= other.to

Later(elmnt, other) ==
  /\ elmnt.to > other.to
  /\ Nanoseconds(elmnt.to) > Nanoseconds(other.to)

(* Faulty: what was on the list is forgotten.                              *)
sched_restart(elmnts, elmnt) == <<elmnt>>

(* _sched_append: before the first element that is later, or at the end    *)
sched_append(elmnts, elmnt) ==
  LET later == {k \in 1..Len(elmnts) : Later(elmnts[k], elmnt)}
      place == IF later = {} THEN Len(elmnts) + 1
               ELSE CHOOSE k \in later : \A j \in later : k <= j
  IN  InsertAt(elmnts, place, elmnt)

Run(number) == ran' = Append(ran, [number |-> number, at |-> to])

Receive(packet) ==
  /\ pc = "drain" /\ items = << >>
  /\ Len(given) + Len(packet) <= MaxMessages
  /\ items' = packet
  /\ UNCHANGED <<pc, to, list, stops, given, ran, lost>>

(* _handle_osc_packet for the next message of the packet: execute it, put  *)
(* it on the list, or, without memory for that, drop it.                   *)
Handle ==
  LET number == Len(given) + 1 IN
  /\ pc = "drain" /\ items # << >>
  /\ items' = Tail(items)
  /\ given' = Append(given, Head(items))
  /\ \/ /\ Head(items) = Immediate
        /\ Run(number)
        /\ UNCHANGED <<list, lost>>
     \/ /\ Head(items) # Immediate
        /\ list' = sched_append(list, [to |-> Seconds(Head(items)), number |-> number])
        /\ UNCHANGED <<ran, lost>>
     \/ /\ Head(items) # Immediate
        /\ lost' = lost \cup {number}
        /\ UNCHANGED <<list, ran>>
  /\ UNCHANGED <<pc, to, stops>>

Drained ==
  /\ pc = "drain" /\ items = << >>
  /\ pc' = "list"
  /\ UNCHANGED <<to, list, items, stops, given, ran, lost>>

Due == list # << >> /\ to >= Head(list).to

RunDue ==
  /\ pc = "list" /\ Due
  /\ Run(Head(list).number)
  /\ list' = Tail(list)
  /\ UNCHANGED <<pc, to, items, stops, given, lost>>

(* Faulty: one message per frame.                                          *)
ListLeft ==
  /\ pc = "list"
  /\ pc' = "frame"
  /\ UNCHANGED <<to, list, items, stops, given, ran, lost>>

(* Faulty: the loop goes on until the list is empty.                       *)
ListEmptied ==
  /\ pc = "list" /\ ~Due
  /\ pc' = IF list = << >> THEN "frame" ELSE pc
  /\ UNCHANGED <<to, list, items, stops, given, ran, lost>>

ListDone ==
  /\ pc = "list" /\ ~Due
  /\ pc' = "frame"
  /\ UNCHANGED <<to, list, items, stops, given, ran, lost>>

(* The frame is sent, and the next one awaited.                            *)
Frame ==
  /\ pc = "frame"
  /\ to' = IF to < Horizon THEN to + 1 ELSE to
  /\ pc' = "drain"
  /\ UNCHANGED <<list, items, stops, given, ran, lost>>

(* The frame is sent, or not, the thread sees done, main joins it, frees   *)
(* the list (_sched_deinit), and creates another one.                      *)
Stop ==
  /\ pc = "frame" /\ stops < MaxStops
  /\ stops' = stops + 1
  /\ lost' = lost \cup {list[k].number : k \in 1..Len(list)}
  /\ list' = << >>
  /\ pc' = "drain"
  /\ UNCHANGED <<to, items, given, ran>>

BeatNext == Handle \/ Drained \/ RunDue \/ ListDone \/ Frame

Next ==
  \/ \E packet \in Packets : Receive(packet)
  \/ BeatNext
  \/ Stop

Spec == Init /\ [][Next]_vars
-----------------------------------------------------------------------------
(* Properties *)

HasRun(i) == \E k \in 1..Len(ran) : ran[k].number = i
Waits(i) == i \in Numbers /\ ~HasRun(i) /\ i \notin lost

(* No message is executed twice, or before the second its timetag falls in.*)
(* (It may well be executed up to a second before its timetag.)            *)
InItsSecond ==
  /\ \A j, k \in 1..Len(ran) : ran[j].number = ran[k].number => j = k
  /\ \A k \in 1..Len(ran) :
       LET timetag == given[ran[k].number] IN
       timetag # Immediate => ran[k].at >= Seconds(timetag)

(* Messages under the same timetag, as those of one bundle, are executed   *)
(* in the order they came in, whatever is on the list already.             *)
KeepsOrder ==
  \A k \in 1..Len(ran) : \A i \in Numbers :
    (i < ran[k].number /\ given[i] = given[ran[k].number] /\ i \notin lost) =>
      \E j \in 1..(k - 1) : ran[j].number = i

(* Executed messages are where they belong.                                *)
InItsPlace == InItsSecond /\ KeepsOrder

(* When the frame is sent, a message whose second has come still waits     *)
(* only if it came in behind another one whose second has not.             *)
Prompt ==
  pc = "frame" =>
    \A i \in Numbers :
      Waits(i) /\ to >= Seconds(given[i]) =>
        \E j \in 1..(i - 1) : Waits(j) /\ to < Seconds(given[j])

(* Every message that was handled is executed at last, unless it is given  *)
(* up for want of memory or because the program stops.                     *)
EveryMessageRuns ==
  \A i \in 1..MaxMessages : i \in Numbers ~> (HasRun(i) \/ i \in lost)
=============================================================================
