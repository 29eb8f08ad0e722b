-------------------------------- MODULE Dmx --------------------------------
(***************************************************************************)
(* osc2ftdidmx.c with the dispatcher of reader.h that drives it: how an    *)
(* OSC message walks the tree /dmx/<channel>/<priority>, calls _channel    *)
(* and _priority on the way, and changes the slots, and how _beat turns    *)
(* the slots into a frame.  All of it runs on the beat thread; a step is   *)
(* one node of the tree.                                                   *)
(*                                                                         *)
(* A path is what its three patterns match: sets of channels and of        *)
(* priorities (fnmatch, outside src/), and whether it stops at the         *)
(* channel, at the priority, or goes on below it.  A path whose first part *)
(* does not match "dmx" matches no channel.                                *)
(***************************************************************************)
EXTENDS Integers, Sequences, FiniteSets

CONSTANTS
  NumChannels,    \* 512
  NumPriorities,  \* 32
  Messages,       \* the messages that are received
  NoMessage

Channels == 0..(NumChannels - 1)
Priorities == 0..(NumPriorities - 1)
Byte == 0..255

(* An argument is an int32 or of one of the types _priority ignores.       *)
Arg == [type : {"i", "other"}, i : Int]
Message == [chans : SUBSET Channels, prios : SUBSET Priorities,
            depth : {"channel", "priority", "below"}, args : Seq(Arg)]

ASSUME SizesAssumption == NumChannels \in Nat \ {0} /\ NumPriorities \in Nat \ {0}
ASSUME MessagesAssumption == Messages \subseteq Message /\ NoMessage \notin Message

VARIABLES
  slots,           \* state->slots: mask, as the set of its bits, and data
  cur_channel, cur_value, cur_set,
  cur_arg,         \* index of the argument cur_reader is at
  msg,             \* the message being dispatched
  chan, prio,      \* the two loops of _lv2_osc_trees_internal
  dmx,             \* app->dmx.data
  before           \* history: the slots when the message arrived

cursor == <<cur_channel, cur_value, cur_set, cur_arg>>
vars == <<slots, cur_channel, cur_value, cur_set, cur_arg, msg, chan, prio, dmx, before>>

Slot == [mask : SUBSET Priorities, data : [Priorities -> Byte]]

(* prio = -1 stands for the loop over the channels.                        *)
TypeOK ==
  /\ slots \in [Channels -> Slot] /\ before \in [Channels -> Slot]
  /\ cur_channel \in Channels /\ cur_value \in Byte /\ cur_set \in BOOLEAN
  /\ msg \in Messages \cup {NoMessage}
  /\ cur_arg \in Nat
  /\ chan \in 0..NumChannels /\ prio \in -1..NumPriorities
  /\ dmx \in [Channels -> Byte]

Empty == [mask |-> {}, data |-> [p \in Priorities |-> 0]]

Init ==
  /\ slots = [c \in Channels |-> Empty] /\ before = slots
  /\ cur_channel = 0 /\ cur_value = 0 /\ cur_set = FALSE /\ cur_arg = 1
  /\ msg = NoMessage /\ chan = 0 /\ prio = -1
  /\ dmx = [c \in Channels |-> 0]
-----------------------------------------------------------------------------
slot_set_val(slot, p, val) ==
  [mask |-> slot.mask \cup {p}, data |-> [slot.data EXCEPT ![p] = val]]

slot_clr_val(slot, p) ==
  [mask |-> slot.mask \ {p}, data |-> [slot.data EXCEPT ![p] = 0]]

slot_has_val(slot) == slot.mask # {}

(* The search goes from bit 31 down. *)
slot_get_val(slot) ==
  IF slot_has_val(slot)
  THEN slot.data[CHOOSE p \in slot.mask : \A q \in slot.mask : q <= p]
  ELSE 0
-----------------------------------------------------------------------------
(* Faulty: the cursors are left as the message before left them. *)
ReceiveKeeping(m) ==
  /\ msg = NoMessage
  /\ msg' = m
  /\ chan' = 0 /\ prio' = -1
  /\ before' = slots
  /\ UNCHANGED <<slots, cursor, dmx>>

(* _handle_osc_message up to lv2_osc_reader_match *)
Receive(m) ==
  /\ msg = NoMessage
  /\ msg' = m
  /\ cur_channel' = 0 /\ cur_value' = 0 /\ cur_set' = FALSE /\ cur_arg' = 1
  /\ chan' = 0 /\ prio' = -1
  /\ before' = slots
  /\ UNCHANGED <<slots, dmx>>

OverChannels == msg # NoMessage /\ prio = -1 /\ chan < NumChannels
OverPriorities == msg # NoMessage /\ prio \in Priorities

SkipChannel ==
  /\ OverChannels
  /\ chan \notin msg.chans
  /\ chan' = chan + 1
  /\ UNCHANGED <<slots, cursor, msg, prio, dmx, before>>

(* Faulty: the channel is not remembered for the priorities below it. *)
ChannelForgotten ==
  /\ OverChannels
  /\ chan \in msg.chans
  /\ IF msg.depth = "channel"
     THEN chan' = chan + 1 /\ UNCHANGED prio
     ELSE prio' = 0 /\ UNCHANGED chan
  /\ UNCHANGED <<slots, cursor, msg, dmx, before>>

(* _channel, and then the priorities below it if the path goes on *)
Channel ==
  /\ OverChannels
  /\ chan \in msg.chans
  /\ cur_channel' = chan
  /\ IF msg.depth = "channel"
     THEN chan' = chan + 1 /\ UNCHANGED prio
     ELSE prio' = 0 /\ UNCHANGED chan
  /\ UNCHANGED <<slots, cur_value, cur_set, cur_arg, msg, dmx, before>>

(* Nothing is called: the pattern does not match, or the path goes on      *)
(* where the tree ends.                                                    *)
SkipPriority ==
  /\ OverPriorities
  /\ prio \notin msg.prios \/ msg.depth = "below"
  /\ prio' = prio + 1
  /\ UNCHANGED <<slots, cursor, msg, chan, dmx, before>>

(* Faulty: the integer is stored at its full width. *)
TakeWholeArg ==
  IF cur_arg <= Len(msg.args)
  THEN /\ cur_arg' = cur_arg + 1
       /\ IF msg.args[cur_arg].type = "i"
          THEN cur_value' = msg.args[cur_arg].i /\ cur_set' = TRUE
          ELSE UNCHANGED <<cur_value, cur_set>>
  ELSE UNCHANGED <<cur_arg, cur_value, cur_set>>

(* _priority: take the next argument if there is one, then set or clear. *)
TakeArg ==
  IF cur_arg <= Len(msg.args)
  THEN /\ cur_arg' = cur_arg + 1
       /\ IF msg.args[cur_arg].type = "i"
          THEN cur_value' = msg.args[cur_arg].i % 256 /\ cur_set' = TRUE
          ELSE UNCHANGED <<cur_value, cur_set>>
  ELSE UNCHANGED <<cur_arg, cur_value, cur_set>>

Priority ==
  /\ OverPriorities
  /\ prio \in msg.prios /\ msg.depth = "priority"
  /\ TakeArg
  /\ slots' = [slots EXCEPT ![cur_channel] =
                 IF cur_set' THEN slot_set_val(@, prio, cur_value')
                             ELSE slot_clr_val(@, prio)]
  /\ prio' = prio + 1
  /\ UNCHANGED <<cur_channel, msg, chan, dmx, before>>

PrioritiesDone ==
  /\ msg # NoMessage /\ prio = NumPriorities
  /\ prio' = -1 /\ chan' = chan + 1
  /\ UNCHANGED <<slots, cursor, msg, dmx, before>>

Done ==
  /\ msg # NoMessage /\ prio = -1 /\ chan = NumChannels
  /\ msg' = NoMessage
  /\ chan' = 0
  /\ before' = slots
  /\ UNCHANGED <<slots, cursor, prio, dmx>>

(* _beat: fill dmx buffer, after the last message of the frame *)
Fill ==
  /\ msg = NoMessage
  /\ dmx' = [c \in Channels |-> slot_get_val(slots[c])]
  /\ UNCHANGED <<slots, cursor, msg, chan, prio, before>>

Dispatch ==
  SkipChannel \/ Channel \/ SkipPriority \/ Priority \/ PrioritiesDone \/ Done

Next ==
  \/ \E m \in Messages : Receive(m)
  \/ Dispatch
  \/ Fill

Spec == Init /\ [][Next]_vars
-----------------------------------------------------------------------------
(* Properties *)

(* The walk with its cursors carried from node to node amounts to what the *)
(* README says of the message received, as a whole: at its end the slots   *)
(* have changed by the effect of that message and of its own arguments,    *)
(* whatever the message before it left in the cursors.  And the frame      *)
(* amounts to what it says of priorities.                                  *)
Unset == 256

README == INSTANCE Desk WITH
  pending <- msg,
  level <- [c \in Channels |-> [p \in Priorities |->
              IF p \in before[c].mask THEN before[c].data[p] ELSE Unset]],
  frame <- dmx

DoesWhatTheReadmeSays == README!Spec

(* At every moment of the walk the arguments consumed are as many as the   *)
(* pairs _priority was called for, or all of them; no other pair has       *)
(* changed; and _priority is called for the channel that _channel was      *)
(* called for.                                                             *)
Visited(c, p) == c < chan \/ (c = chan /\ p < prio)

Called ==
  {cp \in msg.chans \X msg.prios : msg.depth = "priority" /\ Visited(cp[1], cp[2])}

Lower(a, b) == IF a <= b THEN a ELSE b

NothingAhead ==
  msg # NoMessage =>
    /\ cur_arg = Lower(Cardinality(Called), Len(msg.args)) + 1
    /\ \A c \in Channels, p \in Priorities : <<c, p>> \notin Called =>
         /\ p \in slots[c].mask <=> p \in before[c].mask
         /\ slots[c].data[p] = before[c].data[p]
    /\ prio \in Priorities => cur_channel = chan
=============================================================================
