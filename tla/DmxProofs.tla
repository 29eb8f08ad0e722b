----------------------------- MODULE DmxProofs -----------------------------
(***************************************************************************)
(* Proofs about the slots and the walk of a message, for every number of   *)
(* channels and of priorities and for every set of messages: the walk with *)
(* its cursors amounts to what the README says of a message as a whole.    *)
(***************************************************************************)
EXTENDS Dmx, FiniteSetTheorems, TLAPS

(* The walk so far: the pairs the path addresses, and of these the ones    *)
(* that were visited.                                                      *)
Addressed == msg.chans \X msg.prios
Seen == {cp \in Addressed : Visited(cp[1], cp[2])}

(* The values at each priority, as the README speaks of them               *)
Level(s) ==
  [c \in Channels |-> [p \in Priorities |-> IF p \in s[c].mask THEN s[c].data[p] ELSE Unset]]

(* The cursor stands at an argument or behind the last one; below a        *)
(* channel, _channel has just been called for it.  A path that does not    *)
(* end at a priority consumes no argument.                                 *)
Walk ==
  /\ cur_arg >= 1
  /\ msg # NoMessage /\ prio # -1 => chan < NumChannels /\ chan \in msg.chans /\ cur_channel = chan
  /\ msg # NoMessage /\ msg.depth # "priority" => cur_arg = 1

(* No pair changes before it is visited, and none at all when the path     *)
(* does not end at a priority.                                             *)
Untouched ==
  \A c \in Channels, p \in Priorities :
     msg = NoMessage \/ msg.depth # "priority" \/ <<c, p>> \notin Seen =>
       /\ p \in slots[c].mask <=> p \in before[c].mask
       /\ slots[c].data[p] = before[c].data[p]

(* The cursors have advanced by one argument for each pair visited, while  *)
(* there were any, and hold the last integer among them; and each pair     *)
(* visited has what falls to it by its place in the walk.                  *)
Dealing ==
  msg # NoMessage /\ msg.depth = "priority" =>
    /\ cur_arg = Lower(Cardinality(Seen), Len(msg.args)) + 1
    /\ README!Dealt(msg.args, Cardinality(Seen)) = IF cur_set THEN cur_value ELSE Unset
    /\ \A cp \in Seen :
         Level(slots)[cp[1]][cp[2]] = README!Dealt(msg.args, README!Rank(msg, cp[1], cp[2]))

IInv ==
  /\ TypeOK
  /\ Walk
  /\ Untouched
  /\ Dealing
-----------------------------------------------------------------------------
(* Sets of priorities, and what falls to each pair *)

(* Every nonempty set of natural numbers has a least element.              *)
LEMMA LeastElement ==
  ASSUME NEW T \in SUBSET Nat, T # {}
  PROVE  \E x \in T : \A y \in T : x <= y
<1>1. PICK x \in T : \A y \in T : ~(<<y, x>> \in OpToRel(<, Nat))
  BY NatLessThanWellFounded, WFMin
<1>2. \A y \in T : ~(y < x)
  BY <1>1 DEF OpToRel
<1>3. \A y \in T : x <= y
  BY <1>2
<1> QED BY <1>3

(* Every nonempty set of priorities has a highest one.                     *)
LEMMA HighestPriority ==
  ASSUME NEW T \in SUBSET Priorities, T # {}
  PROVE  \E x \in T : \A y \in T : y <= x
<1> DEFINE U == {NumPriorities - x : x \in T}
<1>1. U \in SUBSET Nat /\ U # {}
  <2>1. \A x \in T : NumPriorities - x \in Nat
    <3> SUFFICES ASSUME NEW x \in T PROVE NumPriorities - x \in Nat
      OBVIOUS
    <3>1. x \in 0..(NumPriorities - 1)
      BY DEF Priorities
    <3> QED BY <3>1, SizesAssumption
  <2> QED BY <2>1
<1>2. PICK u \in U : \A v \in U : u <= v
  BY <1>1, LeastElement
<1>3. PICK x \in T : u = NumPriorities - x
  BY <1>2
<1>4. \A y \in T : y <= x
  <2> SUFFICES ASSUME NEW y \in T PROVE y <= x
    OBVIOUS
  <2>1. u <= NumPriorities - y
    BY <1>2
  <2> QED BY <2>1, <1>3, SizesAssumption DEF Priorities
<1> QED BY <1>4

(* slot_get_val returns the data at the highest bit of the mask.           *)
LEMMA GetVal ==
  ASSUME NEW slot \in Slot, slot_has_val(slot)
  PROVE  LET top == CHOOSE p \in slot.mask : \A q \in slot.mask : q <= p
         IN  top \in slot.mask /\ slot_get_val(slot) = slot.data[top]
<1>1. slot.mask \in SUBSET Priorities /\ slot.mask # {}
  BY DEF Slot, slot_has_val
<1>2. \E p \in slot.mask : \A q \in slot.mask : q <= p
  BY <1>1, HighestPriority
<1> QED BY <1>2 DEF slot_get_val

LEMMA GetValByte ==
  ASSUME NEW slot \in Slot
  PROVE  slot_get_val(slot) \in Byte
<1>1. CASE slot_has_val(slot)
  <2>1. PICK top \in slot.mask : slot_get_val(slot) = slot.data[top]
    BY <1>1, GetVal
  <2>2. top \in Priorities /\ slot.data \in [Priorities -> Byte]
    BY DEF Slot
  <2> QED BY <2>1, <2>2
<1>2. CASE ~slot_has_val(slot)
  BY <1>2 DEF slot_get_val, Byte
<1> QED BY <1>1, <1>2

(* No pair, no value; each further pair takes the next argument, while     *)
(* there is one.                                                           *)
LEMMA DealtNone ==
  ASSUME NEW args \in Seq(Arg)
  PROVE  README!Dealt(args, 0) = Unset
  BY DEF README!Dealt

LEMMA DealtNext ==
  ASSUME NEW args \in Seq(Arg), NEW k \in Nat
  PROVE  README!Dealt(args, k + 1) =
           IF k + 1 <= Len(args) /\ args[k + 1].type = "i" THEN args[k + 1].i % 256
           ELSE README!Dealt(args, k)
<1> DEFINE Ints(n) == {i \in 1..Len(args) : i <= n /\ args[i].type = "i"}
<1>1. Len(args) \in Nat
  OBVIOUS
<1>2. CASE k + 1 <= Len(args) /\ args[k + 1].type = "i"
  <2>1. k + 1 \in Ints(k + 1) /\ \A j \in Ints(k + 1) : j \in Nat /\ j <= k + 1
    BY <1>1, <1>2
  <2>2. (CHOOSE i \in Ints(k + 1) : \A j \in Ints(k + 1) : j <= i) = k + 1
    <3> HIDE DEF Ints
    <3> QED BY <2>1
  <2>3. Ints(k + 1) # {}
    BY <2>1
  <2>4. README!Dealt(args, k + 1) = IF Ints(k + 1) = {} THEN Unset
          ELSE args[CHOOSE i \in Ints(k + 1) : \A j \in Ints(k + 1) : j <= i].i % 256
    BY DEF README!Dealt
  <2> HIDE DEF Ints
  <2> QED BY <1>2, <2>2, <2>3, <2>4
<1>3. CASE ~(k + 1 <= Len(args) /\ args[k + 1].type = "i")
  <2>1. Ints(k + 1) = Ints(k)
    BY <1>1, <1>3
  <2>2. \A n : README!Dealt(args, n) = IF Ints(n) = {} THEN Unset
          ELSE args[CHOOSE i \in Ints(n) : \A j \in Ints(n) : j <= i].i % 256
    BY DEF README!Dealt
  <2> HIDE DEF Ints
  <2> QED BY <1>3, <2>1, <2>2
<1> QED BY <1>2, <1>3
-----------------------------------------------------------------------------
(* Types *)

LEMMA MessageFacts ==
  ASSUME TypeOK, msg # NoMessage
  PROVE  /\ msg \in Messages
         /\ msg.chans \in SUBSET Channels /\ msg.prios \in SUBSET Priorities
         /\ msg.depth \in {"channel", "priority", "below"}
         /\ msg.args \in Seq(Arg) /\ Len(msg.args) \in Nat
<1>1. msg \in Messages /\ msg \in Message
  BY MessagesAssumption DEF TypeOK
<1> QED BY <1>1 DEF Message

LEMMA SlotFacts ==
  ASSUME NEW slot \in Slot, NEW p \in Priorities, NEW v \in Byte
  PROVE  slot_set_val(slot, p, v) \in Slot /\ slot_clr_val(slot, p) \in Slot
<1>1. slot.mask \in SUBSET Priorities /\ slot.data \in [Priorities -> Byte]
  BY DEF Slot
<1>2. [slot.data EXCEPT ![p] = v] \in [Priorities -> Byte]
      /\ [slot.data EXCEPT ![p] = 0] \in [Priorities -> Byte]
  BY <1>1 DEF Byte
<1>3. slot.mask \cup {p} \in SUBSET Priorities /\ slot.mask \ {p} \in SUBSET Priorities
  BY <1>1
<1> QED BY <1>2, <1>3 DEF Slot, slot_set_val, slot_clr_val

(* The argument that _priority takes is cut to a byte.                     *)
LEMMA TakeArgFacts ==
  ASSUME TypeOK, cur_arg >= 1, msg # NoMessage, TakeArg
  PROVE  /\ cur_arg \in Nat
         /\ cur_arg' = IF cur_arg <= Len(msg.args) THEN cur_arg + 1 ELSE cur_arg
         /\ cur_value' \in Byte /\ cur_set' \in BOOLEAN
         /\ IF cur_arg <= Len(msg.args) /\ msg.args[cur_arg].type = "i"
            THEN cur_value' = msg.args[cur_arg].i % 256 /\ cur_set' = TRUE
            ELSE UNCHANGED <<cur_value, cur_set>>
<1>1. msg.args \in Seq(Arg) /\ Len(msg.args) \in Nat /\ cur_arg \in Nat
      /\ cur_value \in Byte /\ cur_set \in BOOLEAN
  BY MessageFacts DEF TypeOK
<1>2. cur_arg <= Len(msg.args) => msg.args[cur_arg].i % 256 \in Byte
  <2> SUFFICES ASSUME cur_arg <= Len(msg.args) PROVE msg.args[cur_arg].i % 256 \in Byte
    OBVIOUS
  <2>1. msg.args[cur_arg] \in Arg
    BY <1>1
  <2>2. msg.args[cur_arg].i \in Int
    BY <2>1 DEF Arg
  <2>3. \A x \in Int : x % 256 \in 0..255
    OBVIOUS
  <2> QED BY <2>2, <2>3 DEF Byte
<1>3. CASE cur_arg <= Len(msg.args)
  BY <1>1, <1>2, <1>3 DEF TakeArg
<1>4. CASE ~(cur_arg <= Len(msg.args))
  BY <1>1, <1>4 DEF TakeArg
<1> QED BY <1>3, <1>4

LEMMA InitInv == Init => IInv
<1> SUFFICES ASSUME Init PROVE IInv
  OBVIOUS
<1> USE DEF Init
<1>1. Empty \in Slot /\ 0 \in Channels /\ 0 \in Byte
  BY SizesAssumption DEF Empty, Slot, Channels, Priorities, Byte
<1>2. TypeOK
  <2>1. slots \in [Channels -> Slot] /\ before \in [Channels -> Slot] /\ dmx \in [Channels -> Byte]
    BY <1>1
  <2>2. chan \in 0..NumChannels /\ prio \in -1..NumPriorities
    BY SizesAssumption
  <2> QED BY <1>1, <2>1, <2>2 DEF TypeOK
<1>3. Walk /\ Untouched /\ Dealing
  BY DEF Walk, Untouched, Dealing
<1> QED BY <1>2, <1>3 DEF IInv

(* Types: in particular the walk stays inside the slots and the data are   *)
(* bytes.                                                                  *)
LEMMA TypeInv ==
  ASSUME TypeOK, Walk, [Next]_vars
  PROVE  TypeOK'
<1>1. ASSUME NEW m \in Messages, Receive(m) PROVE TypeOK'
  <2>1. 0 \in Channels /\ 0 \in Byte /\ 0 \in 0..NumChannels /\ -1 \in -1..NumPriorities
    BY SizesAssumption DEF Channels, Byte
  <2> QED BY <1>1, <2>1 DEF TypeOK, Receive
<1>2. CASE SkipChannel
  <2>1. chan + 1 \in 0..NumChannels
    BY <1>2, SizesAssumption DEF SkipChannel, OverChannels, TypeOK
  <2> QED BY <1>2, <2>1 DEF SkipChannel, cursor, TypeOK
<1>3. CASE Channel
  <2>1. chan + 1 \in 0..NumChannels /\ chan \in Channels /\ 0 \in -1..NumPriorities
    BY <1>3, SizesAssumption DEF Channel, OverChannels, TypeOK, Channels
  <2> QED BY <1>3, <2>1 DEF Channel, TypeOK
<1>4. CASE SkipPriority
  <2>1. prio + 1 \in -1..NumPriorities
    BY <1>4, SizesAssumption DEF SkipPriority, OverPriorities, TypeOK, Priorities
  <2> QED BY <1>4, <2>1 DEF SkipPriority, cursor, TypeOK
<1>5. CASE Priority
  <2>1. prio + 1 \in -1..NumPriorities /\ prio \in Priorities
    BY <1>5, SizesAssumption DEF Priority, OverPriorities, TypeOK, Priorities
  <2>2. cur_arg' \in Nat /\ cur_value' \in Byte /\ cur_set' \in BOOLEAN
    BY <1>5, TakeArgFacts DEF Priority, OverPriorities, Walk
  <2>3. slots' \in [Channels -> Slot]
    <3>1. cur_channel \in Channels /\ slots \in [Channels -> Slot]
      BY DEF TypeOK
    <3>2. /\ slot_set_val(slots[cur_channel], prio, cur_value') \in Slot
          /\ slot_clr_val(slots[cur_channel], prio) \in Slot
      BY <3>1, <2>1, <2>2, SlotFacts
    <3> QED BY <1>5, <3>1, <3>2 DEF Priority
  <2> QED BY <1>5, <2>1, <2>2, <2>3 DEF Priority, TypeOK
<1>6. CASE PrioritiesDone
  <2>1. chan + 1 \in 0..NumChannels /\ -1 \in -1..NumPriorities
    BY <1>6, SizesAssumption DEF PrioritiesDone, TypeOK, Walk
  <2> QED BY <1>6, <2>1 DEF PrioritiesDone, cursor, TypeOK
<1>7. CASE Done
  <2>1. 0 \in 0..NumChannels
    BY SizesAssumption
  <2> QED BY <1>7, <2>1 DEF Done, cursor, TypeOK
<1>8. CASE Fill
  <2>1. \A c \in Channels : slot_get_val(slots[c]) \in Byte
    BY GetValByte DEF TypeOK
  <2> QED BY <1>8, <2>1 DEF Fill, cursor, TypeOK
<1>9. CASE UNCHANGED vars
  BY <1>9 DEF vars, TypeOK
<1> QED BY <1>1, <1>2, <1>3, <1>4, <1>5, <1>6, <1>7, <1>8, <1>9 DEF Next, Dispatch

(* cur_channel follows the loop over the channels.                         *)
LEMMA WalkInv ==
  ASSUME TypeOK, Walk, [Next]_vars
  PROVE  Walk'
<1>1. CASE \E m \in Messages : Receive(m)
  BY <1>1 DEF Receive, Walk
<1>2. CASE SkipChannel \/ PrioritiesDone \/ Done \/ Fill
  BY <1>2 DEF SkipChannel, PrioritiesDone, Done, Fill, OverChannels, cursor, Walk
<1>3. CASE Channel
  BY <1>3 DEF Channel, OverChannels, Walk
<1>4. CASE SkipPriority
  <2>1. prio # -1
    BY <1>4, SizesAssumption DEF SkipPriority, OverPriorities, Priorities
  <2> QED BY <1>4, <2>1 DEF SkipPriority, cursor, Walk
<1>5. CASE Priority
  <2>1. prio # -1
    BY <1>5, SizesAssumption DEF Priority, OverPriorities, Priorities
  <2>2. cur_arg' >= 1
    BY <1>5, TakeArgFacts DEF Priority, OverPriorities, Walk
  <2> QED BY <1>5, <2>1, <2>2 DEF Priority, Walk
<1>6. CASE UNCHANGED vars
  BY <1>6 DEF vars, Walk
<1> QED BY <1>1, <1>2, <1>3, <1>4, <1>5, <1>6 DEF Next, Dispatch
-----------------------------------------------------------------------------
(* The walk *)

LEMMA SeenFacts ==
  ASSUME TypeOK, msg # NoMessage
  PROVE  /\ Seen \subseteq Channels \X Priorities
         /\ IsFiniteSet(Seen) /\ Cardinality(Seen) \in Nat
<1>1. Seen \subseteq Channels \X Priorities
  BY MessageFacts DEF Seen, Addressed
<1>2. IsFiniteSet(Channels \X Priorities)
  <2>1. IsFiniteSet(Channels) /\ IsFiniteSet(Priorities)
    <3>1. 0 \in Int /\ NumChannels - 1 \in Int /\ NumPriorities - 1 \in Int
      BY SizesAssumption
    <3> QED BY <3>1, FS_Interval DEF Channels, Priorities
  <2> QED BY <2>1, FS_Product
<1>3. IsFiniteSet(Seen)
  BY <1>1, <1>2, FS_Subset
<1> QED BY <1>1, <1>3, FS_CardinalityType

(* The abstract module counts as this one does.                            *)
LEMMA SameCardinality == \A S : README!Cardinality(S) = Cardinality(S)
  BY DEF README!Cardinality, Cardinality

(* A step that calls no _priority visits no pair that is addressed.        *)
LEMMA SameSeen ==
  ASSUME TypeOK, Walk, msg # NoMessage, msg.depth = "priority",
         SkipChannel \/ Channel \/ SkipPriority \/ PrioritiesDone
  PROVE  Seen' = Seen /\ msg' = msg /\ slots' = slots /\ before' = before
         /\ UNCHANGED <<cur_value, cur_set, cur_arg>>
<1>1. /\ msg' = msg /\ chan \in Nat /\ prio \in Int
      /\ UNCHANGED <<slots, before, cur_value, cur_set, cur_arg>>
  BY DEF SkipChannel, Channel, SkipPriority, PrioritiesDone, TypeOK, cursor
<1>2. ASSUME NEW c \in msg.chans, NEW p \in msg.prios
      PROVE  Visited(c, p)' <=> Visited(c, p)
  <2>1. c \in Nat /\ c < NumChannels /\ p \in Nat /\ p < NumPriorities
    <3>1. c \in Channels /\ p \in Priorities
      BY MessageFacts
    <3> QED BY <3>1, SizesAssumption DEF Channels, Priorities
  <2>2. CASE SkipChannel
    <3>1. c # chan /\ prio = -1 /\ chan' = chan + 1 /\ prio' = -1
      BY <2>2 DEF SkipChannel, OverChannels
    <3> QED BY <3>1, <2>1, <1>1 DEF Visited
  <2>3. CASE Channel
    <3>1. prio = -1 /\ prio' = 0 /\ chan' = chan
      BY <2>3 DEF Channel, OverChannels
    <3> QED BY <3>1, <2>1, <1>1 DEF Visited
  <2>4. CASE SkipPriority
    <3>1. p # prio /\ prio' = prio + 1 /\ chan' = chan
      BY <2>4 DEF SkipPriority
    <3> QED BY <3>1, <2>1, <1>1 DEF Visited
  <2>5. CASE PrioritiesDone
    <3>1. prio = NumPriorities /\ prio' = -1 /\ chan' = chan + 1
      BY <2>5 DEF PrioritiesDone
    <3> QED BY <3>1, <2>1, <1>1 DEF Visited
  <2> QED BY <2>2, <2>3, <2>4, <2>5
<1>3. Seen = {cp \in msg.chans \X msg.prios : Visited(cp[1], cp[2])}
      /\ Seen' = {cp \in msg.chans \X msg.prios : Visited(cp[1], cp[2])'}
  BY <1>1 DEF Seen, Addressed, Visited
<1>4. \A cp \in msg.chans \X msg.prios : Visited(cp[1], cp[2])' <=> Visited(cp[1], cp[2])
  BY <1>2 DEF Visited
<1> QED BY <1>1, <1>3, <1>4

(* _priority visits one more, and those visited by then are those that     *)
(* precede it in channel-major order.                                      *)
LEMMA OneMoreSeen ==
  ASSUME TypeOK, Walk, Priority
  PROVE  /\ <<chan, prio>> \in Addressed /\ <<chan, prio>> \notin Seen
         /\ Seen' = Seen \cup {<<chan, prio>>}
         /\ README!Rank(msg, chan, prio) = Cardinality(Seen')
<1>1. /\ msg # NoMessage /\ msg' = msg /\ chan' = chan /\ prio' = prio + 1
      /\ prio \in msg.prios /\ prio \in Nat /\ chan \in Nat
  BY SizesAssumption DEF Priority, OverPriorities, TypeOK, Priorities
<1>2. chan \in msg.chans
  BY <1>1 DEF Walk
<1>3. \A cp \in Addressed : cp[1] \in Nat /\ cp[2] \in Nat
  BY <1>1, MessageFacts, SizesAssumption DEF Addressed, Channels, Priorities
<1>4. Seen' = {cp \in Addressed : cp[1] < chan \/ (cp[1] = chan /\ cp[2] < prio + 1)}
  BY <1>1 DEF Seen, Addressed, Visited
<1>5. Seen = {cp \in Addressed : cp[1] < chan \/ (cp[1] = chan /\ cp[2] < prio)}
  BY DEF Seen, Visited
<1>6. {cp \in Addressed : cp[1] < chan \/ (cp[1] = chan /\ cp[2] <= prio)} = Seen'
  BY <1>1, <1>3, <1>4
<1>7. \A cp \in Addressed : cp = <<cp[1], cp[2]>>
  BY DEF Addressed
<1>8. <<chan, prio>> \in Addressed
  BY <1>1, <1>2 DEF Addressed
<1>9. Seen' = Seen \cup {<<chan, prio>>}
  BY <1>1, <1>3, <1>4, <1>5, <1>7, <1>8
<1>10. README!Rank(msg, chan, prio) = Cardinality(Seen')
  <2>1. README!Rank(msg, chan, prio) =
          Cardinality({cp \in Addressed : cp[1] < chan \/ (cp[1] = chan /\ cp[2] <= prio)})
    BY SameCardinality DEF README!Rank, Addressed
  <2> QED BY <2>1, <1>6
<1> QED BY <1>1, <1>5, <1>8, <1>9, <1>10

(* _priority changes one pair of the slots, that of the walk.              *)
LEMMA OnePairChanges ==
  ASSUME TypeOK, Walk, Priority
  PROVE  /\ \A c \in Channels, p \in Priorities : <<c, p>> # <<chan, prio>> =>
              /\ p \in slots'[c].mask <=> p \in slots[c].mask
              /\ slots'[c].data[p] = slots[c].data[p]
         /\ Level(slots')[chan][prio] = IF cur_set' THEN cur_value' ELSE Unset
<1>1. /\ msg # NoMessage /\ prio # -1 /\ prio \in Priorities
      /\ cur_channel = chan /\ chan \in Channels /\ slots \in [Channels -> Slot]
      /\ slots' = [slots EXCEPT ![chan] = IF cur_set' THEN slot_set_val(@, prio, cur_value')
                                          ELSE slot_clr_val(@, prio)]
  <2>1. msg # NoMessage /\ prio \in Priorities /\ prio # -1
    BY SizesAssumption DEF Priority, OverPriorities, Priorities
  <2>2. cur_channel = chan /\ chan \in Channels /\ slots \in [Channels -> Slot]
    BY <2>1, MessageFacts DEF TypeOK, Walk
  <2> QED BY <2>1, <2>2 DEF Priority
<1>2. slots[chan] \in Slot /\ slots[chan].data \in [Priorities -> Byte]
  BY <1>1 DEF Slot
<1>3. /\ \A c \in Channels : c # chan => slots'[c] = slots[c]
      /\ slots'[chan] = IF cur_set' THEN slot_set_val(slots[chan], prio, cur_value')
                        ELSE slot_clr_val(slots[chan], prio)
  BY <1>1
<1>4. /\ \A p \in Priorities : p # prio =>
            /\ p \in slots'[chan].mask <=> p \in slots[chan].mask
            /\ slots'[chan].data[p] = slots[chan].data[p]
      /\ prio \in slots'[chan].mask <=> cur_set'
      /\ cur_set' => slots'[chan].data[prio] = cur_value'
  <2>1. CASE cur_set'
    BY <2>1, <1>1, <1>2, <1>3 DEF slot_set_val
  <2>2. CASE ~cur_set'
    BY <2>2, <1>1, <1>2, <1>3 DEF slot_clr_val
  <2> QED BY <2>1, <2>2
<1>5. Level(slots')[chan][prio] = IF prio \in slots'[chan].mask THEN slots'[chan].data[prio] ELSE Unset
  BY <1>1 DEF Level
<1> QED BY <1>3, <1>4, <1>5

(* The pairs that are not visited keep what they had.                      *)
LEMMA UntouchedInv ==
  ASSUME TypeOK, Walk, Untouched, [Next]_vars
  PROVE  Untouched'
<1>1. CASE \E m \in Messages : Receive(m)
  <2>1. slots' = slots /\ before' = slots
    BY <1>1 DEF Receive
  <2> QED BY <2>1 DEF Untouched
<1>2. CASE Done
  <2>1. slots' = slots /\ before' = slots
    BY <1>2 DEF Done
  <2> QED BY <2>1 DEF Untouched
<1>3. CASE SkipChannel \/ Channel \/ SkipPriority \/ PrioritiesDone
  <2>1. msg # NoMessage /\ msg' = msg /\ slots' = slots /\ before' = before
    BY <1>3 DEF SkipChannel, Channel, SkipPriority, PrioritiesDone, OverChannels, OverPriorities,
                cursor
  <2>2. msg.depth = "priority" => Seen' = Seen
    BY <1>3, <2>1, SameSeen
  <2> QED BY <2>1, <2>2 DEF Untouched
<1>4. CASE Priority
  <2>1. msg # NoMessage /\ msg' = msg /\ before' = before /\ msg.depth = "priority"
    BY <1>4 DEF Priority, OverPriorities
  <2>2. Seen' = Seen \cup {<<chan, prio>>}
    BY <1>4, OneMoreSeen
  <2> SUFFICES ASSUME NEW c \in Channels, NEW p \in Priorities, <<c, p>> \notin Seen'
               PROVE  /\ p \in slots'[c].mask <=> p \in before[c].mask
                      /\ slots'[c].data[p] = before[c].data[p]
    BY <2>1 DEF Untouched
  <2>3. <<c, p>> \notin Seen /\ <<c, p>> # <<chan, prio>>
    BY <2>2
  <2>4. p \in slots[c].mask <=> p \in before[c].mask
    BY <2>3 DEF Untouched
  <2>5. slots[c].data[p] = before[c].data[p]
    BY <2>3 DEF Untouched
  <2> QED BY <1>4, <2>3, <2>4, <2>5, OnePairChanges
<1>5. CASE Fill \/ UNCHANGED vars
  BY <1>5 DEF Fill, vars, Untouched, Seen, Addressed, Visited
<1> QED BY <1>1, <1>2, <1>3, <1>4, <1>5 DEF Next, Dispatch

(* Every pair visited gets what the README deals it.                       *)
LEMMA DealingInv ==
  ASSUME TypeOK, Walk, Dealing, [Next]_vars
  PROVE  Dealing'
<1>1. ASSUME NEW m \in Messages, Receive(m) PROVE Dealing'
  <2>1. /\ msg' = m /\ cur_set' = FALSE /\ cur_arg' = 1 /\ chan' = 0 /\ prio' = -1
    BY <1>1 DEF Receive
  <2>2. /\ m.chans \in SUBSET Channels /\ m.prios \in SUBSET Priorities
        /\ m.args \in Seq(Arg) /\ Len(m.args) \in Nat
    BY MessagesAssumption DEF Message
  <2>3. Seen' = {}
    <3> SUFFICES ASSUME NEW c \in m.chans, NEW p \in m.prios
                 PROVE  ~(c < 0 \/ (c = 0 /\ p < -1))
      BY <2>1 DEF Seen, Addressed, Visited
    <3>1. c \in 0..(NumChannels - 1) /\ p \in 0..(NumPriorities - 1)
      BY <2>2 DEF Channels, Priorities
    <3> QED BY <3>1, SizesAssumption
  <2>4. Cardinality(Seen') = 0
    BY <2>3, FS_EmptySet
  <2>5. README!Dealt(m.args, 0) = Unset
    BY <2>2, DealtNone
  <2> QED BY <2>1, <2>2, <2>3, <2>4, <2>5 DEF Dealing, Lower
<1>2. CASE SkipChannel \/ Channel \/ SkipPriority \/ PrioritiesDone
  <2>1. msg # NoMessage /\ msg' = msg
    BY <1>2 DEF SkipChannel, Channel, SkipPriority, PrioritiesDone, OverChannels, OverPriorities,
                cursor
  <2>2. msg.depth = "priority" =>
          Seen' = Seen /\ slots' = slots /\ UNCHANGED <<cur_value, cur_set, cur_arg>>
    BY <1>2, <2>1, SameSeen
  <2> QED BY <2>1, <2>2 DEF Dealing
<1>3. CASE Priority
  <2>1. /\ msg # NoMessage /\ msg' = msg /\ msg.depth = "priority" /\ TakeArg
    BY <1>3 DEF Priority, OverPriorities
  <2> DEFINE k == Cardinality(Seen)
             args == msg.args
  <2>2. /\ k \in Nat /\ args \in Seq(Arg) /\ Len(args) \in Nat
        /\ cur_arg = Lower(k, Len(args)) + 1
        /\ README!Dealt(args, k) = IF cur_set THEN cur_value ELSE Unset
    BY <2>1, SeenFacts, MessageFacts DEF Dealing
  <2>3. Cardinality(Seen') = k + 1
    BY <1>3, <2>1, OneMoreSeen, SeenFacts, FS_AddElement
  <2>4. cur_arg' = Lower(k + 1, Len(args)) + 1
    <3>1. cur_arg' = IF cur_arg <= Len(args) THEN cur_arg + 1 ELSE cur_arg
      BY <2>1, TakeArgFacts DEF Walk
    <3> HIDE DEF k, args
    <3> QED BY <3>1, <2>2 DEF Lower
  <2>5. README!Dealt(args, k + 1) = IF cur_set' THEN cur_value' ELSE Unset
    <3>1. IF cur_arg <= Len(args) /\ args[cur_arg].type = "i"
          THEN cur_value' = args[cur_arg].i % 256 /\ cur_set' = TRUE
          ELSE UNCHANGED <<cur_value, cur_set>>
      BY <2>1, TakeArgFacts DEF Walk
    <3>2. README!Dealt(args, k + 1) =
            IF k + 1 <= Len(args) /\ args[k + 1].type = "i" THEN args[k + 1].i % 256
            ELSE README!Dealt(args, k)
      BY <2>2, DealtNext
    <3>3. IF k + 1 <= Len(args) THEN cur_arg = k + 1 ELSE cur_arg > Len(args)
      <4> HIDE DEF k, args
      <4> QED BY <2>2 DEF Lower
    <3> HIDE DEF k, args
    <3> QED BY <3>1, <3>2, <3>3, <2>2
  <2>6. ASSUME NEW cp \in Seen'
        PROVE  Level(slots')[cp[1]][cp[2]] = README!Dealt(args, README!Rank(msg, cp[1], cp[2]))
    <3>1. CASE cp = <<chan, prio>>
      BY <3>1, <1>3, <2>3, <2>5, OneMoreSeen, OnePairChanges
    <3>2. CASE cp # <<chan, prio>>
      <4>1. cp \in Seen /\ cp \in Channels \X Priorities /\ cp = <<cp[1], cp[2]>>
        BY <3>2, <1>3, <2>1, OneMoreSeen, SeenFacts
      <4>2. Level(slots')[cp[1]][cp[2]] = Level(slots)[cp[1]][cp[2]]
        BY <4>1, <3>2, <1>3, OnePairChanges DEF Level
      <4> QED BY <4>1, <4>2, <2>1 DEF Dealing
    <3> QED BY <3>1, <3>2
  <2> QED BY <2>1, <2>3, <2>4, <2>5, <2>6 DEF Dealing
<1>4. CASE Done
  BY <1>4 DEF Done, Dealing
<1>5. CASE Fill \/ UNCHANGED vars
  <2>1. UNCHANGED <<slots, cur_value, cur_set, cur_arg, msg, chan, prio>>
    BY <1>5 DEF Fill, vars, cursor
  <2>2. Seen' = Seen
    BY <2>1 DEF Seen, Addressed, Visited
  <2> QED BY <2>1, <2>2 DEF Dealing
<1> QED BY <1>1, <1>2, <1>3, <1>4, <1>5 DEF Next, Dispatch
-----------------------------------------------------------------------------
LEMMA NextInv ==
  ASSUME IInv, [Next]_vars
  PROVE  IInv'
  BY TypeInv, WalkInv, UntouchedInv, DealingInv DEF IInv

LEMMA InductiveInvariant == Spec => []IInv
<1>1. Init => IInv
  BY InitInv
<1>2. IInv /\ [Next]_vars => IInv'
  BY NextInv
<1> QED BY <1>1, <1>2, PTL DEF Spec

(* Types: the cursors, and with them every access of _channel and          *)
(* _priority to the slots, stay inside the tree; every value is a byte.    *)
THEOREM TypeCorrect == Spec => []TypeOK
<1>1. IInv => TypeOK
  BY DEF IInv
<1> QED BY <1>1, InductiveInvariant, PTL

(* At every moment of the walk the arguments consumed are as many as the   *)
(* pairs _priority was called for, or all of them; every other pair is as  *)
(* it was when the message arrived; and _priority is called for the        *)
(* channel that _channel was called for.                                   *)
THEOREM NothingChangesAhead == Spec => []NothingAhead
<1>1. IInv => NothingAhead
  <2> SUFFICES ASSUME IInv, msg # NoMessage PROVE NothingAhead
    BY DEF NothingAhead
  <2>1. prio \in Priorities => cur_channel = chan
    BY SizesAssumption DEF IInv, Walk, Priorities
  <2>2. IF msg.depth = "priority" THEN Called = Seen ELSE Called = {}
    BY DEF Called, Seen, Addressed
  <2>3. ASSUME NEW c \in Channels, NEW p \in Priorities, <<c, p>> \notin Called
        PROVE  /\ p \in slots[c].mask <=> p \in before[c].mask
               /\ slots[c].data[p] = before[c].data[p]
    <3>1. msg.depth # "priority" \/ <<c, p>> \notin Seen
      BY <2>2, <2>3
    <3> QED BY <3>1 DEF IInv, Untouched
  <2>4. cur_arg = Lower(Cardinality(Called), Len(msg.args)) + 1
    <3>1. CASE msg.depth = "priority"
      BY <2>2, <3>1 DEF IInv, Dealing
    <3>2. CASE msg.depth # "priority"
      <4>1. Cardinality(Called) = 0 /\ Len(msg.args) \in Nat /\ cur_arg = 1
        BY <2>2, <3>2, FS_EmptySet, MessageFacts DEF IInv, Walk
      <4> QED BY <4>1 DEF Lower
    <3> QED BY <3>1, <3>2
  <2> QED BY <2>1, <2>3, <2>4 DEF NothingAhead
<1> QED BY <1>1, InductiveInvariant, PTL
-----------------------------------------------------------------------------
(* The refinement *)

(* Slots that agree on every pair look the same to the README.             *)
LEMMA SameLevel ==
  ASSUME TypeOK, \A c \in Channels, p \in Priorities :
           /\ p \in slots[c].mask <=> p \in before[c].mask
           /\ slots[c].data[p] = before[c].data[p]
  PROVE  Level(slots) = Level(before)
  BY DEF Level

(* When the walk ends, every pair that is addressed was visited.           *)
LEMMA AllSeen ==
  ASSUME TypeOK, Done
  PROVE  Seen = Addressed
<1>1. msg # NoMessage /\ chan = NumChannels
  BY DEF Done
<1>2. ASSUME NEW cp \in Addressed PROVE Visited(cp[1], cp[2])
  <2>1. cp[1] \in Channels
    BY <1>1, MessageFacts DEF Addressed
  <2> QED BY <1>1, <2>1, SizesAssumption DEF Visited, Channels
<1> QED BY <1>2 DEF Seen

(* At the end of the walk the message that was received, as a whole, has   *)
(* had its effect.                                                         *)
LEMMA DoneApplies ==
  ASSUME IInv, Done
  PROVE  README!Apply
<1>1. TypeOK /\ msg # NoMessage /\ msg' = NoMessage /\ before' = slots /\ dmx' = dmx
  BY DEF IInv, Done
<1>2. ASSUME NEW c \in Channels, NEW p \in Priorities
      PROVE  Level(slots)[c][p] =
               IF msg.depth = "priority" /\ c \in msg.chans /\ p \in msg.prios
               THEN README!Dealt(msg.args, README!Rank(msg, c, p))
               ELSE Level(before)[c][p]
  <2>1. CASE msg.depth = "priority" /\ c \in msg.chans /\ p \in msg.prios
    <3>1. <<c, p>> \in Seen
      BY <1>1, <2>1, AllSeen DEF Addressed
    <3>2. Level(slots)[<<c, p>>[1]][<<c, p>>[2]]
            = README!Dealt(msg.args, README!Rank(msg, <<c, p>>[1], <<c, p>>[2]))
      BY <1>1, <2>1, <3>1 DEF IInv, Dealing
    <3> QED BY <2>1, <3>2
  <2>2. CASE ~(msg.depth = "priority" /\ c \in msg.chans /\ p \in msg.prios)
    <3>1. msg.depth # "priority" \/ <<c, p>> \notin Seen
      BY <2>2 DEF Seen, Addressed
    <3>2. /\ p \in slots[c].mask <=> p \in before[c].mask
          /\ slots[c].data[p] = before[c].data[p]
      BY <3>1 DEF IInv, Untouched
    <3> QED BY <2>2, <3>2 DEF Level
  <2> QED BY <2>1, <2>2
<1>3. Level(slots) = [c \in Channels |-> [p \in Priorities |->
        IF msg.depth = "priority" /\ c \in msg.chans /\ p \in msg.prios
        THEN README!Dealt(msg.args, README!Rank(msg, c, p))
        ELSE Level(before)[c][p]]]
  <2>1. Level(slots) = [c \in Channels |-> [p \in Priorities |-> Level(slots)[c][p]]]
    BY DEF Level
  <2> QED BY <2>1, <1>2
<1> QED BY <1>1, <1>3 DEF README!Apply, Level

(* The frame that _beat fills shows what the README says.                  *)
LEMMA FillShows ==
  ASSUME IInv, Fill
  PROVE  README!Show
<1>1. /\ TypeOK /\ msg = NoMessage /\ msg' = msg /\ before' = before
      /\ dmx' = [c \in Channels |-> slot_get_val(slots[c])]
  BY DEF IInv, Fill
<1>2. Level(slots) = Level(before)
  BY <1>1, SameLevel DEF IInv, Untouched
<1>3. ASSUME NEW c \in Channels
      PROVE  slot_get_val(slots[c]) = README!Highest(Level(before)[c])
  <2> DEFINE values == Level(slots)[c]
             set == {p \in Priorities : values[p] # Unset}
  <2>1. slots[c] \in Slot
    BY <1>1 DEF TypeOK
  <2>2. slots[c].mask \in SUBSET Priorities /\ slots[c].data \in [Priorities -> Byte]
    BY <2>1 DEF Slot
  <2>3. \A p \in Priorities : values[p] = IF p \in slots[c].mask THEN slots[c].data[p] ELSE Unset
    BY DEF Level
  <2>4. set = slots[c].mask
    BY <2>2, <2>3 DEF Unset, Byte
  <2>5. README!Highest(values) = IF set = {} THEN 0
          ELSE values[CHOOSE p \in set : \A q \in set : q <= p]
    BY DEF README!Highest
  <2>6. CASE slots[c].mask = {}
    BY <2>4, <2>5, <2>6, <1>2 DEF slot_get_val, slot_has_val
  <2>7. CASE slots[c].mask # {}
    <3> DEFINE top == CHOOSE p \in slots[c].mask : \A q \in slots[c].mask : q <= p
    <3>1. top \in slots[c].mask /\ slot_get_val(slots[c]) = slots[c].data[top]
      BY <2>1, <2>7, GetVal DEF slot_has_val
    <3>2. README!Highest(values) = values[top]
      BY <2>4, <2>5, <2>7
    <3> HIDE DEF top, values
    <3>3. values[top] = slots[c].data[top]
      BY <2>2, <2>3, <3>1
    <3>4. README!Highest(Level(before)[c]) = README!Highest(values)
      BY <1>2 DEF values
    <3> QED BY <3>1, <3>2, <3>3, <3>4
  <2> QED BY <2>6, <2>7
<1> QED BY <1>1, <1>3 DEF README!Show, Level

(* Node by node, with three cursors carried along, the dispatcher and the  *)
(* handlers do what the README says of the message that was received, as a *)
(* whole and by its own arguments only, and the frame shows on every       *)
(* channel the value at the highest priority set.                          *)
THEOREM SlotsImplementDesk == Spec => DoesWhatTheReadmeSays
<1>1. Init => README!Init
  BY DEF Init, Empty, README!Init
<1>2. IInv /\ [Next]_vars => [README!Next]_(README!vars)
  <2> SUFFICES ASSUME IInv, [Next]_vars PROVE [README!Next]_(README!vars)
    OBVIOUS
  <2>1. ASSUME NEW m \in Messages, Receive(m) PROVE README!Next
    <3>1. TypeOK /\ msg = NoMessage /\ msg' = m /\ before' = slots /\ dmx' = dmx
      BY <2>1 DEF Receive, IInv
    <3>2. Level(slots) = Level(before)
      BY <3>1, SameLevel DEF IInv, Untouched
    <3>3. README!Receive(m)
      BY <3>1, <3>2 DEF README!Receive, Level
    <3> QED BY <3>3 DEF README!Next
  <2>2. CASE Done
    BY <2>2, DoneApplies DEF README!Next
  <2>3. CASE Fill
    BY <2>3, FillShows DEF README!Next
  <2>4. CASE SkipChannel \/ Channel \/ SkipPriority \/ Priority \/ PrioritiesDone \/ UNCHANGED vars
    <3>1. msg' = msg /\ before' = before /\ dmx' = dmx
      BY <2>4 DEF SkipChannel, Channel, SkipPriority, Priority, PrioritiesDone, vars
    <3> QED BY <3>1 DEF README!vars
  <2> QED BY <2>1, <2>2, <2>3, <2>4 DEF Next, Dispatch
<1> QED BY <1>1, <1>2, InductiveInvariant, PTL DEF Spec, DoesWhatTheReadmeSays, README!Spec
=============================================================================
