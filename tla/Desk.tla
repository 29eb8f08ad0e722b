------------------------------- MODULE Desk -------------------------------
(***************************************************************************)
(* What the README promises to whoever sends OSC messages: every channel   *)
(* has a value, or none, at every priority; a message to a set of channels *)
(* and priorities deals its integers out in channel-major order and the    *)
(* last one goes to all that remain; a message without one clears; and a   *)
(* frame shows, on every channel, the value at the highest priority set.   *)
(* A message takes effect between its arrival and the next one's, and no   *)
(* frame is made meanwhile.                                                *)
(***************************************************************************)
EXTENDS Integers, Sequences, FiniteSets

CONSTANTS
  Channels, Priorities,  \* sets of numbers
  Messages,              \* records with chans, prios, depth and args
  NoMessage,
  Unset                  \* no value at a priority

VARIABLES
  pending,               \* the message that has arrived and not had its effect
  level,                 \* level[c][p]
  frame                  \* what was last sent on the line

vars == <<pending, level, frame>>

(* How many of the addressed pairs precede (c, p), itself included         *)
Rank(m, c, p) ==
  Cardinality({cp \in m.chans \X m.prios :
                 cp[1] < c \/ (cp[1] = c /\ cp[2] <= p)})

(* What falls to the k-th pair: the last integer of the first k arguments  *)
Dealt(args, k) ==
  LET ints == {i \in 1..Len(args) : i <= k /\ args[i].type = "i"}
  IN  IF ints = {} THEN Unset
      ELSE args[CHOOSE i \in ints : \A j \in ints : j <= i].i % 256

Highest(values) ==
  LET set == {p \in Priorities : values[p] # Unset}
  IN  IF set = {} THEN 0
      ELSE values[CHOOSE p \in set : \A q \in set : q <= p]

Init ==
  /\ pending = NoMessage
  /\ level = [c \in Channels |-> [p \in Priorities |-> Unset]]
  /\ frame = [c \in Channels |-> 0]

Receive(m) ==
  /\ pending = NoMessage
  /\ pending' = m
  /\ UNCHANGED <<level, frame>>

(* The effect is that of the message that arrived, of its arguments alone. *)
Apply ==
  /\ pending # NoMessage
  /\ pending' = NoMessage
  /\ level' = [c \in Channels |-> [p \in Priorities |->
       IF pending.depth = "priority" /\ c \in pending.chans /\ p \in pending.prios
       THEN Dealt(pending.args, Rank(pending, c, p))
       ELSE level[c][p]]]
  /\ UNCHANGED frame

Show ==
  /\ pending = NoMessage
  /\ frame' = [c \in Channels |-> Highest(level[c])]
  /\ UNCHANGED <<pending, level>>

Next == (\E m \in Messages : Receive(m)) \/ Apply \/ Show

Spec == Init /\ [][Next]_vars
===========================================================================
