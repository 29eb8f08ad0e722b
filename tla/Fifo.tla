------------------------------- MODULE Fifo -------------------------------
(***************************************************************************)
(* What a varchunk ring buffer promises to the one thread that writes it   *)
(* and the one thread that reads it: chunks come out once each, whole and  *)
(* in the order in which they went in.  The reader looks at the oldest     *)
(* chunk in place (varchunk_read_request), keeps looking at it for as long *)
(* as it likes, and then gives it back (varchunk_read_advance).            *)
(***************************************************************************)
EXTENDS Sequences

CONSTANTS
  Chunk,    \* the chunks that can be sent
  NoChunk   \* the reader holds nothing

VARIABLES
  queue,    \* chunks written and not yet given back, oldest first
  held      \* what the reader sees through the pointer it was given

vars == <<queue, held>>

Init ==
  /\ queue = << >>
  /\ held = NoChunk

Send(c) ==
  /\ queue' = Append(queue, c)
  /\ UNCHANGED held

Peek ==
  /\ held = NoChunk
  /\ queue # << >>
  /\ held' = Head(queue)
  /\ UNCHANGED queue

Release ==
  /\ held # NoChunk
  /\ queue' = Tail(queue)
  /\ held' = NoChunk

Next ==
  \/ \E c \in Chunk : Send(c)
  \/ Peek
  \/ Release

Spec == Init /\ [][Next]_vars
===========================================================================
