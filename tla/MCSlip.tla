------------------------------ MODULE MCSlip ------------------------------
(* Three packets that begin with an ordinary byte, as every OSC packet     *)
(* does with '/' or '#', each with its own: one with an End in the middle  *)
(* and an Esc at the end, two with nothing to be escaped.                  *)
EXTENDS SlipStream

MCPayloads == << <<1, End, Esc>>, <<2>>, <<3>> >>
===========================================================================
