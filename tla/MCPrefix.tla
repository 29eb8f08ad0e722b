----------------------------- MODULE MCPrefix -----------------------------
(* Two packets, either of which is shorter than a length, and a ring of    *)
(* one packet.                                                             *)
EXTENDS PrefixStream

MCLengths == <<1, 2>>
===========================================================================
