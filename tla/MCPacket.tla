------------------------------ MODULE MCPacket ------------------------------
(* Messages without arguments, with arguments of one word, of two, of none *)
(* and of as many as they say, in bundles two deep.  Two or three messages *)
(* in them fit into the buffer; the longest packets do not.                *)
EXTENDS Packet

Text(text, bytes) == [text |-> text, bytes |-> bytes]

MCMessages ==
  {[path |-> Text("/a", 2), args |-> << >>],
   [path |-> Text("/dmx", 4),
    args |-> <<[type |-> "s", value |-> Text("abcd", 4)],
               [type |-> "T", value |-> Text("true", 0)],
               [type |-> "h", value |-> Text("5", 0)]>>],
   [path |-> Text("/b", 2),
    args |-> <<[type |-> "b", value |-> Text("blob5", 5)],
               [type |-> "i", value |-> Text("7", 0)]>>]}
=============================================================================
