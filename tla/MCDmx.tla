------------------------------- MODULE MCDmx -------------------------------
(* Two channels and two priorities, every set of them addressed, with      *)
(* fewer, as many, and more arguments than pairs, integers that do and do  *)
(* not fit a byte, and arguments of other types first and last.            *)
EXTENDS Dmx

I(n) == [type |-> "i", i |-> n]
Other == [type |-> "other", i |-> 0]

MCArgs == {<< >>, <<I(1)>>, <<I(258), I(1)>>, <<I(1), I(258), I(1)>>,
           <<Other>>, <<Other, I(1)>>, <<I(258), Other>>}

MCMessages ==
  [chans : SUBSET Channels, prios : SUBSET Priorities \ {{}},
   depth : {"priority"}, args : MCArgs]
  \cup [chans : {{1}}, prios : {{0}}, depth : {"channel", "below"}, args : {<<I(1)>>}]
=============================================================================
