------------------------------ MODULE MCBridge ------------------------------
(* Two frames to the second, three datagrams and three messages: immediate *)
(* ones, messages under timetags that are past, of this second and of the  *)
(* next, with and without a fraction, in any order of arrival, and a bundle *)
(* that mixes them.  At the horizon every timetag has come.  The socket    *)
(* queues one datagram and the ring holds two, so that both overflow.      *)
EXTENDS Bridge

MCPackets ==
  {<<Immediate>>, <<1>>, <<2>>, <<3, Immediate, 3>>}
=============================================================================
