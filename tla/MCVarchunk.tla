---------------------------- MODULE MCVarchunk ----------------------------
(* A ring of eight cells (64 bytes): large enough that a request can be    *)
(* granted in the first part, in the second part behind a gap, or in the   *)
(* contiguous part, and be refused in each; small enough that five chunks  *)
(* take head and tail round the ring more than once.                       *)
EXTENDS VarchunkInv

\* an empty body, less than a cell, one past a cell, three cells
MCSizes == {0, 7, 9, 24}
===========================================================================
