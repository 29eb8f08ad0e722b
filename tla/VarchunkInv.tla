--------------------------- MODULE VarchunkInv ---------------------------
(***************************************************************************)
(* The inductive invariant of the ring: why head, tail and the headers in  *)
(* the array are enough for both threads to agree on where chunks are.  It *)
(* is stated with the absolute addresses of the history variables, which   *)
(* only grow, and with Offset, which takes them back to the array.         *)
(***************************************************************************)
EXTENDS Varchunk

Aligned == base % 8 = 0 /\ \A i \in Unread : chunks[i].from % 8 = 0 /\ chunks[i].gap % 8 = 0

(* Unread chunks fill the addresses from Rpos to Wpos in order, back to    *)
(* back at both ends.                                                      *)
Chain ==
  /\ got = Len(chunks) => Wpos = Rpos
  /\ got < Len(chunks) => chunks[got + 1].from = Rpos /\ End(Len(chunks)) = Wpos
  /\ \A i \in Unread : Rpos <= chunks[i].from /\ End(i) <= Wpos
  /\ \A i \in Unread : i + 1 \in Unread => chunks[i + 1].from = End(i)
  /\ \A i, j \in Unread : i < j => End(i) <= chunks[j].from

(* The array holds what was published: the header and the body of chunk i, *)
(* and, when the chunk did not fit at the end, the gap's header.           *)
Stored(i) ==
  /\ chunks[i].gap > 0 =>
       /\ Offset(chunks[i].from) + chunks[i].gap = Size
       /\ mem[Offset(chunks[i].from)].gap = 1
  /\ Offset(Elmnt(i)) + Header + Pad(chunks[i].size) <= Size
  /\ mem[Offset(Elmnt(i))] = HeaderCell(chunks[i].size, 0)
  /\ \A c \in Body(Offset(Elmnt(i)), chunks[i].size) : mem[c].id = i

Memory == \A i \in Unread : Stored(i)

(* The reservation is aligned, large enough, and stays a byte short of the *)
(* oldest unread chunk, even as that one moves.                            *)
Reservation ==
  wpc # "idle" =>
    /\ rsvd >= Padded(want)
    /\ gapd % 8 = 0
    /\ Wpos + gapd + rsvd < Rpos + Size
    /\ gapd > 0 => head + gapd = Size
    /\ gapd = 0 => head + rsvd <= Size

Writing ==
  /\ wpc \in {"written", "header"} =>
       /\ written <= want
       /\ \A c \in Body(ElmntOffset, written) : mem[c].id = Len(chunks) + 1
  /\ wpc = "header" =>
       /\ mem[ElmntOffset] = HeaderCell(written, 0)
       /\ gapd > 0 => mem[head].gap = 1

(* A gap at tail implies that the readable area was seen to wrap.          *)
Reading ==
  /\ rpc # "idle" => got < Len(chunks)
  /\ rpc = "loaded" /\ chunks[got + 1].gap > 0 => rwrap
  /\ rpc \in {"skipped", "reading"} => chunks[got + 1].gap = 0
  /\ rpc = "skipped" => tail = 0
  /\ rpc = "reading" => rptr = tail /\ toread = chunks[got + 1].size

IInv ==
  /\ TypeOK
  /\ Aligned
  /\ Chain
  /\ Memory
  /\ Reservation
  /\ Writing
  /\ Reading
===========================================================================
