-------------------------- MODULE VarchunkProofs --------------------------
(***************************************************************************)
(* Proofs about the ring buffer, for every ring size, every set of chunk   *)
(* sizes and every number of chunks: IInv is inductive when callers write  *)
(* no more than they asked for, and what the program relies on follows.    *)
(***************************************************************************)
EXTENDS VarchunkInv, TLAPS

(* Padding rounds up to whole cells.                                       *)
LEMMA PadFacts ==
  ASSUME NEW n \in Nat
  PROVE  /\ Pad(n) \in Nat
         /\ Pad(n) % 8 = 0
         /\ n <= Pad(n)
         /\ \A m \in Nat : m <= n => Pad(m) <= Pad(n)
  BY DEF Pad

(* One trip round the ring at most: the mask is a conditional subtraction. *)
LEMMA MaskFacts ==
  ASSUME NEW a \in 0..(2 * Size - 1)
  PROVE  Mask(a) = IF a < Size THEN a ELSE a - Size
<1>1. CASE a < Size
  BY <1>1, SizeAssumption DEF Mask
<1>2. CASE a >= Size
  BY <1>2, SizeAssumption DEF Mask
<1> QED BY <1>1, <1>2, SizeAssumption

(* Masked offsets of whole cells are cells.                                *)
LEMMA MaskAligned ==
  ASSUME NEW a \in 0..(2 * Size - 1), a % 8 = 0
  PROVE  Mask(a) \in Cells
<1>1. CASE a < Size
  BY <1>1, MaskFacts, SizeAssumption DEF Cells
<1>2. CASE a >= Size
  <2>1. Mask(a) = a - Size
    BY <1>2, MaskFacts, SizeAssumption
  <2> QED BY <1>2, <2>1, SizeAssumption DEF Cells
<1> QED BY <1>1, <1>2, SizeAssumption

(* Moving head by less than the free space moves the producer's absolute   *)
(* address by as much, whether or not head wraps.                          *)
Lap(h, t, b) == IF h >= t THEN b + h ELSE b + Size + h

LEMMA Advance ==
  ASSUME NEW h \in 0..(Size - 1), NEW t \in 0..(Size - 1), NEW b \in Nat, NEW len \in Nat,
         Lap(h, t, b) + len < b + t + Size,
         h % 8 = 0, len % 8 = 0
  PROVE  /\ Mask(h + len) \in Cells
         /\ Lap(Mask(h + len), t, b) = Lap(h, t, b) + len
<1>1. h + len \in 0..(2 * Size - 1)
  BY SizeAssumption DEF Lap
<1>2. (h + len) % 8 = 0
  OBVIOUS
<1>3. Mask(h + len) = IF h + len < Size THEN h + len ELSE h + len - Size
  BY <1>1, MaskFacts, SizeAssumption
<1>4. Lap(Mask(h + len), t, b) = Lap(h, t, b) + len
  BY <1>1, <1>3, SizeAssumption DEF Lap
<1> QED BY <1>1, <1>2, <1>4, MaskAligned

(* An empty ring satisfies the invariant.                                  *)
LEMMA InitInv == Init => IInv
<1> SUFFICES ASSUME Init PROVE IInv
  OBVIOUS
<1> USE DEF Init
<1>1. 0 \in Cells
  BY SizeAssumption DEF Cells
<1>2. TypeOK
  BY <1>1, SizeAssumption DEF TypeOK, Junk, BodyCell, Cell
<1>3. Unread = {}
  BY DEF Unread
<1>4. Aligned
  BY <1>3 DEF Aligned
<1>5. Chain
  BY <1>3 DEF Chain, Wpos, Rpos
<1>6. Memory
  BY <1>3 DEF Memory
<1>7. Reservation /\ Writing /\ Reading
  BY DEF Reservation, Writing, Reading
<1> QED BY <1>2, <1>4, <1>5, <1>6, <1>7 DEF IInv
-----------------------------------------------------------------------------
(* Absolute addresses *)

(* The positions lie on cells, less than one lap apart.                    *)
LEMMA PosFacts ==
  ASSUME TypeOK
  PROVE  /\ Rpos \in Nat /\ Wpos \in Nat
         /\ Rpos <= Wpos /\ Wpos < Rpos + Size
         /\ Rpos % 8 = base % 8
         /\ base % 8 = 0 => Wpos % 8 = 0
         /\ Wpos = Rpos <=> head = tail
  BY SizeAssumption DEF TypeOK, Cells, Rpos, Wpos

(* An unread chunk is of a natural size, at a natural address.             *)
LEMMA ChunkFacts ==
  ASSUME TypeOK, NEW i \in Unread
  PROVE  /\ i \in Nat \ {0} /\ i <= Len(chunks)
         /\ chunks[i] \in Entry
         /\ Pad(chunks[i].size) \in Nat
         /\ Elmnt(i) \in Nat /\ End(i) \in Nat
         /\ chunks[i].from <= Elmnt(i)
         /\ Elmnt(i) + Header <= End(i)
<1>1. i \in 1..Len(chunks) /\ Len(chunks) \in Nat
  BY DEF TypeOK, Unread
<1>2. chunks[i] \in Entry
  <2>1. chunks \in Seq(Entry)
    BY DEF TypeOK
  <2> QED BY <1>1, <2>1
<1>3. Pad(chunks[i].size) \in Nat
  BY <1>2, PadFacts DEF Entry
<1> QED BY <1>1, <1>2, <1>3 DEF Elmnt, End, Header, Entry

(* head = tail means that nothing is unread.                               *)
LEMMA EmptyFacts ==
  ASSUME IInv
  PROVE  head = tail <=> got = Len(chunks)
<1>1. CASE got = Len(chunks)
  BY <1>1, PosFacts DEF IInv, Chain
<1>2. CASE got < Len(chunks)
  <2>1. got + 1 \in Unread
    BY <1>2 DEF IInv, TypeOK, Unread
  <2>2. Rpos < End(got + 1) /\ End(got + 1) <= Wpos
    BY <1>2, <2>1, ChunkFacts, PosFacts DEF IInv, Chain, Header
  <2> QED BY <1>2, <2>1, <2>2, ChunkFacts, PosFacts DEF IInv
<1> QED BY <1>1, <1>2 DEF IInv, TypeOK

(* An address between the positions of the consumer and of the producer is *)
(* never one that the producer has been given to write.                    *)
LEMMA FreeCells ==
  ASSUME IInv, wpc # "idle",
         NEW n \in Nat, Header + Pad(n) <= rsvd,
         NEW p \in Int, Rpos <= p, p < Wpos
  PROVE  /\ Offset(p) \notin Body(ElmntOffset, n)
         /\ Offset(p) # ElmntOffset
         /\ gapd > 0 => Offset(p) # head
<1> USE SizeAssumption DEF IInv, TypeOK, Header
<1>1. Pad(n) \in Nat
  BY PadFacts
<1>2. head \in 0..(Size - 1) /\ tail \in 0..(Size - 1)
  BY DEF Cells
<1>3. CASE gapd > 0
  <2>1. head + gapd = Size /\ Wpos + gapd + rsvd < Rpos + Size
    BY <1>3 DEF Reservation
  <2>2. head >= tail /\ rsvd < tail
    BY <2>1, <1>2 DEF Wpos, Rpos
  <2>3. Offset(p) = p - base /\ tail <= Offset(p) /\ Offset(p) < head
    BY <2>2, <1>2 DEF Offset, Wpos, Rpos
  <2> QED BY <2>2, <2>3, <1>1, <1>2, <1>3 DEF ElmntOffset, Body
<1>4. CASE gapd = 0
  <2>1. head + rsvd <= Size /\ Wpos + rsvd < Rpos + Size
    BY <1>4, PosFacts DEF Reservation
  <2>2. CASE head >= tail
    <3>1. Offset(p) = p - base /\ Offset(p) \in Int /\ Offset(p) < head
      BY <2>2, <1>2 DEF Offset, Wpos, Rpos
    <3> QED BY <3>1, <1>1, <1>2, <1>4 DEF ElmntOffset, Body
  <2>3. CASE head < tail
    <3>1. head + rsvd < tail
      BY <2>1, <2>3, <1>2 DEF Wpos, Rpos
    <3>2. Offset(p) \in Int /\ (Offset(p) < head \/ Offset(p) >= tail)
      BY <2>3, <1>2 DEF Offset, Wpos, Rpos
    <3> QED BY <3>1, <3>2, <1>1, <1>2, <1>4 DEF ElmntOffset, Body
  <2> QED BY <2>2, <2>3, <1>2
<1> QED BY <1>3, <1>4

(* The cells of an unread chunk all lie between those two positions.       *)
ChunkCells(i) ==
  {Offset(Elmnt(i))} \cup Body(Offset(Elmnt(i)), chunks[i].size)
    \cup (IF chunks[i].gap > 0 THEN {Offset(chunks[i].from)} ELSE {})

LEMMA OccupiedCells ==
  ASSUME IInv, NEW i \in Unread, NEW c \in ChunkCells(i)
  PROVE  \E p \in Int : Rpos <= p /\ p < Wpos /\ Offset(p) = c
<1> USE SizeAssumption DEF IInv, Header
<1>1. /\ Rpos <= chunks[i].from /\ End(i) <= Wpos
      /\ Offset(Elmnt(i)) + Header + Pad(chunks[i].size) <= Size
  BY DEF Chain, Memory, Stored
<1>2. /\ chunks[i].from \in Nat /\ chunks[i].gap \in Nat
      /\ Pad(chunks[i].size) \in Nat
      /\ Elmnt(i) \in Nat /\ chunks[i].from <= Elmnt(i)
      /\ Elmnt(i) + Header <= End(i) /\ End(i) \in Nat
      /\ Rpos \in Nat /\ Wpos \in Nat /\ base \in Nat
  BY ChunkFacts, PosFacts DEF TypeOK, Entry
<1>3. CASE c = Offset(Elmnt(i))
  BY <1>1, <1>2, <1>3
<1>4. CASE chunks[i].gap > 0 /\ c = Offset(chunks[i].from)
  BY <1>1, <1>2, <1>4 DEF Elmnt
<1>5. CASE c \in Body(Offset(Elmnt(i)), chunks[i].size)
  <2> DEFINE o == Offset(Elmnt(i))
             p == Elmnt(i) + (c - o)
  <2>1. c \in Int /\ o \in Int /\ o + Header <= c /\ c < o + Header + Pad(chunks[i].size)
    BY <1>2, <1>5 DEF Body, Cells, Offset
  <2>2. p \in Int /\ Elmnt(i) <= p /\ p < End(i)
    BY <1>2, <2>1 DEF End
  <2>3. Offset(p) = c
    BY <1>1, <1>2, <2>1, <2>2 DEF Offset
  <2> QED BY <1>1, <1>2, <2>2, <2>3
<1> QED BY <1>3, <1>4, <1>5 DEF ChunkCells

(* What the producer may write and what is unread share no cell.           *)
LEMMA DisjointCells ==
  ASSUME IInv, wpc # "idle", NEW n \in Nat, Header + Pad(n) <= rsvd,
         NEW i \in Unread, NEW c \in ChunkCells(i)
  PROVE  /\ c \notin Body(ElmntOffset, n)
         /\ c # ElmntOffset
         /\ gapd > 0 => c # head
  BY OccupiedCells, FreeCells
-----------------------------------------------------------------------------
(* Steps of the producer *)

(* Steps that move neither position leave the unread chunks where they are.*)
LEMMA SamePositions ==
  ASSUME Chain, Aligned, UNCHANGED <<head, tail, chunks, got, base>>
  PROVE  Aligned' /\ Chain'
  BY DEF Chain, Aligned, Unread, End, Elmnt, Rpos, Wpos

(* Steps that write no cell leave every unread chunk as it was stored.     *)
LEMMA SameMemory ==
  ASSUME Memory, UNCHANGED <<mem, chunks, got, base>>
  PROVE  Memory'
  BY DEF Memory, Stored, Unread, Elmnt, Offset

(* varchunk_write_request_max: what it reserves is free.                   *)
LEMMA WriteRequestInv ==
  ASSUME IInv, NEW minimum \in Sizes, WriteRequest(minimum)
  PROVE  IInv'
<1> DEFINE space == WritableSpace
           end == head + space
           len1 == Size - head
           len2 == Mask(end)
           padded == Padded(minimum)
<1>1. /\ wpc = "idle"
      /\ UNCHANGED <<head, tail, mem, rpc, rwrap, rptr, toread, chunks, got, base>>
      /\ \/ end > Size /\ len1 >= padded /\ Reserve(len1, 0, minimum)
         \/ end > Size /\ len2 >= padded /\ Reserve(len2, len1, minimum)
         \/ end <= Size /\ space >= padded /\ Reserve(space, 0, minimum)
         \/ Refuse
  BY DEF WriteRequest, shared, consumer, history
<1>2. Aligned' /\ Chain' /\ Memory' /\ Reading'
  BY <1>1, SamePositions, SameMemory DEF IInv, Reading
<1>3. wpc' \in {"idle", "reserved"}
  BY <1>1 DEF Reserve, Refuse
<1>4. Writing'
  BY <1>3 DEF Writing
<1>5. /\ head \in 0..(Size - 1) /\ tail \in 0..(Size - 1) /\ base \in Nat
      /\ head % 8 = 0 /\ minimum \in Nat /\ want \in Nat /\ written \in Nat
      /\ Wpos \in Nat /\ Rpos \in Nat
  BY SizesAssumption, PosFacts DEF IInv, TypeOK, Cells
<1>6. padded \in Nat
  <2>1. Pad(minimum) \in Nat
    BY <1>5, PadFacts
  <2> QED BY <2>1 DEF Padded, Header
<1>7. space \in Nat /\ space < Size /\ Wpos + space < Rpos + Size
  <2>1. CASE head > tail
    <3>1. Mask(tail - head + Size) = tail - head + Size
      BY <1>5, <2>1, MaskFacts, SizeAssumption
    <3> QED BY <1>5, <2>1, <3>1, SizeAssumption DEF WritableSpace, Wpos, Rpos
  <2>2. CASE ~(head > tail)
    BY <1>5, <2>2, SizeAssumption DEF WritableSpace, Wpos, Rpos
  <2> QED BY <2>1, <2>2
<1>8. end > Size => len2 = end - Size /\ len2 \in Nat
  <2> HIDE DEF space
  <2> QED BY <1>5, <1>7, MaskFacts, SizeAssumption
<1>9. len1 \in Nat /\ len1 > 0 /\ len1 % 8 = 0 /\ head + len1 = Size
  BY <1>5, SizeAssumption
<1>10. /\ rsvd' \in Nat /\ gapd' \in Nat /\ want' \in Nat /\ written' \in Nat
       /\ wpc' = "reserved" =>
            /\ rsvd' >= Padded(want')
            /\ gapd' % 8 = 0
            /\ Wpos + gapd' + rsvd' < Rpos + Size
            /\ gapd' > 0 => head + gapd' = Size
            /\ gapd' = 0 => head + rsvd' <= Size
  <2>1. CASE end > Size /\ len1 >= padded /\ Reserve(len1, 0, minimum)
    <3>1. Wpos + len1 < Rpos + Size
      <4> HIDE DEF space
      <4> QED BY <1>5, <1>7, <1>9, <2>1, SizeAssumption
    <3> HIDE DEF space, len1, len2
    <3> QED BY <2>1, <3>1, <1>5, <1>9, SizeAssumption DEF Reserve
  <2>2. CASE end > Size /\ len2 >= padded /\ Reserve(len2, len1, minimum)
    <3>1. Wpos + len1 + len2 < Rpos + Size
      <4> HIDE DEF space, len2
      <4> QED BY <1>5, <1>7, <1>8, <1>9, <2>2, SizeAssumption
    <3> HIDE DEF space, len1, len2
    <3> QED BY <2>2, <3>1, <1>5, <1>8, <1>9, SizeAssumption DEF Reserve
  <2>3. CASE end <= Size /\ space >= padded /\ Reserve(space, 0, minimum)
    <3> HIDE DEF space
    <3> QED BY <2>3, <1>5, <1>7, SizeAssumption DEF Reserve
  <2>4. CASE Refuse
    BY <2>4, <1>1, <1>5 DEF Refuse
  <2> QED BY <1>1, <2>1, <2>2, <2>3, <2>4
<1>11. TypeOK'
  BY <1>1, <1>3, <1>10 DEF IInv, TypeOK
<1>12. Reservation'
  BY <1>1, <1>3, <1>10 DEF Reservation, Wpos, Rpos
<1> QED BY <1>2, <1>4, <1>11, <1>12 DEF IInv

(* A reservation that is not used may be forgotten.                        *)
LEMMA AbandonInv ==
  ASSUME IInv, Abandon
  PROVE  IInv'
<1> USE DEF IInv, Abandon, shared, consumer, history
<1>1. Aligned' /\ Chain' /\ Memory'
  BY SamePositions, SameMemory
<1>2. TypeOK'
  BY DEF TypeOK
<1>3. Reservation' /\ Writing' /\ Reading'
  BY DEF Reservation, Writing, Reading
<1> QED BY <1>1, <1>2, <1>3

(* A step that writes only cells of the reservation leaves every unread    *)
(* chunk as it was stored.                                                 *)
LEMMA UnreadKept ==
  ASSUME IInv, wpc # "idle", NEW n \in Nat, Header + Pad(n) <= rsvd,
         UNCHANGED <<chunks, got, base>>,
         \A c \in Cells :
            c \notin Body(ElmntOffset, n) /\ c # ElmntOffset /\ (gapd > 0 => c # head)
              => mem'[c] = mem[c]
  PROVE  Memory'
<1> SUFFICES ASSUME NEW i \in Unread PROVE Stored(i)'
  BY DEF Memory, Unread
<1>1. Stored(i)
  BY DEF IInv, Memory
<1>2. ASSUME NEW c \in ChunkCells(i), c \in Cells PROVE mem'[c] = mem[c]
  BY <1>2, DisjointCells
<1>3. Offset(Elmnt(i)) \in Cells /\ Offset(chunks[i].from) \in Cells
  <2>1. /\ chunks[i].from \in Nat /\ chunks[i].gap \in Nat /\ Elmnt(i) \in Nat
        /\ chunks[i].from <= Elmnt(i) /\ Elmnt(i) + Header <= End(i) /\ End(i) \in Nat
        /\ Rpos \in Nat /\ Wpos \in Nat /\ Wpos < Rpos + Size
        /\ base \in Nat /\ base % 8 = 0 /\ base <= Rpos /\ Rpos < base + Size
    <3>1. TypeOK /\ base % 8 = 0
      BY DEF IInv, Aligned
    <3>2. base \in Nat /\ base <= Rpos /\ Rpos < base + Size
      BY <3>1, SizeAssumption DEF TypeOK, Cells, Rpos
    <3> QED BY <3>1, <3>2, ChunkFacts, PosFacts DEF Entry
  <2>2. Rpos <= chunks[i].from /\ End(i) <= Wpos
    BY DEF IInv, Chain
  <2>3. chunks[i].from % 8 = 0 /\ chunks[i].gap % 8 = 0
    BY DEF IInv, Aligned
  <2>4. Elmnt(i) % 8 = 0
    BY <2>1, <2>3 DEF Elmnt
  <2> QED BY <2>1, <2>2, <2>3, <2>4, SizeAssumption DEF Offset, Cells, Header
<1> QED BY <1>1, <1>2, <1>3 DEF Stored, ChunkCells, Elmnt, Offset, Body

(* The caller fills cells of its reservation only.                         *)
LEMMA WriteInv ==
  ASSUME IInv, ~UseMaximum, NEW n \in Sizes \cup {rsvd}, Write(n)
  PROVE  IInv'
<1>1. /\ wpc = "reserved" /\ wpc' = "written" /\ written' = n /\ n <= want
      /\ UNCHANGED <<head, tail, rsvd, gapd, want, rpc, rwrap, rptr, toread, chunks, got, base>>
      /\ mem' = [c \in Cells |-> IF c \in Body(ElmntOffset, n)
                                 THEN BodyCell(Len(chunks) + 1) ELSE mem[c]]
  BY DEF Write, Limit, consumer, history
<1>2. n \in Nat /\ want \in Nat /\ rsvd \in Nat /\ Len(chunks) \in Nat
  BY SizesAssumption DEF IInv, TypeOK
<1>3. Header + Pad(n) <= rsvd
  <2>1. Pad(n) <= Pad(want) /\ Pad(n) \in Nat /\ Pad(want) \in Nat
    BY <1>1, <1>2, PadFacts
  <2>2. rsvd >= Padded(want)
    BY <1>1 DEF IInv, Reservation
  <2> QED BY <1>2, <2>1, <2>2 DEF Padded, Header
<1>4. Aligned' /\ Chain' /\ Reading'
  BY <1>1, SamePositions DEF IInv, Reading
<1>5. mem' \in [Cells -> Cell]
  <2>1. BodyCell(Len(chunks) + 1) \in Cell
    BY <1>2, SizeAssumption DEF BodyCell, Cell
  <2> QED BY <1>1, <2>1 DEF IInv, TypeOK
<1>6. TypeOK'
  BY <1>1, <1>2, <1>5 DEF IInv, TypeOK
<1>7. Memory'
  BY <1>1, <1>2, <1>3, UnreadKept
<1>8. Reservation'
  BY <1>1 DEF IInv, Reservation, Wpos, Rpos
<1>9. Writing'
  <2>1. ElmntOffset' = ElmntOffset
    BY <1>1 DEF ElmntOffset
  <2>2. \A c \in Body(ElmntOffset, n) : c \in Cells /\ mem'[c].id = Len(chunks) + 1
    BY <1>1 DEF Body, BodyCell
  <2> QED BY <1>1, <2>1, <2>2 DEF Writing, Body
<1> QED BY <1>4, <1>6, <1>7, <1>8, <1>9 DEF IInv

(* A body that was written, with its header, fits the reservation.         *)
LEMMA WrittenFacts ==
  ASSUME IInv, wpc \in {"written", "header"}
  PROVE  /\ written \in Nat /\ Pad(written) \in Nat
         /\ Header + Pad(written) <= rsvd
         /\ head \in Cells /\ ElmntOffset \in Cells
<1>1. written \in Nat /\ want \in Nat /\ written <= want /\ rsvd \in Nat
  BY DEF IInv, TypeOK, Writing
<1>2. Pad(written) <= Pad(want) /\ Pad(written) \in Nat /\ Pad(want) \in Nat
  BY <1>1, PadFacts
<1>3. rsvd >= Padded(want)
  BY DEF IInv, Reservation
<1>4. head \in Cells /\ 0 \in Cells
  BY SizeAssumption DEF IInv, TypeOK, Cells
<1> QED BY <1>1, <1>2, <1>3, <1>4 DEF Padded, Header, ElmntOffset

(* varchunk_write_advance puts its headers on free cells.                  *)
LEMMA WriteHeaderInv ==
  ASSUME IInv, WriteHeader
  PROVE  IInv'
<1>1. /\ wpc = "written" /\ wpc' = "header"
      /\ UNCHANGED <<head, tail, rsvd, gapd, want, written,
                     rpc, rwrap, rptr, toread, chunks, got, base>>
      /\ IF gapd > 0
         THEN mem' = [mem EXCEPT ![head] = HeaderCell(gapd - Header, 1),
                                 ![0] = HeaderCell(written, 0)]
         ELSE mem' = [mem EXCEPT ![head] = HeaderCell(written, 0)]
  BY DEF WriteHeader, consumer, history
<1>2. /\ written \in Nat /\ Pad(written) \in Nat /\ Header + Pad(written) <= rsvd
      /\ head \in Cells /\ ElmntOffset \in Cells
  BY <1>1, WrittenFacts
<1>3. /\ mem \in [Cells -> Cell] /\ gapd \in Nat /\ rsvd \in Nat
      /\ head \in 0..(Size - 1) /\ head % 8 = 0
      /\ tail \in 0..(Size - 1) /\ base \in Nat /\ gapd % 8 = 0
  BY <1>1 DEF IInv, TypeOK, Cells, Reservation
<1>4. mem' \in [Cells -> Cell]
  <2>1. HeaderCell(written, 0) \in Cell
    BY <1>2 DEF HeaderCell, Cell
  <2>2. gapd > 0 => HeaderCell(gapd - Header, 1) \in Cell
    <3>1. gapd > 0 => gapd - Header \in Nat
      BY <1>3 DEF Header
    <3> QED BY <3>1 DEF HeaderCell, Cell
  <2> QED BY <1>1, <1>3, <2>1, <2>2
<1>5. Aligned' /\ Chain' /\ Reading' /\ Reservation'
  BY <1>1, SamePositions DEF IInv, Reading, Reservation, Wpos, Rpos
<1>6. TypeOK'
  BY <1>1, <1>4 DEF IInv, TypeOK
<1>7. \A c \in Cells : c # ElmntOffset /\ (gapd > 0 => c # head) => mem'[c] = mem[c]
  BY <1>1, <1>3 DEF ElmntOffset
<1>8. Memory'
  BY <1>1, <1>2, <1>7, UnreadKept
<1>9. Writing'
  <2>1. gapd > 0 => head > rsvd /\ head # 0
    <3> SUFFICES ASSUME gapd > 0 PROVE head > rsvd
      BY <1>3
    <3>1. head + gapd = Size /\ Wpos + gapd + rsvd < Rpos + Size
      BY <1>1 DEF IInv, Reservation
    <3> QED BY <3>1, <1>3, SizeAssumption DEF Wpos, Rpos
  <2>2. mem'[ElmntOffset] = HeaderCell(written, 0)
    BY <1>1, <1>2, <1>3 DEF ElmntOffset
  <2>3. gapd > 0 => mem'[head].gap = 1
    <3> SUFFICES ASSUME gapd > 0 PROVE mem'[head].gap = 1
      OBVIOUS
    <3>1. mem'[head] = HeaderCell(gapd - Header, 1)
      BY <1>1, <1>2, <1>3, <2>1
    <3> QED BY <3>1 DEF HeaderCell
  <2>4. \A c \in Body(ElmntOffset, written) : c # ElmntOffset /\ (gapd > 0 => c # head)
    BY <1>2, <1>3, <2>1 DEF Body, ElmntOffset, Header, Cells
  <2>5. \A c \in Body(ElmntOffset, written) : mem'[c].id = Len(chunks) + 1
    BY <1>1, <1>7, <2>4 DEF IInv, Writing, Body
  <2>6. ElmntOffset' = ElmntOffset /\ Body(ElmntOffset, written)' = Body(ElmntOffset, written)
    BY <1>1 DEF ElmntOffset, Body
  <2> QED BY <1>1, <2>2, <2>3, <2>5, <2>6 DEF IInv, Writing
<1> QED BY <1>5, <1>6, <1>8, <1>9 DEF IInv

(* The store of head adds one chunk, stored as written, to the chain.      *)
LEMMA PublishInv ==
  ASSUME IInv, Publish
  PROVE  IInv'
<1>0. /\ TypeOK /\ wpc = "header"
      /\ written \in Nat /\ Pad(written) \in Nat /\ Header + Pad(written) <= rsvd
  BY WrittenFacts DEF Publish, IInv
<1>1. PICK new \in Nat, size \in Nat, pos \in Nat :
        new = Len(chunks) + 1 /\ size = Header + Pad(written) /\ pos = Wpos
  BY <1>0, PosFacts DEF TypeOK, Header
<1>2. /\ wpc = "header" /\ wpc' = "idle" /\ want' = 0 /\ written' = 0
      /\ head' = Mask(head + gapd + Header + Pad(written))
      /\ chunks' = Append(chunks, [size |-> written, gap |-> gapd, from |-> pos])
      /\ UNCHANGED <<tail, mem, rsvd, gapd, rpc, rwrap, rptr, toread, got, base>>
  BY <1>1 DEF Publish, consumer
<1>s. /\ written \in Nat /\ Pad(written) \in Nat /\ size \in Nat
      /\ size = Header + Pad(written) /\ size >= Header /\ size <= rsvd
  BY <1>0, <1>1 DEF Header
<1>3. /\ TypeOK /\ gapd \in Nat /\ rsvd \in Nat
      /\ head \in 0..(Size - 1) /\ tail \in 0..(Size - 1)
      /\ base \in Nat /\ got \in Nat /\ got <= Len(chunks)
      /\ Len(chunks) \in Nat /\ chunks \in Seq(Entry)
      /\ new = Len(chunks) + 1 /\ new \in Nat /\ pos = Wpos /\ pos \in Nat
  BY <1>1, <1>2 DEF IInv, TypeOK, Cells
<1>m. size % 8 = 0 /\ gapd % 8 = 0 /\ head % 8 = 0 /\ base % 8 = 0 /\ pos % 8 = 0
  <2>1. Pad(written) % 8 = 0
    BY <1>0, PadFacts
  <2>2. size % 8 = 0
    BY <2>1, <1>s DEF Header
  <2>3. gapd % 8 = 0 /\ head % 8 = 0 /\ base % 8 = 0
    BY <1>2, <1>3 DEF IInv, TypeOK, Cells, Reservation, Aligned
  <2> QED BY <2>2, <2>3, <1>3, PosFacts
<1>4. Rpos \in Nat /\ Rpos <= pos
  BY <1>1, <1>3, PosFacts
<1>5. /\ pos + gapd + rsvd < Rpos + Size
      /\ gapd > 0 => head + gapd = Size /\ head >= tail
      /\ gapd = 0 => head + size <= Size
  <2>1. /\ pos + gapd + rsvd < Rpos + Size
        /\ gapd > 0 => head + gapd = Size
        /\ gapd = 0 => head + rsvd <= Size
    BY <1>2, <1>3 DEF IInv, Reservation
  <2> QED BY <2>1, <1>s, <1>3, SizeAssumption DEF Wpos, Rpos
<1>6. head' \in Cells /\ Wpos' = pos + gapd + size /\ Rpos' = Rpos
  <2>1. PICK len \in Nat : len = gapd + size
    BY <1>s, <1>3
  <2>2. len % 8 = 0
    BY <2>1, <1>m, <1>3
  <2>3. head' = Mask(head + len)
    <3>1. head + gapd + Header + Pad(written) = head + (gapd + (Header + Pad(written)))
      BY <1>s, <1>3 DEF Header
    <3> QED BY <3>1, <2>1, <1>2, <1>s
  <2>4. pos = Lap(head, tail, base)
    BY <1>3 DEF Wpos, Lap
  <2>5. pos + len = pos + gapd + size /\ pos + len < base + tail + Size
    BY <2>1, <1>s, <1>3, <1>5, SizeAssumption DEF Rpos
  <2>6. Mask(head + len) \in Cells /\ Lap(Mask(head + len), tail, base) = Lap(head, tail, base) + len
    <3>1. /\ head \in 0..(Size - 1) /\ tail \in 0..(Size - 1) /\ base \in Nat
          /\ Lap(head, tail, base) + len < base + tail + Size
          /\ head % 8 = 0
      BY <2>4, <2>5, <1>m, <1>3
    <3> QED BY <3>1, <2>2, Advance
  <2>7. Wpos' = Lap(head', tail, base)
    BY <1>2 DEF Wpos, Lap
  <2> QED BY <2>3, <2>4, <2>5, <2>6, <2>7, <1>2 DEF Rpos
<1>7. /\ chunks' \in Seq(Entry) /\ Len(chunks') = new
      /\ chunks'[new] = [size |-> written, gap |-> gapd, from |-> pos]
      /\ \A i \in 1..Len(chunks) : chunks'[i] = chunks[i]
  <2>1. [size |-> written, gap |-> gapd, from |-> pos] \in Entry
    BY <1>s, <1>3, <1>4 DEF Entry
  <2> QED BY <1>2, <1>3, <2>1
<1>8. /\ Unread' = Unread \cup {new} /\ new \notin Unread
      /\ \A i \in Unread : i \in 1..Len(chunks) /\ i < new
  BY <1>2, <1>3, <1>7 DEF Unread
<1>9. /\ Elmnt(new)' = pos + gapd /\ End(new)' = pos + gapd + size
      /\ \A i \in Unread : Elmnt(i)' = Elmnt(i) /\ End(i)' = End(i)
  <2>1. Elmnt(new)' = pos + gapd
    BY <1>7, <1>2, <1>3 DEF Elmnt
  <2>2. End(new)' = pos + gapd + size
    BY <1>7, <1>2, <1>s, <1>3, <1>4, <2>1 DEF End, Header
  <2> QED BY <2>1, <2>2, <1>7, <1>8 DEF Elmnt, End
<1>10. TypeOK'
  <2>1. got' \in Nat /\ got' <= Len(chunks')
    BY <1>2, <1>3, <1>7
  <2> QED BY <2>1, <1>2, <1>3, <1>6, <1>7 DEF TypeOK
<1>11. Aligned'
  <2>1. \A i \in Unread' : chunks'[i].from % 8 = 0 /\ chunks'[i].gap % 8 = 0
    <3> SUFFICES ASSUME NEW i \in Unread'
                 PROVE  chunks'[i].from % 8 = 0 /\ chunks'[i].gap % 8 = 0
      OBVIOUS
    <3>1. CASE i = new
      BY <3>1, <1>m, <1>7
    <3>2. CASE i \in Unread
      BY <3>2, <1>7, <1>8 DEF IInv, Aligned
    <3> QED BY <3>1, <3>2, <1>8
  <2> QED BY <2>1, <1>2, <1>m DEF Aligned
<1>12. Chain'
  <2>1. got' = got /\ got < Len(chunks') /\ got + 1 \in Unread'
    BY <1>2, <1>3, <1>7 DEF Unread
  <2>2. chunks'[got + 1].from = Rpos
    <3>1. CASE got = Len(chunks)
      <4>1. Wpos = Rpos
        BY <3>1 DEF IInv, Chain
      <4> QED BY <3>1, <4>1, <1>3, <1>7
    <3>2. CASE got < Len(chunks)
      <4>1. got + 1 \in Unread /\ chunks[got + 1].from = Rpos
        BY <3>2, <1>3 DEF IInv, Chain, Unread
      <4> QED BY <4>1, <1>7, <1>8
    <3> QED BY <3>1, <3>2, <1>3
  <2>3. \A i \in Unread : Rpos <= chunks[i].from /\ End(i) <= Wpos /\ End(i) \in Nat
    BY <1>3, ChunkFacts DEF IInv, Chain
  <2>4. \A i \in Unread' : Rpos <= chunks'[i].from /\ End(i)' <= pos + gapd + size
    <3> SUFFICES ASSUME NEW i \in Unread'
                 PROVE  Rpos <= chunks'[i].from /\ End(i)' <= pos + gapd + size
      OBVIOUS
    <3>1. CASE i = new
      BY <3>1, <1>s, <1>3, <1>4, <1>7, <1>9
    <3>2. CASE i \in Unread
      <4>1. /\ Rpos <= chunks'[i].from /\ End(i)' = End(i)
            /\ End(i) <= pos /\ End(i) \in Nat
        BY <3>2, <2>3, <1>3, <1>7, <1>8, <1>9
      <4> QED BY <4>1, <1>s, <1>3
    <3> QED BY <3>1, <3>2, <1>8
  <2>5. \A i \in Unread' : i + 1 \in Unread' => chunks'[i + 1].from = End(i)'
    <3> SUFFICES ASSUME NEW i \in Unread', i + 1 \in Unread'
                 PROVE  chunks'[i + 1].from = End(i)'
      OBVIOUS
    <3>1. i \in Unread
      BY <1>3, <1>8 DEF Unread
    <3>2. CASE i + 1 = new
      <4>1. got < Len(chunks) /\ i = Len(chunks)
        BY <3>1, <3>2, <1>3 DEF Unread
      <4>2. End(i) = Wpos
        BY <4>1 DEF IInv, Chain
      <4> QED BY <3>1, <3>2, <4>1, <4>2, <1>3, <1>7, <1>9
    <3>3. CASE i + 1 \in Unread
      BY <3>1, <3>3, <1>7, <1>8, <1>9 DEF IInv, Chain
    <3> QED BY <3>2, <3>3, <1>8
  <2>6. \A i, j \in Unread' : i < j => End(i)' <= chunks'[j].from
    <3> SUFFICES ASSUME NEW i \in Unread', NEW j \in Unread', i < j
                 PROVE  End(i)' <= chunks'[j].from
      OBVIOUS
    <3>1. i \in Unread
      BY <1>3, <1>8 DEF Unread
    <3>2. CASE j = new
      BY <3>1, <3>2, <2>3, <1>3, <1>7, <1>9
    <3>3. CASE j \in Unread
      BY <3>1, <3>3, <1>7, <1>8, <1>9 DEF IInv, Chain
    <3> QED BY <3>2, <3>3, <1>8
  <2> QED BY <2>1, <2>2, <2>4, <2>5, <2>6, <1>3, <1>6, <1>7, <1>9 DEF Chain
<1>13. Memory'
  <2> SUFFICES ASSUME NEW i \in Unread' PROVE Stored(i)'
    BY DEF Memory
  <2>1. CASE i \in Unread
    <3>1. Stored(i) /\ chunks'[i] = chunks[i] /\ Elmnt(i)' = Elmnt(i)
      BY <2>1, <1>7, <1>8, <1>9 DEF IInv, Memory
    <3> QED BY <3>1, <1>2 DEF Stored, Offset, Body
  <2>2. CASE i = new
    <3>1. /\ (chunks[i].gap)' = gapd /\ (chunks[i].size)' = written /\ (chunks[i].from)' = pos
      BY <2>2, <1>7
    <3>2. /\ Offset(pos)' = head
          /\ Offset(pos + gapd)' = ElmntOffset
      BY <1>2, <1>s, <1>3, <1>5, SizeAssumption DEF Offset, Wpos, ElmntOffset
    <3>3. ElmntOffset + size <= Size
      BY <1>s, <1>3, <1>4, <1>5, SizeAssumption DEF ElmntOffset, Rpos, Wpos
    <3>4. /\ mem[ElmntOffset] = HeaderCell(written, 0)
          /\ gapd > 0 => mem[head].gap = 1
          /\ \A c \in Body(ElmntOffset, written) : mem[c].id = new
      BY <1>2, <1>3 DEF IInv, Writing
    <3>5. Offset(Elmnt(i))' = ElmntOffset /\ Offset(chunks[i].from)' = head
      BY <2>2, <3>1, <3>2, <1>2, <1>9 DEF Offset
    <3>6. (chunks[i].gap > 0 =>
             /\ Offset(chunks[i].from) + chunks[i].gap = Size
             /\ mem[Offset(chunks[i].from)].gap = 1)'
      BY <3>1, <3>4, <3>5, <1>2, <1>5
    <3>7. (Offset(Elmnt(i)) + Header + Pad(chunks[i].size) <= Size)'
      <4>1. ElmntOffset \in Nat
        BY <1>3 DEF ElmntOffset
      <4>2. ElmntOffset + Header + Pad(written) <= Size
        BY <4>1, <3>3, <1>s DEF Header
      <4>3. (Pad(chunks[i].size))' = Pad(written)
        BY <3>1 DEF Pad
      <4> QED BY <4>2, <4>3, <3>5
    <3>8. (mem[Offset(Elmnt(i))] = HeaderCell(chunks[i].size, 0))'
      BY <3>1, <3>4, <3>5, <1>2
    <3>9. (\A c \in Body(Offset(Elmnt(i)), chunks[i].size) : mem[c].id = i)'
      <4>1. Body(Offset(Elmnt(i)), chunks[i].size)' = Body(ElmntOffset, written)
        BY <3>1, <3>5 DEF Body
      <4> QED BY <4>1, <3>4, <2>2, <1>2
    <3> QED BY <3>6, <3>7, <3>8, <3>9 DEF Stored
  <2> QED BY <2>1, <2>2, <1>8
<1>14. Reservation' /\ Writing'
  BY <1>2 DEF Reservation, Writing
<1>15. Reading'
  <2>1. rpc # "idle" => got + 1 \in 1..Len(chunks)
    BY <1>3 DEF IInv, Reading
  <2> QED BY <2>1, <1>2, <1>3, <1>7 DEF IInv, Reading
<1> QED BY <1>10, <1>11, <1>12, <1>13, <1>14, <1>15 DEF IInv
-----------------------------------------------------------------------------
(* Steps of the consumer *)

(* The oldest unread chunk starts at tail.                                 *)
LEMMA OldestFacts ==
  ASSUME IInv, got < Len(chunks)
  PROVE  /\ got + 1 \in Unread
         /\ chunks[got + 1] \in Entry
         /\ chunks[got + 1].from = Rpos /\ Offset(chunks[got + 1].from) = tail
         /\ End(got + 1) \in Nat /\ Elmnt(got + 1) \in Nat
         /\ End(got + 1) <= Wpos /\ Rpos + Header <= End(got + 1)
         /\ chunks[got + 1].gap = 0 =>
              /\ mem[tail] = HeaderCell(chunks[got + 1].size, 0)
              /\ tail + Header + Pad(chunks[got + 1].size) <= Size
              /\ End(got + 1) = base + tail + Header + Pad(chunks[got + 1].size)
         /\ chunks[got + 1].gap > 0 =>
              /\ mem[tail].gap = 1
              /\ tail + chunks[got + 1].gap = Size
              /\ Elmnt(got + 1) = base + Size
<1>1. TypeOK /\ got \in Nat /\ Len(chunks) \in Nat /\ base \in Nat /\ tail \in 0..(Size - 1)
  BY DEF IInv, TypeOK, Cells
<1>2. PICK i \in Nat : i = got + 1
  BY <1>1
<1>3. i \in Unread
  BY <1>1, <1>2 DEF Unread
<1>4. /\ chunks[i].from \in Nat /\ chunks[i].gap \in Nat /\ chunks[i].size \in Nat
      /\ chunks[i] \in Entry /\ Pad(chunks[i].size) \in Nat
      /\ Elmnt(i) \in Nat /\ End(i) \in Nat
      /\ chunks[i].from <= Elmnt(i) /\ Elmnt(i) + Header <= End(i)
  BY <1>1, <1>3, ChunkFacts DEF Entry
<1>5. chunks[i].from = Rpos /\ End(i) <= Wpos
  BY <1>2, <1>3 DEF IInv, Chain
<1>6. Offset(Rpos) = tail /\ Rpos = base + tail
  BY <1>1, SizeAssumption DEF Offset, Rpos
<1>7. Stored(i)
  BY <1>3 DEF IInv, Memory
<1>8. ASSUME chunks[i].gap = 0
      PROVE  /\ mem[tail] = HeaderCell(chunks[i].size, 0)
             /\ tail + Header + Pad(chunks[i].size) <= Size
             /\ End(i) = base + tail + Header + Pad(chunks[i].size)
  <2>1. Elmnt(i) = Rpos
    BY <1>1, <1>4, <1>5, <1>6, <1>8 DEF Elmnt
  <2> QED BY <2>1, <1>6, <1>7 DEF Stored, End
<1>9. ASSUME chunks[i].gap > 0
      PROVE  /\ mem[tail].gap = 1
             /\ tail + chunks[i].gap = Size
             /\ Elmnt(i) = base + Size
  <2>1. mem[tail].gap = 1 /\ tail + chunks[i].gap = Size
    BY <1>5, <1>6, <1>7, <1>9 DEF Stored
  <2> QED BY <2>1, <1>1, <1>4, <1>5, <1>6 DEF Elmnt
<1>10. Rpos + Header <= End(i)
  BY <1>1, <1>4, <1>5, <1>6 DEF Header
<1> QED BY <1>2, <1>3, <1>4, <1>5, <1>6, <1>8, <1>9, <1>10

(* Something is readable only when a chunk is unread.                      *)
LEMMA NonEmptyFacts ==
  ASSUME IInv
  PROVE  ReadableSpace > 0 => got < Len(chunks)
<1>1. /\ head \in 0..(Size - 1) /\ tail \in 0..(Size - 1)
      /\ got \in Nat /\ got <= Len(chunks) /\ Len(chunks) \in Nat
  BY DEF IInv, TypeOK, Cells
<1>2. head = tail => ReadableSpace = 0
  <2> SUFFICES ASSUME head = tail PROVE Mask(head - tail + Size) = 0
    BY <1>1 DEF ReadableSpace
  <2>1. head - tail + Size = Size
    BY <1>1, SizeAssumption
  <2>2. Mask(Size) = 0
    BY MaskFacts, SizeAssumption
  <2> QED BY <2>1, <2>2
<1> QED BY <1>1, <1>2, EmptyFacts

(* varchunk_read_request: a snapshot of head does not go stale.            *)
LEMMA ReadRequestInv ==
  ASSUME IInv, ReadRequest
  PROVE  IInv'
<1>1. /\ rpc = "idle" /\ rpc' = "loaded" /\ got < Len(chunks)
      /\ rwrap' = (tail + ReadableSpace > Size)
      /\ UNCHANGED <<rptr, toread, head, tail, mem, rsvd, gapd, wpc, want, written,
                     chunks, got, base>>
  BY NonEmptyFacts DEF ReadRequest, shared, producer, history
<1>2. Aligned' /\ Chain' /\ Memory'
  BY <1>1, SamePositions, SameMemory DEF IInv
<1>3. TypeOK'
  BY <1>1 DEF IInv, TypeOK
<1>4. Reservation' /\ Writing'
  BY <1>1 DEF IInv, Reservation, Writing, Wpos, Rpos, ElmntOffset, Body
<1>5. chunks[got + 1].gap > 0 => tail + ReadableSpace > Size
  <2> SUFFICES ASSUME chunks[got + 1].gap > 0 PROVE tail + ReadableSpace > Size
    OBVIOUS
  <2>1. /\ head \in 0..(Size - 1) /\ tail \in 0..(Size - 1) /\ base \in Nat
        /\ TypeOK
    BY DEF IInv, TypeOK, Cells
  <2>2. Wpos >= base + Size + Header
    <3>1. got + 1 \in Unread /\ Elmnt(got + 1) = base + Size /\ End(got + 1) <= Wpos
      BY <1>1, OldestFacts
    <3>2. Elmnt(got + 1) + Header <= End(got + 1) /\ End(got + 1) \in Nat /\ Wpos \in Nat
      BY <2>1, <3>1, ChunkFacts, PosFacts
    <3> QED BY <2>1, <3>1, <3>2, SizeAssumption DEF Header
  <2>3. head < tail /\ head > 0
    BY <2>1, <2>2, SizeAssumption DEF Wpos, Header
  <2>4. Mask(head - tail + Size) = head - tail + Size
    BY <2>1, <2>3, MaskFacts, SizeAssumption
  <2> QED BY <2>1, <2>3, <2>4, SizeAssumption DEF ReadableSpace
<1>6. Reading'
  BY <1>1, <1>5 DEF Reading
<1> QED BY <1>2, <1>3, <1>4, <1>6 DEF IInv

(* The pointer it returns is that of the oldest unread chunk.              *)
LEMMA ReadChunkInv ==
  ASSUME IInv, ReadChunk
  PROVE  IInv'
<1>1. /\ rpc \in {"loaded", "skipped"} /\ rpc' = "reading"
      /\ toread' = mem[rptr'].size
      /\ rpc = "loaded" => ~AtGap /\ rptr' = tail
      /\ rpc = "skipped" => rptr' = 0
      /\ UNCHANGED <<rwrap, head, tail, mem, rsvd, gapd, wpc, want, written,
                     chunks, got, base>>
  BY DEF ReadChunk, shared, producer, history
<1>2. got < Len(chunks)
  BY <1>1 DEF IInv, Reading
<1>3. chunks[got + 1] \in Entry /\ tail \in Cells
  BY <1>2, OldestFacts DEF IInv, TypeOK
<1>4. rptr' = tail /\ chunks[got + 1].gap = 0
  <2>1. CASE rpc = "loaded"
    <3>1. ~(chunks[got + 1].gap > 0)
      BY <2>1, <1>1, <1>2, OldestFacts DEF IInv, Reading, AtGap
    <3> QED BY <2>1, <3>1, <1>1, <1>3 DEF Entry
  <2>2. CASE rpc = "skipped"
    BY <2>2, <1>1 DEF IInv, Reading
  <2> QED BY <2>1, <2>2, <1>1
<1>5. toread' = chunks[got + 1].size /\ toread' \in Nat
  BY <1>1, <1>2, <1>3, <1>4, OldestFacts DEF HeaderCell, Entry
<1>6. Aligned' /\ Chain' /\ Memory'
  BY <1>1, SamePositions, SameMemory DEF IInv
<1>7. TypeOK'
  BY <1>1, <1>3, <1>4, <1>5 DEF IInv, TypeOK
<1>8. Reservation' /\ Writing'
  BY <1>1 DEF IInv, Reservation, Writing, Wpos, Rpos, ElmntOffset, Body
<1>9. Reading'
  BY <1>1, <1>2, <1>4, <1>5 DEF Reading
<1> QED BY <1>6, <1>7, <1>8, <1>9 DEF IInv

(* When the consumer moves on, the addresses of the producer and of what   *)
(* stays unread are where they were.                                       *)
LEMMA ConsumerMoves ==
  ASSUME IInv, NEW p \in Nat, Rpos <= p, p <= Wpos,
         head' = head,
         \/ base' = base /\ tail' = p - base /\ p < base + Size
         \/ base' = base + Size /\ tail' = p - base - Size /\ p >= base + Size
  PROVE  /\ tail' \in 0..(Size - 1) /\ base' \in Nat
         /\ Rpos' = p /\ Wpos' = Wpos
         /\ \A q \in Nat : p <= q /\ q < Rpos + Size => Offset(q)' = Offset(q)
<1>1. /\ head \in 0..(Size - 1) /\ tail \in 0..(Size - 1) /\ base \in Nat
      /\ Rpos \in Nat /\ Wpos \in Nat /\ Wpos < Rpos + Size
  BY PosFacts DEF IInv, TypeOK, Cells
<1>2. CASE base' = base /\ tail' = p - base /\ p < base + Size
  <2>1. tail' \in 0..(Size - 1) /\ base' \in Nat /\ Rpos' = p
    BY <1>1, <1>2, SizeAssumption DEF Rpos
  <2>2. Wpos' = Wpos
    BY <1>1, <1>2, SizeAssumption DEF Rpos, Wpos
  <2>3. \A q \in Nat : Offset(q)' = Offset(q)
    BY <1>2 DEF Offset
  <2> QED BY <2>1, <2>2, <2>3
<1>3. CASE base' = base + Size /\ tail' = p - base - Size /\ p >= base + Size
  <2>1. tail' \in 0..(Size - 1) /\ base' \in Nat /\ Rpos' = p
    BY <1>1, <1>3, SizeAssumption DEF Rpos
  <2>2. Wpos' = Wpos
    BY <1>1, <1>3, SizeAssumption DEF Rpos, Wpos
  <2>3. \A q \in Nat : p <= q /\ q < Rpos + Size => Offset(q)' = Offset(q)
    BY <1>1, <1>3, SizeAssumption DEF Rpos, Offset
  <2> QED BY <2>1, <2>2, <2>3
<1> QED BY <1>2, <1>3

(* Skipping a gap leads to the oldest unread chunk, in cell 0.             *)
LEMMA SkipGapInv ==
  ASSUME IInv, SkipGap
  PROVE  IInv'
<1>1. /\ rpc = "loaded" /\ AtGap /\ rpc' = "skipped"
      /\ tail' = Mask(tail + (Size - tail))
      /\ base' = base + Size
      /\ chunks' = [chunks EXCEPT ![got + 1] = [@ EXCEPT !.gap = 0, !.from = base + Size]]
      /\ UNCHANGED <<head, mem, rwrap, rptr, toread, got, rsvd, gapd, wpc, want, written>>
  BY DEF SkipGap, producer
<1>2. /\ TypeOK /\ got \in Nat /\ got < Len(chunks) /\ Len(chunks) \in Nat
      /\ tail \in 0..(Size - 1) /\ base \in Nat /\ chunks \in Seq(Entry)
      /\ base % 8 = 0 /\ Size \in Nat
  <2>1. got < Len(chunks)
    BY <1>1 DEF IInv, Reading
  <2> QED BY <2>1, SizeAssumption DEF IInv, TypeOK, Cells, Aligned
<1>3. PICK k \in Nat : k = got + 1
  BY <1>2
<1>4. chunks[k].gap > 0 /\ chunks[k] \in Entry /\ k \in Unread /\ k \in 1..Len(chunks)
  <2>1. chunks[k] \in Entry /\ k \in Unread /\ k \in 1..Len(chunks)
    BY <1>2, <1>3, OldestFacts DEF Unread
  <2>2. ~(chunks[k].gap = 0)
    BY <1>1, <1>2, <1>3, OldestFacts DEF AtGap, HeaderCell
  <2> QED BY <2>1, <2>2 DEF Entry
<1>5. /\ Elmnt(k) = base + Size /\ Elmnt(k) + Header <= End(k) /\ End(k) \in Nat
      /\ End(k) <= Wpos /\ Rpos \in Nat /\ Wpos \in Nat /\ Wpos < Rpos + Size
      /\ Rpos = base + tail
  BY <1>2, <1>3, <1>4, OldestFacts, ChunkFacts, PosFacts DEF Rpos
<1>6. PICK p \in Nat : p = base + Size
  BY <1>2
<1>7. tail' = 0
  <2>1. tail + (Size - tail) = Size
    BY <1>2
  <2>2. Mask(Size) = 0
    BY MaskFacts, SizeAssumption
  <2> QED BY <2>1, <2>2, <1>1
<1>8. /\ Rpos' = p /\ Wpos' = Wpos /\ Rpos < p /\ p < Wpos
      /\ \A q \in Nat : p <= q /\ q < Rpos + Size => Offset(q)' = Offset(q)
  <2>1. Rpos <= p /\ Rpos < p /\ p < Wpos /\ p <= Wpos
    BY <1>2, <1>5, <1>6 DEF Header
  <2>2. base' = base + Size /\ tail' = p - base - Size /\ p >= base + Size
    BY <1>1, <1>2, <1>6, <1>7
  <2> QED BY <2>1, <2>2, <1>1, ConsumerMoves
<1>9. /\ chunks' \in Seq(Entry) /\ Len(chunks') = Len(chunks) /\ Unread' = Unread
      /\ chunks'[k].size = chunks[k].size /\ chunks'[k].gap = 0 /\ chunks'[k].from = p
      /\ \A i \in Unread : i # k => chunks'[i] = chunks[i]
  <2>1. chunks' = [chunks EXCEPT ![k] = [chunks[k] EXCEPT !.gap = 0, !.from = p]]
    BY <1>1, <1>3, <1>6
  <2>2. [chunks[k] EXCEPT !.gap = 0, !.from = p] \in Entry
    BY <1>4 DEF Entry
  <2>3. chunks' \in Seq(Entry) /\ Len(chunks') = Len(chunks)
    BY <2>1, <2>2, <1>2, <1>4
  <2>4. Unread' = Unread
    BY <2>3, <1>1 DEF Unread
  <2>5. \A i \in Unread : i # k => chunks'[i] = chunks[i]
    BY <2>1, <1>2, <1>4 DEF Unread
  <2>6. chunks'[k] = [chunks[k] EXCEPT !.gap = 0, !.from = p]
    <3>1. k \in DOMAIN chunks
      BY <1>2, <1>4
    <3> QED BY <2>1, <3>1
  <2> QED BY <2>3, <2>4, <2>5, <2>6, <1>4 DEF Entry
<1>10. \A i \in Unread : Elmnt(i)' = Elmnt(i) /\ End(i)' = End(i)
  <2>1. Elmnt(k)' = Elmnt(k)
    BY <1>5, <1>6, <1>9 DEF Elmnt
  <2>2. \A i \in Unread : i # k => Elmnt(i)' = Elmnt(i)
    BY <1>9 DEF Elmnt
  <2> QED BY <2>1, <2>2, <1>9 DEF End
<1>11. TypeOK'
  <2>1. tail' \in Cells /\ base' \in Nat
    BY <1>1, <1>2, <1>7, SizeAssumption DEF Cells
  <2> QED BY <2>1, <1>1, <1>2, <1>9 DEF TypeOK
<1>12. Aligned'
  <2>1. p % 8 = 0
    BY <1>2, <1>6, SizeAssumption
  <2>2. \A i \in Unread : chunks'[i].from % 8 = 0 /\ chunks'[i].gap % 8 = 0
    BY <2>1, <1>9 DEF IInv, Aligned
  <2> QED BY <2>1, <2>2, <1>1, <1>6, <1>9 DEF Aligned
<1>13. \A i \in Unread : i # k => i > k /\ i \in Nat
  BY <1>2, <1>3 DEF Unread
<1>14. \A i \in Unread : i # k => End(k) <= chunks[i].from /\ chunks[i].from \in Nat
  BY <1>2, <1>4, <1>13, ChunkFacts DEF IInv, Chain, Entry
<1>15. Chain'
  <2>1. got' = got /\ got < Len(chunks')
    BY <1>1, <1>2, <1>9
  <2>2. chunks'[got + 1].from = Rpos' /\ End(Len(chunks))' = Wpos'
    <3>1. Len(chunks) \in Unread
      BY <1>2 DEF Unread
    <3>2. PICK n \in Nat : n = Len(chunks)
      BY <1>2
    <3>3. End(n)' = End(n) /\ End(n) = Wpos
      BY <3>1, <3>2, <1>2, <1>10 DEF IInv, Chain
    <3> QED BY <3>2, <3>3, <1>3, <1>8, <1>9
  <2>3. \A i \in Unread : Rpos' <= chunks'[i].from /\ End(i)' <= Wpos'
    <3> SUFFICES ASSUME NEW i \in Unread
                 PROVE  Rpos' <= chunks'[i].from /\ End(i)' <= Wpos'
      OBVIOUS
    <3>1. End(i)' <= Wpos'
      BY <1>8, <1>10 DEF IInv, Chain
    <3>2. CASE i = k
      BY <3>1, <3>2, <1>8, <1>9
    <3>3. CASE i # k
      <4>1. chunks'[i].from = chunks[i].from /\ End(k) <= chunks[i].from /\ chunks[i].from \in Nat
        BY <3>3, <1>9, <1>14
      <4>2. p <= End(k)
        BY <1>2, <1>5, <1>6 DEF Header
      <4> QED BY <3>1, <4>1, <4>2, <1>5, <1>8
    <3> QED BY <3>2, <3>3
  <2>4. \A i \in Unread : i + 1 \in Unread => chunks'[i + 1].from = End(i)'
    BY <1>9, <1>10, <1>13 DEF IInv, Chain
  <2>5. \A i, j \in Unread : i < j => End(i)' <= chunks'[j].from
    <3> SUFFICES ASSUME NEW i \in Unread, NEW j \in Unread, i < j
                 PROVE  End(i)' <= chunks'[j].from
      OBVIOUS
    <3>1. j # k
      BY <1>13, <1>3
    <3> QED BY <3>1, <1>9, <1>10 DEF IInv, Chain
  <2> QED BY <2>1, <2>2, <2>3, <2>4, <2>5, <1>9 DEF Chain
<1>16. Memory'
  <2> SUFFICES ASSUME NEW i \in Unread PROVE Stored(i)'
    BY <1>9 DEF Memory
  <2>1. Stored(i) /\ mem' = mem
    BY <1>1 DEF IInv, Memory
  <2>2. Elmnt(i) \in Nat /\ p <= Elmnt(i) /\ Elmnt(i) < Rpos + Size
    <3>1. /\ Elmnt(i) \in Nat /\ chunks[i].from <= Elmnt(i) /\ chunks[i].from \in Nat
          /\ Elmnt(i) + Header <= End(i) /\ End(i) \in Nat /\ End(i) <= Wpos
      BY <1>2, ChunkFacts DEF IInv, Chain, Entry
    <3>2. p <= Elmnt(i)
      <4>1. CASE i = k
        BY <4>1, <1>5, <1>6
      <4>2. CASE i # k
        BY <4>2, <3>1, <1>2, <1>5, <1>6, <1>14 DEF Header
      <4> QED BY <4>1, <4>2
    <3>3. Elmnt(i) < Rpos + Size
      BY <3>1, <1>2, <1>5 DEF Header
    <3> QED BY <3>1, <3>2, <3>3
  <2>3. Offset(Elmnt(i))' = Offset(Elmnt(i))
    <3>1. PICK q \in Nat : q = Elmnt(i)
      BY <2>2
    <3> QED BY <3>1, <2>2, <1>8, <1>10
  <2>4. chunks'[i].size = chunks[i].size
    BY <1>9
  <2>5. chunks'[i].gap > 0 => /\ chunks'[i] = chunks[i]
                              /\ Offset(chunks[i].from)' = Offset(chunks[i].from)
    <3> SUFFICES ASSUME chunks'[i].gap > 0
                 PROVE  chunks'[i] = chunks[i] /\ Offset(chunks[i].from)' = Offset(chunks[i].from)
      OBVIOUS
    <3>1. i # k
      BY <1>9
    <3>2. chunks'[i] = chunks[i]
      BY <3>1, <1>9
    <3>3. PICK q \in Nat : q = chunks[i].from
      BY <3>1, <1>14
    <3>4. p <= q /\ q < Rpos + Size
      <4>1. chunks[i].from <= Elmnt(i)
        BY <1>2, ChunkFacts
      <4> QED BY <4>1, <3>1, <3>3, <2>2, <1>2, <1>5, <1>6, <1>14 DEF Header
    <3> QED BY <3>2, <3>3, <3>4, <1>8
  <2> QED BY <2>1, <2>3, <2>4, <2>5 DEF Stored, Body
<1>17. Reservation' /\ Writing'
  <2>1. Writing'
    BY <1>1, <1>9 DEF IInv, Writing, ElmntOffset, Body
  <2>2. gapd \in Nat /\ rsvd \in Nat
    BY <1>2 DEF TypeOK
  <2>3. wpc # "idle" => Wpos' + gapd + rsvd < Rpos' + Size
    BY <2>2, <1>2, <1>5, <1>8 DEF IInv, Reservation
  <2> QED BY <2>1, <2>3, <1>1 DEF IInv, Reservation
<1>18. Reading'
  BY <1>1, <1>2, <1>3, <1>7, <1>9 DEF Reading
<1> QED BY <1>11, <1>12, <1>15, <1>16, <1>17, <1>18 DEF IInv

(* varchunk_read_advance gives back just the oldest unread chunk.          *)
LEMMA ReadAdvanceInv ==
  ASSUME IInv, ReadAdvance
  PROVE  IInv'
<1>1. /\ rpc = "reading" /\ rpc' = "idle" /\ rwrap' = FALSE /\ rptr' = 0 /\ toread' = 0
      /\ tail' = Mask(tail + Header + Pad(mem[tail].size))
      /\ got' = got + 1
      /\ base' = IF tail + Header + Pad(mem[tail].size) >= Size THEN base + Size ELSE base
      /\ UNCHANGED <<head, mem, chunks, rsvd, gapd, wpc, want, written>>
  BY DEF ReadAdvance, producer
<1>2. /\ TypeOK /\ got \in Nat /\ got < Len(chunks) /\ Len(chunks) \in Nat
      /\ tail \in 0..(Size - 1) /\ base \in Nat /\ chunks \in Seq(Entry)
      /\ base % 8 = 0 /\ Size \in Nat /\ chunks[got + 1].gap = 0
  <2>1. got < Len(chunks) /\ chunks[got + 1].gap = 0
    BY <1>1 DEF IInv, Reading
  <2> QED BY <2>1, SizeAssumption DEF IInv, TypeOK, Cells, Aligned
<1>3. PICK k \in Nat : k = got + 1
  BY <1>2
<1>4. k \in Unread /\ chunks[k] \in Entry /\ k <= Len(chunks)
  BY <1>2, <1>3, OldestFacts
<1>5. PICK next \in Nat : next = tail + Header + Pad(mem[tail].size)
  <2>1. mem[tail].size \in Nat
    BY <1>2 DEF TypeOK, Cell
  <2>2. Pad(mem[tail].size) \in Nat /\ Header \in Nat
    BY <2>1, PadFacts DEF Header
  <2> QED BY <2>2, <1>2
<1>6. /\ End(k) = base + next /\ next <= Size /\ tail < next /\ next % 8 = 0
      /\ End(k) <= Wpos /\ End(k) \in Nat
      /\ Rpos \in Nat /\ Wpos \in Nat /\ Wpos < Rpos + Size /\ Rpos = base + tail
  <2>1. /\ mem[tail] = HeaderCell(chunks[k].size, 0)
        /\ tail + Header + Pad(chunks[k].size) <= Size
        /\ End(k) = base + tail + Header + Pad(chunks[k].size)
        /\ End(k) <= Wpos /\ End(k) \in Nat
    BY <1>2, <1>3, OldestFacts
  <2>2. mem[tail].size = chunks[k].size /\ chunks[k].size \in Nat
    BY <2>1, <1>4 DEF HeaderCell, Entry
  <2>3. Pad(chunks[k].size) \in Nat /\ Pad(chunks[k].size) % 8 = 0
    BY <2>2, PadFacts
  <2>4. tail % 8 = 0
    BY <1>2 DEF TypeOK, Cells
  <2>5. next = tail + Header + Pad(chunks[k].size)
    BY <2>2, <1>5
  <2>6. next % 8 = 0 /\ tail < next
    <3>1. tail \in Nat
      BY <1>2
    <3> QED BY <3>1, <2>3, <2>4, <2>5 DEF Header
  <2>7. End(k) = base + next
    <3>1. tail \in Nat /\ base \in Nat /\ Header \in Nat
      BY <1>2 DEF Header
    <3> QED BY <3>1, <2>1, <2>3, <2>5
  <2> QED BY <2>1, <2>5, <2>6, <2>7, <1>2, PosFacts DEF Rpos
<1>7. tail' = IF next < Size THEN next ELSE 0
  <2>1. next \in 0..(2 * Size - 1)
    BY <1>2, <1>6
  <2>2. Mask(next) = IF next < Size THEN next ELSE next - Size
    BY <2>1, MaskFacts
  <2> QED BY <2>2, <1>1, <1>2, <1>5, <1>6
<1>8. PICK p \in Nat : p = End(k)
  BY <1>6
<1>9. /\ Rpos' = p /\ Wpos' = Wpos /\ Rpos < p /\ p <= Wpos
      /\ base' \in Nat /\ tail' \in 0..(Size - 1)
      /\ \A q \in Nat : p <= q /\ q < Rpos + Size => Offset(q)' = Offset(q)
  <2>1. Rpos <= p /\ Rpos < p /\ p <= Wpos
    BY <1>2, <1>6, <1>8
  <2>2. \/ base' = base /\ tail' = p - base /\ p < base + Size
        \/ base' = base + Size /\ tail' = p - base - Size /\ p >= base + Size
    <3>0. base' = (IF next >= Size THEN base + Size ELSE base) /\ p = base + next
      BY <1>1, <1>5, <1>6, <1>8
    <3>1. CASE next < Size
      BY <3>0, <3>1, <1>2, <1>7
    <3>2. CASE next >= Size
      <4>1. next = Size
        BY <3>2, <1>2, <1>6
      <4> QED BY <3>0, <4>1, <1>2, <1>7
    <3> QED BY <3>1, <3>2, <1>2
  <2> QED BY <2>1, <2>2, <1>1, ConsumerMoves
<1>10. Unread' = Unread \ {k} /\ \A i \in Unread' : i > k /\ i \in Nat
  BY <1>1, <1>2, <1>3 DEF Unread
<1>11. \A i \in Nat : Elmnt(i)' = Elmnt(i) /\ End(i)' = End(i)
  BY <1>1 DEF Elmnt, End
<1>12. \A i \in Unread' : /\ p <= chunks[i].from /\ chunks[i].from <= Elmnt(i)
                          /\ chunks[i].from \in Nat /\ Elmnt(i) \in Nat
                          /\ Elmnt(i) < Rpos + Size /\ End(i) <= Wpos
  <2> SUFFICES ASSUME NEW i \in Unread'
               PROVE  /\ p <= chunks[i].from /\ chunks[i].from <= Elmnt(i)
                      /\ chunks[i].from \in Nat /\ Elmnt(i) \in Nat
                      /\ Elmnt(i) < Rpos + Size /\ End(i) <= Wpos
    OBVIOUS
  <2>1. i \in Unread /\ k < i
    BY <1>3, <1>10
  <2>2. /\ chunks[i].from \in Nat /\ Elmnt(i) \in Nat /\ chunks[i].from <= Elmnt(i)
        /\ Elmnt(i) + Header <= End(i) /\ End(i) \in Nat
    BY <2>1, <1>2, ChunkFacts DEF Entry
  <2>3. End(k) <= chunks[i].from /\ End(i) <= Wpos
    BY <2>1, <1>4 DEF IInv, Chain
  <2>4. Elmnt(i) < Rpos + Size
    BY <2>2, <2>3, <1>2, <1>6 DEF Header
  <2> QED BY <2>2, <2>3, <2>4, <1>8
<1>13. TypeOK'
  <2>1. tail' \in Cells
    BY <1>2, <1>6, <1>7, SizeAssumption DEF Cells
  <2>2. got' \in Nat /\ got' <= Len(chunks) /\ 0 \in Cells
    BY <1>1, <1>2, SizeAssumption DEF Cells
  <2> QED BY <2>1, <2>2, <1>1, <1>2, <1>9 DEF TypeOK
<1>14. Aligned'
  <2>1. base' % 8 = 0
    BY <1>1, <1>2, SizeAssumption
  <2> QED BY <2>1, <1>1, <1>10 DEF IInv, Aligned
<1>15. Chain'
  <2>1. got' = Len(chunks) => Wpos' = Rpos'
    <3> SUFFICES ASSUME got' = Len(chunks) PROVE Wpos = p
      BY <1>9
    <3> QED BY <1>1, <1>2, <1>3, <1>8 DEF IInv, Chain
  <2>2. got' < Len(chunks) => chunks[got' + 1].from = Rpos'
    <3> SUFFICES ASSUME got' < Len(chunks) PROVE chunks[k + 1].from = p
      BY <1>1, <1>3, <1>9
    <3>1. k + 1 \in Unread
      BY <1>1, <1>2, <1>3 DEF Unread
    <3> QED BY <3>1, <1>4, <1>8 DEF IInv, Chain
  <2>3. PICK n \in Nat : n = Len(chunks)
    BY <1>2
  <2>4. End(n)' = Wpos'
    BY <2>3, <1>2, <1>9, <1>11 DEF IInv, Chain
  <2>5. \A i \in Unread' : Rpos' <= chunks[i].from /\ End(i)' <= Wpos'
    BY <1>9, <1>10, <1>11, <1>12
  <2>6. \A i \in Unread' : i + 1 \in Unread' => chunks[i + 1].from = End(i)'
    BY <1>10, <1>11 DEF IInv, Chain
  <2>7. \A i, j \in Unread' : i < j => End(i)' <= chunks[j].from
    BY <1>10, <1>11 DEF IInv, Chain
  <2> QED BY <2>1, <2>2, <2>3, <2>4, <2>5, <2>6, <2>7, <1>1 DEF Chain
<1>16. Memory'
  <2> SUFFICES ASSUME NEW i \in Unread' PROVE Stored(i)'
    BY DEF Memory
  <2>1. Stored(i) /\ mem' = mem /\ chunks' = chunks /\ i \in Nat
    BY <1>1, <1>10 DEF IInv, Memory
  <2>2. /\ p <= Elmnt(i) /\ Elmnt(i) < Rpos + Size /\ Elmnt(i) \in Nat
        /\ p <= chunks[i].from /\ chunks[i].from < Rpos + Size /\ chunks[i].from \in Nat
    BY <1>2, <1>6, <1>12
  <2>3. Offset(Elmnt(i))' = Offset(Elmnt(i)) /\ Offset(chunks[i].from)' = Offset(chunks[i].from)
    <3>1. PICK q \in Nat, r \in Nat : q = Elmnt(i) /\ r = chunks[i].from
      BY <2>2
    <3> QED BY <3>1, <2>1, <2>2, <1>9, <1>11
  <2> QED BY <2>1, <2>3 DEF Stored, Body
<1>17. Reservation' /\ Writing'
  <2>1. Writing'
    BY <1>1 DEF IInv, Writing, ElmntOffset, Body
  <2>2. gapd \in Nat /\ rsvd \in Nat
    BY <1>2 DEF TypeOK
  <2>3. wpc # "idle" => Wpos' + gapd + rsvd < Rpos' + Size
    BY <2>2, <1>2, <1>6, <1>9 DEF IInv, Reservation
  <2> QED BY <2>1, <2>3, <1>1 DEF IInv, Reservation
<1>18. Reading'
  BY <1>1 DEF Reading
<1> QED BY <1>13, <1>14, <1>15, <1>16, <1>17, <1>18 DEF IInv
-----------------------------------------------------------------------------
(* IInv is inductive, provided no caller writes more than it asked for.    *)
LEMMA NextInv ==
  ASSUME ~UseMaximum, IInv, [Next]_vars
  PROVE  IInv'
<1>1. CASE \E minimum \in Sizes : WriteRequest(minimum)
  BY <1>1, WriteRequestInv
<1>2. CASE Abandon
  BY <1>2, AbandonInv
<1>3. CASE \E n \in Sizes \cup {rsvd} : Write(n)
  BY <1>3, WriteInv
<1>4. CASE WriteHeader
  BY <1>4, WriteHeaderInv
<1>5. CASE Publish
  BY <1>5, PublishInv
<1>6. CASE ReadRequest
  BY <1>6, ReadRequestInv
<1>7. CASE SkipGap
  BY <1>7, SkipGapInv
<1>8. CASE ReadChunk
  BY <1>8, ReadChunkInv
<1>9. CASE ReadAdvance
  BY <1>9, ReadAdvanceInv
<1>10. CASE UNCHANGED vars
  <2>1. Aligned' /\ Chain' /\ Memory'
    BY <1>10, SamePositions, SameMemory DEF IInv, vars
  <2>2. TypeOK'
    BY <1>10 DEF IInv, TypeOK, vars
  <2>3. Reservation' /\ Writing' /\ Reading'
    BY <1>10 DEF IInv, Reservation, Writing, Reading, Wpos, Rpos, ElmntOffset, Body, vars
  <2> QED BY <2>1, <2>2, <2>3 DEF IInv
<1> QED BY <1>1, <1>2, <1>3, <1>4, <1>5, <1>6, <1>7, <1>8, <1>9, <1>10
        DEF Next, ProducerNext, ProducerCommit, ConsumerNext

(* The chain of headers and the agreement of both threads on it hold in    *)
(* every state of every ring whose callers keep to what they asked for.    *)
THEOREM InductiveInvariant ==
  ASSUME ~UseMaximum
  PROVE  Spec => []IInv
<1>1. Init => IInv
  BY InitInv
<1>2. IInv /\ [Next]_vars => IInv'
  BY NextInv
<1> QED BY <1>1, <1>2, PTL DEF Spec

(* Types: in particular head and tail stay on cell boundaries inside the   *)
(* array, whatever is written and however often they wrap.                 *)
THEOREM TypeCorrect ==
  ASSUME ~UseMaximum
  PROVE  Spec => []TypeOK
<1>1. IInv => TypeOK
  BY DEF IInv
<1> QED BY <1>1, InductiveInvariant, PTL

(* What the producer is about to publish touches no unread chunk and stays *)
(* inside the array (varchunk_write_request_max, varchunk_write_advance).  *)
THEOREM WritesAreDisjoint ==
  ASSUME ~UseMaximum
  PROVE  Spec => []NoOverlap
<1>1. IInv => NoOverlap
  <2> SUFFICES ASSUME IInv, wpc \in {"written", "header"}
               PROVE  /\ ElmntOffset + Header + written <= Size
                      /\ \A i \in Unread :
                           \A c \in Body(Offset(Elmnt(i)), chunks[i].size)
                                    \cup {Offset(Elmnt(i))} :
                              c \notin Body(ElmntOffset, written) /\ c # ElmntOffset
    BY DEF NoOverlap
  <2>1. written \in Nat /\ Header + Pad(written) <= rsvd /\ wpc # "idle" /\ written <= Pad(written)
    BY WrittenFacts, PadFacts
  <2>2. ElmntOffset + Header + written <= Size
    <3>1. /\ head \in 0..(Size - 1) /\ tail \in 0..(Size - 1) /\ base \in Nat
          /\ gapd \in Nat /\ rsvd \in Nat
      BY DEF IInv, TypeOK, Cells
    <3>2. /\ gapd > 0 => head + gapd = Size /\ Wpos + gapd + rsvd < Rpos + Size
          /\ gapd = 0 => head + rsvd <= Size
      BY <2>1 DEF IInv, Reservation
    <3>3. ElmntOffset + rsvd <= Size
      BY <3>1, <3>2, SizeAssumption DEF ElmntOffset, Wpos, Rpos
    <3>4. Pad(written) \in Nat /\ ElmntOffset \in Nat
      BY <2>1, <3>1, PadFacts DEF ElmntOffset
    <3> QED BY <2>1, <3>1, <3>3, <3>4, SizeAssumption DEF Header
  <2>3. ASSUME NEW i \in Unread,
               NEW c \in Body(Offset(Elmnt(i)), chunks[i].size) \cup {Offset(Elmnt(i))}
        PROVE  c \notin Body(ElmntOffset, written) /\ c # ElmntOffset
    <3>1. c \in ChunkCells(i)
      BY <2>3 DEF ChunkCells
    <3> QED BY <2>1, <3>1, DisjointCells
  <2> QED BY <2>2, <2>3
<1> QED BY <1>1, InductiveInvariant, PTL

(* A full ring never looks empty: head and tail meet only when everything  *)
(* has been read.                                                          *)
THEOREM EmptyIsEmpty ==
  ASSUME ~UseMaximum
  PROVE  Spec => []EmptyIffEqual
<1>1. IInv => EmptyIffEqual
  BY EmptyFacts DEF EmptyIffEqual
<1> QED BY <1>1, InductiveInvariant, PTL

(* An empty ring grants every request that needs at most half of it.       *)
THEOREM EmptyRingGrants ==
  ASSUME ~UseMaximum
  PROVE  Spec => EmptyGrants
<1> DEFINE Grant(minimum) ==
             WriteRequest(minimum) /\ head = tail /\ 2 * Padded(minimum) <= Size
               => wpc' = "reserved"
<1>1. ASSUME IInv, NEW minimum \in Sizes PROVE Grant(minimum)
  <2> SUFFICES ASSUME WriteRequest(minimum), head = tail, 2 * Padded(minimum) <= Size
               PROVE  wpc' = "reserved"
    OBVIOUS
  <2>1. head \in 0..(Size - 1) /\ tail \in 0..(Size - 1) /\ minimum \in Nat
    BY <1>1, SizesAssumption DEF IInv, TypeOK, Cells
  <2>2. Padded(minimum) \in Nat
    <3>1. Pad(minimum) \in Nat
      BY <2>1, PadFacts
    <3> QED BY <3>1 DEF Padded, Header
  <2>3. WritableSpace = Size - 1
    BY <2>1 DEF WritableSpace
  <2>4. head + WritableSpace > Size => Mask(head + WritableSpace) = head - 1
    <3>1. head + WritableSpace \in 0..(2 * Size - 1)
      BY <2>1, <2>3, SizeAssumption
    <3> QED BY <2>1, <2>3, <3>1, MaskFacts, SizeAssumption
  <2>5. ~ /\ head + WritableSpace > Size
          /\ Size - head < Padded(minimum)
          /\ Mask(head + WritableSpace) < Padded(minimum)
    BY <2>1, <2>2, <2>4, SizeAssumption
  <2>6. Padded(minimum) >= 2 * Header
    <3>1. Pad(minimum) \in Nat
      BY <2>1, PadFacts
    <3> QED BY <3>1 DEF Padded, Header
  <2>7. ~(WritableSpace < Padded(minimum))
    BY <2>2, <2>3, <2>6, SizeAssumption DEF Header
  <2> QED BY <2>5, <2>7 DEF WriteRequest, Reserve
<1>2. IInv /\ [Next]_vars => [\A minimum \in Sizes : Grant(minimum)]_vars
  BY <1>1
<1>3. Spec => [][\A minimum \in Sizes : Grant(minimum)]_vars
  BY <1>2, InductiveInvariant, PTL DEF Spec
<1> QED BY <1>3 DEF EmptyGrants
-----------------------------------------------------------------------------
(* The queue that the abstract ring sees *)

(* A function on 1..n is a sequence of length n.                           *)
LEMMA FunctionIsSeq ==
  ASSUME NEW S, NEW n \in Nat, NEW f \in [1..n -> S]
  PROVE  f \in Seq(S) /\ Len(f) = n /\ DOMAIN f = 1..n
  OBVIOUS

(* One more element at the end is an Append, one fewer in front a Tail.    *)
LEMMA AppendIs ==
  ASSUME NEW S, NEW n \in Nat, NEW f \in [1..n -> S], NEW g \in [1..(n + 1) -> S],
         \A k \in 1..n : g[k] = f[k]
  PROVE  g = Append(f, g[n + 1])
<1>1. f \in Seq(S) /\ Len(f) = n /\ g \in Seq(S) /\ Len(g) = n + 1
  BY FunctionIsSeq
<1>2. g[n + 1] \in S
  OBVIOUS
<1> QED BY <1>1, <1>2

LEMMA TailIs ==
  ASSUME NEW S, NEW n \in Nat, NEW f \in [1..(n + 1) -> S], NEW g \in [1..n -> S],
         \A k \in 1..n : g[k] = f[k + 1]
  PROVE  g = Tail(f) /\ f # << >> /\ Head(f) = f[1]
<1>1. f \in Seq(S) /\ Len(f) = n + 1 /\ g \in Seq(S) /\ Len(g) = n
  BY FunctionIsSeq
<1> QED BY <1>1

(* What the abstract queue holds: a length and the ids seen in the body.    *)
Item == [size : Nat, body : SUBSET Nat]

QueueIs ==
  /\ Len(chunks) - got \in Nat
  /\ FifoQueue \in [1..(Len(chunks) - got) -> Item]
  /\ \A k \in 1..(Len(chunks) - got) :
       FifoQueue[k] = Content(got + k, chunks[got + k].size)

LEMMA QueueFacts == TypeOK => QueueIs
<1> SUFFICES ASSUME TypeOK PROVE QueueIs
  OBVIOUS
<1>1. got \in Nat /\ got <= Len(chunks) /\ Len(chunks) \in Nat /\ chunks \in Seq(Entry)
  BY DEF TypeOK
<1>2. ASSUME NEW k \in 1..(Len(chunks) - got)
      PROVE  Content(got + k, chunks[got + k].size) \in Item
  <2>1. got + k \in 1..Len(chunks) /\ got + k \in Nat
    BY <1>1
  <2>2. chunks[got + k] \in Entry
    BY <1>1, <2>1
  <2>3. chunks[got + k].size \in Nat
    BY <2>2 DEF Entry
  <2>4. (IF chunks[got + k].size = 0 THEN {} ELSE {got + k}) \in SUBSET Nat
    BY <2>1
  <2> DEFINE b == IF chunks[got + k].size = 0 THEN {} ELSE {got + k}
  <2>5. b \in SUBSET Nat
    BY <2>4
  <2>6. Content(got + k, chunks[got + k].size) = [size |-> chunks[got + k].size, body |-> b]
    BY DEF Content
  <2>7. \A x \in Nat, y \in SUBSET Nat : [size |-> x, body |-> y] \in Item
    BY DEF Item
  <2> QED BY <2>3, <2>5, <2>6, <2>7
<1>3. Len(chunks) - got \in Nat
  BY <1>1
<1>4. FifoQueue = [k \in 1..(Len(chunks) - got) |-> Content(got + k, chunks[got + k].size)]
  BY DEF FifoQueue
<1> QED BY <1>2, <1>3, <1>4 DEF QueueIs

LEMMA QueueFactsNext == TypeOK' => QueueIs'
  BY QueueFacts, PTL

(* What the consumer sees through its pointer is the oldest chunk, whole.  *)
HeldIs ==
  FifoHeld = IF rpc = "reading" THEN Content(got + 1, chunks[got + 1].size)
             ELSE [size |-> 0, body |-> {0}]

LEMMA HeldFacts == IInv => HeldIs
<1> SUFFICES ASSUME IInv, rpc = "reading"
             PROVE  [size |-> toread, body |-> {mem[c].id : c \in Body(rptr, toread)}]
                      = Content(got + 1, chunks[got + 1].size)
  BY DEF HeldIs, FifoHeld
<1>1. /\ got < Len(chunks) /\ chunks[got + 1].gap = 0
      /\ rptr = tail /\ toread = chunks[got + 1].size
  BY DEF IInv, Reading
<1>2. /\ got + 1 \in Unread /\ chunks[got + 1].from = Rpos
      /\ Offset(chunks[got + 1].from) = tail
      /\ tail + Header + Pad(toread) <= Size
  BY <1>1, OldestFacts
<1>3. /\ toread \in Nat /\ tail \in Nat /\ tail % 8 = 0 /\ Rpos \in Nat /\ got + 1 \in Nat
  BY PosFacts DEF IInv, TypeOK, Cells
<1>4. Offset(Elmnt(got + 1)) = tail
  BY <1>1, <1>2, <1>3 DEF Elmnt
<1>5. \A c \in Body(tail, toread) : mem[c].id = got + 1
  BY <1>1, <1>2, <1>4 DEF IInv, Memory, Stored
<1>6. CASE toread = 0
  <2>1. Pad(toread) = 0
    BY <1>6 DEF Pad
  <2>2. Body(tail, toread) = {}
    BY <2>1, <1>3 DEF Body, Cells, Header
  <2> QED BY <2>2, <1>1, <1>6 DEF Content
<1>7. CASE toread # 0
  <2>1. Pad(toread) \in Nat /\ Pad(toread) >= toread /\ Pad(toread) > 0
    BY <1>3, <1>7, PadFacts
  <2>2. tail + Header \in Body(tail, toread)
    BY <2>1, <1>2, <1>3, SizeAssumption DEF Body, Cells, Header
  <2>3. {mem[c].id : c \in Body(tail, toread)} = {got + 1}
    BY <2>2, <1>5
  <2> QED BY <2>3, <1>1, <1>7 DEF Content
<1> QED BY <1>6, <1>7

LEMMA HeldFactsNext == IInv' => HeldIs'
  BY HeldFacts, PTL

LEMMA ContentFacts ==
  ASSUME NEW i \in Nat \ {0}, NEW n
  PROVE  Content(i, n) # [size |-> 0, body |-> {0}]
<1>1. Content(i, n).body = IF n = 0 THEN {} ELSE {i}
  BY DEF Content
<1>2. [size |-> 0, body |-> {0}].body = {0}
  OBVIOUS
<1>3. Content(i, n).body # {0}
  BY <1>1
<1> QED BY <1>2, <1>3

(* Nobody reserves beyond the bound on the number of chunks.               *)
Bounded == wpc # "idle" => Len(chunks) < MaxChunks

LEMMA BoundedInv ==
  ASSUME TypeOK, Bounded, [Next]_vars
  PROVE  Bounded'
<1>1. CASE \E minimum \in Sizes : WriteRequest(minimum)
  BY <1>1 DEF WriteRequest, Reserve, Refuse, history, Bounded
<1>2. CASE Abandon \/ (\E n \in Sizes \cup {rsvd} : Write(n)) \/ ProducerCommit
  BY <1>2 DEF Abandon, Write, ProducerCommit, WriteHeader, Publish, history, Bounded
<1>3. CASE ReadRequest \/ ReadChunk \/ ReadAdvance
  BY <1>3 DEF ReadRequest, ReadChunk, ReadAdvance, producer, history, Bounded
<1>4. CASE SkipGap
  <2>1. Len(chunks') = Len(chunks) /\ wpc' = wpc
    BY <1>4 DEF SkipGap, producer, TypeOK
  <2> QED BY <2>1 DEF Bounded
<1>5. CASE UNCHANGED vars
  BY <1>5 DEF vars, Bounded
<1> QED BY <1>1, <1>2, <1>3, <1>4, <1>5 DEF Next, ProducerNext, ConsumerNext
-----------------------------------------------------------------------------
(* Steps that publish nothing and give nothing back leave the queue as it  *)
(* is: skipping a gap changes where the oldest chunk is said to lie, not   *)
(* how long it is.                                                         *)
LEMMA SameQueue ==
  ASSUME TypeOK, [Next]_vars, ~Publish, ~ReadAdvance
  PROVE  FifoQueue' = FifoQueue
<1>1. CASE UNCHANGED <<chunks, got>>
  BY <1>1 DEF FifoQueue
<1>2. CASE SkipGap
  <2>1. /\ Len(chunks') = Len(chunks) /\ got' = got /\ Len(chunks) \in Nat /\ got \in Nat
        /\ \A i \in 1..Len(chunks) : chunks'[i].size = chunks[i].size
    <3>1. chunks \in Seq(Entry) /\ got \in Nat
      BY DEF TypeOK
    <3>2. chunks' = [chunks EXCEPT ![got + 1] = [@ EXCEPT !.gap = 0, !.from = base + Size]]
          /\ got' = got
      BY <1>2 DEF SkipGap
    <3>3. ASSUME NEW i \in 1..Len(chunks) PROVE chunks'[i].size = chunks[i].size
      <4>1. chunks[i] \in Entry
        BY <3>1
      <4> QED BY <4>1, <3>1, <3>2 DEF Entry
    <3> QED BY <3>1, <3>2, <3>3
  <2>2. \A k \in 1..(Len(chunks) - got) : got + k \in 1..Len(chunks)
    BY <2>1
  <2>3. \A k \in 1..(Len(chunks) - got) :
          Content(got' + k, chunks'[got' + k].size) = Content(got + k, chunks[got + k].size)
    BY <2>1, <2>2
  <2>4. 1..(Len(chunks') - got') = 1..(Len(chunks) - got)
    BY <2>1
  <2> QED BY <2>3, <2>4 DEF FifoQueue
<1>3. CASE ~SkipGap
  <2>1. UNCHANGED <<chunks, got>>
    BY <1>3 DEF Next, ProducerNext, ProducerCommit, ConsumerNext, WriteRequest, Abandon, Write,
                WriteHeader, ReadRequest, ReadChunk, history, vars
  <2> QED BY <2>1, <1>1
<1> QED BY <1>1, <1>2, <1>3

(* Steps that neither begin nor end a look leave what is seen as it is.    *)
LEMMA SameHeld ==
  ASSUME IInv, IInv', [Next]_vars, ~ReadChunk, ~ReadAdvance
  PROVE  FifoHeld' = FifoHeld
<1>1. rpc = "reading" => got < Len(chunks)
  BY DEF IInv, Reading
<1>2. (rpc' = "reading") <=> (rpc = "reading")
  BY DEF Next, ProducerNext, ProducerCommit, ConsumerNext, WriteRequest, Abandon, Write,
         WriteHeader, Publish, ReadRequest, SkipGap, consumer, vars
<1>3. rpc = "reading" => got' = got /\ chunks'[got + 1] = chunks[got + 1]
  <2>1. CASE Publish
    <3>1. /\ chunks \in Seq(Entry) /\ got \in Nat /\ Len(chunks) \in Nat /\ got' = got
          /\ \E e : chunks' = Append(chunks, e)
      BY <2>1 DEF Publish, IInv, TypeOK
    <3> QED BY <1>1, <3>1
  <2>2. CASE ~Publish
    <3>1. rpc = "reading" => UNCHANGED <<chunks, got>>
      BY <2>2 DEF Next, ProducerNext, ProducerCommit, ConsumerNext, WriteRequest, Abandon, Write,
                  WriteHeader, ReadRequest, SkipGap, history, vars
    <3> QED BY <3>1
  <2> QED BY <2>1, <2>2
<1> QED BY <1>2, <1>3, HeldFacts, HeldFactsNext DEF HeldIs

(* The store of head sends one whole chunk.                                *)
LEMMA PublishSends ==
  ASSUME IInv, IInv', Bounded, Publish
  PROVE  \E i \in 1..MaxChunks, n \in 0..Size : Ring!Send(Content(i, n))
<1> DEFINE i == Len(chunks) + 1
<1>1. /\ TypeOK /\ TypeOK' /\ Len(chunks) \in Nat /\ chunks \in Seq(Entry)
      /\ got \in Nat /\ got <= Len(chunks) /\ got' = got
      /\ chunks' = Append(chunks, [size |-> written, gap |-> gapd, from |-> Wpos])
  BY DEF IInv, TypeOK, Publish
<1>2. i \in 1..MaxChunks
  BY <1>1, MaxChunksAssumption DEF Bounded, Publish
<1>3. written \in 0..Size
  <2>1. written \in Nat /\ Pad(written) \in Nat /\ Header + Pad(written) <= rsvd /\ written <= Pad(written)
    BY WrittenFacts, PadFacts DEF Publish
  <2>2. gapd \in Nat /\ rsvd \in Nat /\ Wpos + gapd + rsvd < Rpos + Size
    BY DEF IInv, TypeOK, Reservation, Publish
  <2>3. Rpos \in Nat /\ Wpos \in Nat /\ Rpos <= Wpos
    BY <1>1, PosFacts
  <2> QED BY <2>1, <2>2, <2>3, SizeAssumption DEF Header
<1>4. /\ chunks'[i] = [size |-> written, gap |-> gapd, from |-> Wpos]
      /\ Len(chunks') = i
      /\ \A j \in 1..Len(chunks) : chunks'[j] = chunks[j]
  BY <1>1
<1>5. FifoQueue' = Append(FifoQueue, Content(i, written))
  <2> DEFINE n == Len(chunks) - got
  <2>1. n \in Nat /\ n + 1 = Len(chunks') - got'
    BY <1>1, <1>4
  <2>2. FifoQueue \in [1..n -> Item] /\ FifoQueue' \in [1..(n + 1) -> Item]
    <3>1. FifoQueue' \in [1..(Len(chunks') - got') -> Item]
      BY <1>1, QueueFactsNext DEF QueueIs
    <3> QED BY <3>1, <2>1, <1>1, QueueFacts DEF QueueIs
  <2>3. \A k \in 1..(n + 1) : FifoQueue'[k] = Content(got + k, chunks'[got + k].size)
    BY <1>1, <2>1 DEF FifoQueue
  <2>4. \A k \in 1..n : FifoQueue[k] = Content(got + k, chunks[got + k].size)
    BY <1>1, QueueFacts DEF QueueIs
  <2>5. \A k \in 1..n : FifoQueue'[k] = FifoQueue[k]
    <3>1. \A k \in 1..n : k \in 1..(n + 1) /\ got + k \in 1..Len(chunks)
      BY <1>1
    <3> QED BY <3>1, <2>3, <2>4, <1>4
  <2>6. FifoQueue'[n + 1] = Content(i, written)
    <3>1. n + 1 \in 1..(n + 1) /\ got + (n + 1) = i
      BY <1>1
    <3>2. chunks'[i].size = written
      BY <1>4
    <3> HIDE DEF n, i
    <3> QED BY <3>1, <3>2, <2>3
  <2> HIDE DEF n
  <2> QED BY <2>1, <2>2, <2>5, <2>6, AppendIs
<1>6. FifoHeld' = FifoHeld
  <2>1. ~ReadChunk /\ ~ReadAdvance /\ [Next]_vars
    BY DEF Publish, ReadChunk, ReadAdvance, consumer, Next, ProducerNext, ProducerCommit
  <2> QED BY <2>1, SameHeld
<1> QED BY <1>2, <1>3, <1>5, <1>6 DEF Ring!Send

(* A successful varchunk_read_request shows the oldest chunk.              *)
LEMMA ReadChunkPeeks ==
  ASSUME IInv, IInv', ReadChunk
  PROVE  Ring!Peek
<1>1. /\ rpc # "reading" /\ rpc' = "reading" /\ UNCHANGED <<chunks, got>>
      /\ got < Len(chunks) /\ TypeOK
  BY DEF IInv, ReadChunk, Reading, history
<1>2. FifoQueue' = FifoQueue
  BY <1>1 DEF FifoQueue
<1>3. FifoHeld = [size |-> 0, body |-> {0}] /\ FifoHeld' = Content(got + 1, chunks[got + 1].size)
  BY <1>1, HeldFacts, HeldFactsNext DEF HeldIs
<1>4. FifoQueue # << >> /\ Head(FifoQueue) = Content(got + 1, chunks[got + 1].size)
  <2>1. Len(chunks) - got \in Nat /\ 1 \in 1..(Len(chunks) - got)
    BY <1>1 DEF TypeOK
  <2>2. FifoQueue \in Seq(Item) /\ Len(FifoQueue) = Len(chunks) - got
    BY <1>1, <2>1, QueueFacts, FunctionIsSeq DEF QueueIs
  <2>3. FifoQueue[1] = Content(got + 1, chunks[got + 1].size)
    BY <1>1, <2>1, QueueFacts DEF QueueIs
  <2> QED BY <2>1, <2>2, <2>3
<1> QED BY <1>2, <1>3, <1>4 DEF Ring!Peek

(* varchunk_read_advance gives back the chunk that was shown.              *)
LEMMA ReadAdvanceReleases ==
  ASSUME IInv, IInv', ReadAdvance
  PROVE  Ring!Release
<1>1. /\ rpc = "reading" /\ rpc' = "idle" /\ chunks' = chunks /\ got' = got + 1
      /\ got < Len(chunks) /\ TypeOK /\ TypeOK' /\ got \in Nat /\ Len(chunks) \in Nat
  BY DEF IInv, TypeOK, ReadAdvance, Reading
<1>2. FifoHeld # [size |-> 0, body |-> {0}] /\ FifoHeld' = [size |-> 0, body |-> {0}]
  <2>1. got + 1 \in Nat \ {0}
    BY <1>1
  <2> QED BY <1>1, <2>1, HeldFacts, HeldFactsNext, ContentFacts DEF HeldIs
<1>3. FifoQueue' = Tail(FifoQueue)
  <2> DEFINE n == Len(chunks) - got - 1
  <2>1. n \in Nat /\ n + 1 = Len(chunks) - got /\ n = Len(chunks') - got'
    BY <1>1
  <2>2. FifoQueue \in [1..(n + 1) -> Item] /\ FifoQueue' \in [1..n -> Item]
    <3>1. FifoQueue' \in [1..(Len(chunks') - got') -> Item]
      BY <1>1, QueueFactsNext DEF QueueIs
    <3> QED BY <3>1, <2>1, <1>1, QueueFacts DEF QueueIs
  <2>3. \A k \in 1..n : FifoQueue'[k] = FifoQueue[k + 1]
    <3>1. ASSUME NEW k \in 1..n PROVE FifoQueue'[k] = FifoQueue[k + 1]
      <4>1. k + 1 \in 1..(Len(chunks) - got) /\ k \in 1..(Len(chunks') - got')
            /\ got' + k = got + (k + 1)
        BY <1>1
      <4>2. FifoQueue'[k] = Content(got' + k, chunks'[got' + k].size)
        BY <4>1 DEF FifoQueue
      <4>3. FifoQueue[k + 1] = Content(got + (k + 1), chunks[got + (k + 1)].size)
        BY <4>1 DEF FifoQueue
      <4> QED BY <4>1, <4>2, <4>3, <1>1
    <3> QED BY <3>1
  <2> HIDE DEF n
  <2> QED BY <2>1, <2>2, <2>3, TailIs
<1> QED BY <1>2, <1>3 DEF Ring!Release

(* The ring buffer implements a queue of whole chunks: what is written     *)
(* with varchunk_write_request_max and varchunk_write_advance comes out of *)
(* varchunk_read_request once each, in order, unchanged for as long as the *)
(* reader looks, however the two threads' loads and stores interleave.     *)
THEOREM RingImplementsFifo ==
  ASSUME ~UseMaximum
  PROVE  Spec => RingIsFifo
<1>1. Init => Ring!Init
  <2> SUFFICES ASSUME Init PROVE Ring!Init
    OBVIOUS
  <2>1. FifoHeld = [size |-> 0, body |-> {0}]
    BY DEF Init, FifoHeld
  <2>2. FifoQueue = << >>
    <3>1. 1..(Len(chunks) - got) = {}
      BY DEF Init
    <3> QED BY <3>1 DEF FifoQueue
  <2> QED BY <2>1, <2>2 DEF Ring!Init
<1>2. IInv /\ IInv' /\ Bounded /\ [Next]_vars => [Ring!Next]_(Ring!vars)
  <2> SUFFICES ASSUME IInv, IInv', Bounded, [Next]_vars PROVE [Ring!Next]_(Ring!vars)
    OBVIOUS
  <2>1. CASE Publish
    BY <2>1, PublishSends DEF Ring!Next
  <2>2. CASE ReadChunk
    BY <2>2, ReadChunkPeeks DEF Ring!Next
  <2>3. CASE ReadAdvance
    BY <2>3, ReadAdvanceReleases DEF Ring!Next
  <2>4. CASE ~Publish /\ ~ReadChunk /\ ~ReadAdvance
    BY <2>4, SameQueue, SameHeld DEF IInv, Ring!vars
  <2> QED BY <2>1, <2>2, <2>3, <2>4
<1>3. Init => Bounded
  BY DEF Init, Bounded
<1>4. TypeOK /\ Bounded /\ [Next]_vars => Bounded'
  BY BoundedInv
<1> QED BY <1>1, <1>2, <1>3, <1>4, InductiveInvariant, TypeCorrect, PTL DEF Spec, RingIsFifo, Ring!Spec
===========================================================================
