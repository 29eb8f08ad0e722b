----------------------------- MODULE Varchunk -----------------------------
(***************************************************************************)
(* varchunk.h: the lock-free ring buffer through which the receiving       *)
(* thread (main) hands OSC packets to the thread that drives the DMX line  *)
(* (_beat), and replies the other way.  One thread produces, one consumes. *)
(*                                                                         *)
(* The buffer is an array of Size bytes, modelled in cells of eight bytes: *)
(* a chunk is one header cell {size, gap} followed by its body, padded to  *)
(* whole cells.  head and tail are the two shared atomics, stored with     *)
(* release and loaded with acquire, so each load and store is a step of    *)
(* its own and the plain writes between them are not reordered.            *)
(*                                                                         *)
(* chunks, got and base are history: every chunk ever published with the   *)
(* absolute address it was published at, how many the consumer has given   *)
(* back, and the absolute address of cell 0 in the consumer's current lap. *)
(* No guard and no program variable depends on them, the bound MaxChunks   *)
(* apart.                                                                  *)
(***************************************************************************)
EXTENDS Integers, Sequences

CONSTANTS
  Size,        \* bytes in the ring
  Sizes,       \* byte counts that callers ask for and write
  UseMaximum,  \* may a caller write up to *maximum, or only up to minimum?
  MaxChunks    \* bound: chunks published in a behaviour

ASSUME SizeAssumption == Size \in Nat /\ Size > 0 /\ Size % 8 = 0
ASSUME SizesAssumption == Sizes \subseteq Nat
ASSUME UseMaximumAssumption == UseMaximum \in BOOLEAN
ASSUME MaxChunksAssumption == MaxChunks \in Nat

VARIABLES
  head, tail,        \* offsets of the next write and of the next read
  mem,               \* the array
  rsvd, gapd,        \* the producer's reservation, fields of varchunk_t
  wpc,               \* where the producer is
  want, written,     \* the caller's minimum, and what it wrote
  rpc,               \* where the consumer is
  rwrap,             \* the consumer saw the readable area wrap
  rptr, toread,      \* what varchunk_read_request returned
  chunks, got, base  \* history

shared == <<head, tail, mem>>
producer == <<rsvd, gapd, wpc, want, written>>
consumer == <<rpc, rwrap, rptr, toread>>
history == <<chunks, got, base>>
vars == <<head, tail, mem, rsvd, gapd, wpc, want, written,
          rpc, rwrap, rptr, toread, chunks, got, base>>

Header == 8                                   \* sizeof(varchunk_elmnt_t)
Pad(n) == ((n + 7) \div 8) * 8                \* VARCHUNK_PAD
Mask(offset) == offset % Size                 \* offset & mask
Cells == {c \in 0..(Size - 1) : c % 8 = 0}

(* A cell is read as a header or as body bytes, whatever it was written    *)
(* as: the id of a header is that of no chunk, and a body, whose bytes are *)
(* the caller's, looks like a gap or like a chunk, here by the parity of   *)
(* its id, of an absurd size.                                              *)
Cell == [size : Nat, gap : {0, 1}, id : Nat]
HeaderCell(size, gap) == [size |-> size, gap |-> gap, id |-> 0]
BodyCell(id) == [size |-> Size, gap |-> id % 2, id |-> id]
Junk == BodyCell(0)

(* What history keeps of a published chunk *)
Entry == [size : Nat, gap : Nat, from : Nat]

Body(elmnt, size) ==
  {c \in Cells : elmnt + Header <= c /\ c < elmnt + Header + Pad(size)}

TypeOK ==
  /\ head \in Cells /\ tail \in Cells
  /\ mem \in [Cells -> Cell]
  /\ rsvd \in Nat /\ gapd \in Nat
  /\ wpc \in {"idle", "reserved", "written", "header"}
  /\ want \in Nat /\ written \in Nat
  /\ rpc \in {"idle", "loaded", "skipped", "reading"}
  /\ rwrap \in BOOLEAN
  /\ rptr \in Cells /\ toread \in Nat
  /\ chunks \in Seq(Entry)
  /\ got \in Nat /\ got <= Len(chunks)
  /\ base \in Nat

Init ==
  /\ head = 0 /\ tail = 0
  /\ mem = [c \in Cells |-> Junk]
  /\ rsvd = 0 /\ gapd = 0 /\ wpc = "idle" /\ want = 0 /\ written = 0
  /\ rpc = "idle" /\ rwrap = FALSE /\ rptr = 0 /\ toread = 0
  /\ chunks = << >> /\ got = 0 /\ base = 0
-----------------------------------------------------------------------------
(* History: absolute addresses *)

Rpos == base + tail
Wpos == IF head >= tail THEN base + head ELSE base + Size + head
Elmnt(i) == chunks[i].from + chunks[i].gap
End(i) == Elmnt(i) + Header + Pad(chunks[i].size)
Offset(p) == IF p - base < Size THEN p - base ELSE p - base - Size
Unread == (got + 1)..Len(chunks)
-----------------------------------------------------------------------------
(* The producer *)

(* Faulty: an empty ring does not offer what lies before head. *)
SpaceToTheEnd ==
  IF head > tail THEN Mask(tail - head + Size) - 1
  ELSE IF head < tail THEN tail - head - 1
  ELSE Size - 1 - head

WritableSpace ==
  IF head > tail THEN Mask(tail - head + Size) - 1
  ELSE IF head < tail THEN tail - head - 1
  ELSE Size - 1

PaddedBody(minimum) == Pad(minimum)           \* faulty: no room for the headers
Padded(minimum) == 2 * Header + Pad(minimum)

Reserve(space, gap, minimum) ==
  /\ wpc' = "reserved"
  /\ rsvd' = space /\ gapd' = gap
  /\ want' = minimum
  /\ UNCHANGED written

Refuse ==
  /\ rsvd' = 0 /\ gapd' = 0
  /\ UNCHANGED <<wpc, want, written>>

WriteRequest(minimum) ==
  LET space == WritableSpace
      end == head + space
      len1 == Size - head
      len2 == Mask(end)
      padded == Padded(minimum)
  IN
  /\ wpc = "idle"
  /\ Len(chunks) < MaxChunks
  /\ \/ end > Size /\ len1 >= padded /\ Reserve(len1, 0, minimum)
     \/ end > Size /\ len1 < padded /\ len2 >= padded /\ Reserve(len2, len1, minimum)
     \/ end > Size /\ len1 < padded /\ len2 < padded /\ Refuse
     \/ end <= Size /\ space >= padded /\ Reserve(space, 0, minimum)
     \/ end <= Size /\ space < padded /\ Refuse
  /\ UNCHANGED <<shared, consumer, history>>

(* Nothing was received: the caller never calls varchunk_write_advance. *)
Abandon ==
  /\ wpc = "reserved"
  /\ wpc' = "idle" /\ want' = 0
  /\ UNCHANGED <<rsvd, gapd, written, shared, consumer, history>>

Limit == IF UseMaximum THEN rsvd ELSE want
ElmntOffset == IF gapd > 0 THEN 0 ELSE head

(* The caller fills the body through the pointer it was given. *)
Write(n) ==
  /\ wpc = "reserved"
  /\ n <= Limit
  /\ mem' = [c \in Cells |-> IF c \in Body(ElmntOffset, n)
                             THEN BodyCell(Len(chunks) + 1) ELSE mem[c]]
  /\ wpc' = "written" /\ written' = n
  /\ UNCHANGED <<head, tail, rsvd, gapd, want, consumer, history>>

(* Faulty: the gap is left behind without a header. *)
WriteHeaderOnly ==
  /\ wpc = "written"
  /\ written <= rsvd
  /\ mem' = [mem EXCEPT ![ElmntOffset] = HeaderCell(written, 0)]
  /\ wpc' = "header"
  /\ UNCHANGED <<head, tail, rsvd, gapd, want, written, consumer, history>>

(* varchunk_write_advance up to its store of head *)
WriteHeader ==
  /\ wpc = "written"
  /\ written <= rsvd
  /\ IF gapd > 0
     THEN mem' = [mem EXCEPT ![head] = HeaderCell(gapd - Header, 1),
                             ![0] = HeaderCell(written, 0)]
     ELSE mem' = [mem EXCEPT ![head] = HeaderCell(written, 0)]
  /\ wpc' = "header"
  /\ UNCHANGED <<head, tail, rsvd, gapd, want, written, consumer, history>>

Publish ==
  /\ wpc = "header"
  /\ head' = Mask(head + gapd + Header + Pad(written))
  /\ chunks' = Append(chunks, [size |-> written, gap |-> gapd, from |-> Wpos])
  /\ wpc' = "idle" /\ want' = 0 /\ written' = 0
  /\ UNCHANGED <<tail, mem, rsvd, gapd, consumer, got, base>>
-----------------------------------------------------------------------------
(* The consumer *)

SpaceAhead == IF head > tail THEN head - tail ELSE 0  \* faulty: a wrapped ring looks empty

ReadableSpace ==
  IF head > tail THEN head - tail ELSE Mask(head - tail + Size)

(* varchunk_read_request loads head; when nothing is readable it returns   *)
(* NULL and no state changes.                                              *)
ReadRequest ==
  /\ rpc = "idle"
  /\ ReadableSpace > 0
  /\ rpc' = "loaded"
  /\ rwrap' = (tail + ReadableSpace > Size)
  /\ UNCHANGED <<rptr, toread, shared, producer, history>>

NeverAtGap == FALSE                           \* faulty: gaps are read as chunks
AtGap == rwrap /\ mem[tail].gap = 1

SkipGap ==
  /\ rpc = "loaded" /\ AtGap
  /\ tail' = Mask(tail + (Size - tail))
  /\ rpc' = "skipped"
  /\ base' = base + Size
  /\ chunks' = [chunks EXCEPT ![got + 1] = [@ EXCEPT !.gap = 0, !.from = base + Size]]
  /\ UNCHANGED <<head, mem, rwrap, rptr, toread, got, producer>>

ReadChunk ==
  /\ \/ rpc = "loaded" /\ ~AtGap /\ rptr' = tail
     \/ rpc = "skipped" /\ rptr' = 0
  /\ toread' = mem[rptr'].size
  /\ rpc' = "reading"
  /\ UNCHANGED <<rwrap, shared, producer, history>>

(* varchunk_read_advance reads the size again, from the header at tail. *)
ReadAdvance ==
  LET next == tail + Header + Pad(mem[tail].size)
  IN
  /\ rpc = "reading"
  /\ tail' = Mask(next)
  /\ rpc' = "idle" /\ rwrap' = FALSE /\ rptr' = 0 /\ toread' = 0
  /\ got' = got + 1
  /\ base' = IF next >= Size THEN base + Size ELSE base
  /\ UNCHANGED <<head, mem, chunks, producer>>
-----------------------------------------------------------------------------
ProducerCommit == WriteHeader \/ Publish

ProducerNext ==
  \/ \E minimum \in Sizes : WriteRequest(minimum)
  \/ Abandon
  \/ \E n \in Sizes \cup {rsvd} : Write(n)
  \/ ProducerCommit

ConsumerNext == ReadRequest \/ SkipGap \/ ReadChunk \/ ReadAdvance

Next == ProducerNext \/ ConsumerNext

Spec == Init /\ [][Next]_vars

(* The beat thread drains the ring once per frame; nobody has to produce.  *)
FairSpec == Spec /\ WF_vars(ConsumerNext)
-----------------------------------------------------------------------------
(* Properties *)

(* What varchunk_write_advance is about to publish lies inside the array   *)
(* and touches no cell of a chunk the consumer has yet to give back.       *)
NoOverlap ==
  wpc \in {"written", "header"} =>
    /\ ElmntOffset + Header + written <= Size
    /\ \A i \in Unread :
         \A c \in Body(Offset(Elmnt(i)), chunks[i].size) \cup {Offset(Elmnt(i))} :
            /\ c \notin Body(ElmntOffset, written)
            /\ c # ElmntOffset

(* head = tail is how both sides tell that the ring is empty, so a full    *)
(* ring must never look like that, however the chunks and gaps add up.     *)
EmptyIffEqual == head = tail <=> got = Len(chunks)

(* A request that needs at most half of the ring is granted whenever the   *)
(* ring is empty, wherever head then happens to be: the sender that is     *)
(* refused (NULL, ENOMEM) can rely on a retry.                             *)
EmptyGrants ==
  [][\A minimum \in Sizes :
       WriteRequest(minimum) /\ head = tail /\ 2 * Padded(minimum) <= Size
          => wpc' = "reserved"]_vars

(* The ring is a queue of whole chunks: nothing lost, repeated, reordered, *)
(* torn or changed while the consumer looks at it.                         *)
Content(i, size) == [size |-> size, body |-> IF size = 0 THEN {} ELSE {i}]

FifoQueue == [k \in 1..(Len(chunks) - got) |-> Content(got + k, chunks[got + k].size)]

FifoHeld ==
  IF rpc = "reading"
  THEN [size |-> toread, body |-> {mem[c].id : c \in Body(rptr, toread)}]
  ELSE [size |-> 0, body |-> {0}]

Ring == INSTANCE Fifo WITH
  Chunk <- {Content(i, n) : i \in 1..MaxChunks, n \in 0..Size},
  NoChunk <- [size |-> 0, body |-> {0}],
  queue <- FifoQueue,
  held <- FifoHeld

RingIsFifo == Ring!Spec

(* Every chunk published is eventually given back by the consumer, so      *)
(* space always comes back.                                                *)
Drained == \A i \in 1..MaxChunks : Len(chunks) >= i ~> got >= i
=============================================================================
