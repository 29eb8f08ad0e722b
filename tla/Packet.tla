------------------------------- MODULE Packet -------------------------------
(***************************************************************************)
(* A packet from writer.h to reader.h: bundles, items and messages are     *)
(* written into a buffer, with sizes filled in when an item is complete;   *)
(* what of it arrives is read by main.c (_handle_osc_packet) or by forge.h *)
(* (lv2_osc_forge_packet).  A datagram longer than the room for it, and a  *)
(* stream that comes in parts, may cut the packet anywhere.                *)
(*                                                                         *)
(* Everything in a packet is padded to words of four bytes, so positions   *)
(* and sizes are counted in words; a word is known by what it is a part    *)
(* of.  Arguments stand for their kinds, which are told apart by how their *)
(* length is found: "T" is in the format alone, "i" is a word, "h" two,    *)
(* "s" ends with a zero, "b" begins with its length.                       *)
(***************************************************************************)
EXTENDS Integers, Sequences, SequencesExt

CONSTANTS
  Messages,     \* what is written: [path, args], see MCPacket
  Timetags,     \* of bundles
  Immediate,    \* LV2_OSC_IMMEDIATE
  Bundle,       \* "#bundle"
  Room,         \* the buffer, in words
  MaxDepth,     \* bound: bundles within each other
  MaxMessages   \* bound: messages in a packet

ASSUME RoomAssumption == Room \in Nat \ {0} /\ {MaxDepth, MaxMessages} \subseteq Nat
ASSUME TimetagsAssumption == Immediate \in Timetags
ASSUME MessagesAssumption ==
  \A m \in Messages :
    /\ m.path # Bundle /\ m.path.bytes \in Nat
    /\ Len(m.args) \in Nat /\ DOMAIN m.args = 1..Len(m.args)
    /\ \A k \in DOMAIN m.args :
         /\ m.args[k].type \in {"T", "i", "h", "s", "b"}
         /\ m.args[k].type \in {"s", "b"} => m.args[k].value.bytes \in Nat

VARIABLES
  pc,         \* "write", "read", or how it ended
  writer,     \* up to ptr, the open frames' refs, and did everything fit?
  consumer,   \* who reads
  end,        \* how much of the buffer arrived
  stack,      \* the bundles being iterated over, the outermost first
  calling,    \* is the item, or the packet as a whole, still to be looked at?
  \* history
  written,    \* the messages, under which timetag, beginning where
  items,      \* where the items of the outermost bundle end
  events      \* what was read

vars == <<pc, writer, consumer, end, stack, calling, written, items, events>>
buf == writer.buf
-----------------------------------------------------------------------------
(* Words *)

Words(n, value) == [k \in 1..n |-> [of |-> value, part |-> k]]

(* LV2_OSC_PADDED_SIZE *)
PaddedWords(bytes) == (bytes + 3) \div 4

(* s.bytes is what strlen returns.                                         *)
String(s) == Words(PaddedWords(s.bytes + 1), s)

Argument(arg) ==
  CASE arg.type = "T" -> << >>
    [] arg.type = "i" -> Words(1, arg.value)
    [] arg.type = "h" -> Words(2, arg.value)
    [] arg.type = "s" -> String(arg.value)
    [] arg.type = "b" -> Words(1, arg.value.bytes)
                           \o Words(PaddedWords(arg.value.bytes), arg.value)

(* With the comma in front *)
Format(args) ==
  String([text |-> [k \in DOMAIN args |-> args[k].type], bytes |-> Len(args) + 1])

Head2(message) == String(message.path) \o Format(message.args)

MessageWords(message) ==
  Head2(message) \o FlattenSeq([k \in DOMAIN message.args |-> Argument(message.args[k])])
-----------------------------------------------------------------------------
(* The writer.  What begins to be written and does not fit makes all of    *)
(* the calls return false; the packet is then given up.                    *)

Empty == [buf |-> << >>, refs |-> << >>, ok |-> TRUE]

(* lv2_osc_writer_overflow: the last byte of the buffer is never used.     *)
Add(w, words) ==
  IF Len(w.buf) + Len(words) < Room
  THEN [w EXCEPT !.buf = @ \o words]
  ELSE [w EXCEPT !.ok = FALSE]

push(w, words) == [Add(w, words) EXCEPT !.refs = Append(@, Len(w.buf))]

push_bundle(w, timetag) == push(w, Words(2, Bundle) \o Words(2, timetag))

push_item(w) == push(w, Words(1, 0))

(* ptr goes back to where the frame began, and false is returned.          *)
Undo(w) ==
  [w EXCEPT !.buf = SubSeq(@, 1, Last(w.refs)), !.refs = Front(@), !.ok = FALSE]

pop_bundle(w) ==
  IF Len(w.buf) - Last(w.refs) - 4 <= 0 THEN Undo(w)
  ELSE [w EXCEPT !.refs = Front(@)]

(* Faulty: the size counts itself.                                         *)
pop_item_counts(w) ==
  LET size == Len(w.buf) - Last(w.refs) IN
  IF size <= 1 THEN Undo(w)
  ELSE [w EXCEPT !.buf[Last(w.refs) + 1].of = size, !.refs = Front(@)]

(* Faulty: an empty item is left where it is, of size 0.                   *)
pop_item_keeps(w) ==
  [w EXCEPT !.buf[Last(w.refs) + 1].of = Len(w.buf) - Last(w.refs) - 1, !.refs = Front(@)]

pop_item(w) ==
  LET size == Len(w.buf) - Last(w.refs) - 1 IN
  IF size <= 0 THEN Undo(w)
  ELSE [w EXCEPT !.buf[Last(w.refs) + 1].of = size, !.refs = Front(@)]

(* Bundles hold items, items hold one packet.                              *)
InBundle(w) == Len(w.refs) % 2 = 1
InItem(w) == Len(w.refs) > 0 /\ ~InBundle(w)
Fresh(w) == IF w.refs = << >> THEN w.buf = << >> ELSE InItem(w) /\ Len(w.buf) = Last(w.refs) + 1

TimetagAround(w) == IF w.refs = << >> THEN Immediate ELSE w.buf[w.refs[Len(w.refs) - 1] + 3].of

Writes(w) ==
  /\ pc = "write"
  /\ writer' = w
  /\ pc' = IF w.ok THEN "write" ELSE "failed"
  /\ UNCHANGED <<consumer, end, stack, calling, events>>

PushBundle(timetag) ==
  /\ Fresh(writer) /\ Len(writer.refs) < 2 * MaxDepth
  /\ Writes(push_bundle(writer, timetag))
  /\ UNCHANGED <<written, items>>

PushItem ==
  /\ InBundle(writer)
  /\ Writes(push_item(writer))
  /\ UNCHANGED <<written, items>>

(* lv2_osc_writer_message_vararg *)
AddMessage(message) ==
  /\ Fresh(writer) /\ Len(written) < MaxMessages
  /\ Writes(Add(writer, MessageWords(message)))
  /\ written' = Append(written,
       [message |-> message, timetag |-> TimetagAround(writer), at |-> Len(buf)])
  /\ UNCHANGED items

(* Whoever writes may go on after a pop that had nothing to close.         *)
PopItem ==
  /\ InItem(writer)
  /\ Writes([pop_item(writer) EXCEPT !.ok = TRUE])
  /\ items' = IF Len(writer.refs) = 2 /\ ~Fresh(writer) THEN Append(items, Len(buf)) ELSE items
  /\ UNCHANGED written

PopBundle ==
  /\ InBundle(writer)
  /\ Writes([pop_bundle(writer) EXCEPT !.ok = TRUE])
  /\ UNCHANGED <<written, items>>

(* lv2_osc_writer_finalize, and the packet's way to the reader             *)
Transmit ==
  /\ pc = "write" /\ writer.refs = << >> /\ buf # << >>
  /\ pc' = "read"
  /\ end' \in 0..Len(buf)
  /\ consumer' \in {"app", "forge"}
  /\ UNCHANGED <<writer, stack, calling, written, items, events>>
-----------------------------------------------------------------------------
(* The reader.  A place is the number of words before it; a reader ends at *)
(* to.  The operators below are only asked about places before end.        *)

Word(p) == buf[p + 1].of

(* Faulty: the size is believed.                                           *)
HasSize(p, to) == p + 1 <= to

(* lv2_osc_reader_item_raw                                                 *)
HasItem(p, to) == p + 1 <= to /\ p + 1 + Word(p) <= to

(* lv2_osc_reader_get_string: where the string at p ends.  strlen comes    *)
(* before the test for overflow: memory is looked at up to there, and if   *)
(* that is behind to, beyond what the reader was given.                    *)
StringEnd(p, to) == IF p < to THEN p + PaddedWords(Word(p).bytes + 1) ELSE p + 1

(* Where the argument at p ends, whether or not that is before to          *)
ArgumentEnd(type, p, to) ==
  CASE type = "T" -> p
    [] type = "i" -> p + 1
    [] type = "h" -> p + 2
    [] type = "s" -> StringEnd(p, to)
    [] type = "b" -> IF p < to THEN p + 1 + PaddedWords(Word(p)) ELSE p + 1

(* lv2_osc_reader_arg_next: where the arguments end, from begin on, up to  *)
(* the first that does not end before to                                   *)
ArgumentEnds(types, begin, to) ==
  LET ends[k \in 0..Len(types)] ==
        IF k = 0 THEN begin
        ELSE IF ends[k - 1] > to THEN ends[k - 1]
        ELSE ArgumentEnd(types[k], ends[k - 1], to)
  IN  ends

(* lv2_osc_reader_arg_begin and _arg_next: path and format, and arguments  *)
(* as long as there are any; valid unless that returns NULL at once.       *)
ReadMessage(from, to) ==
  LET fmt == StringEnd(from, to)
      types == Word(fmt).text
      begin == StringEnd(fmt, to)
      headed == fmt <= to /\ begin <= to
      ends == ArgumentEnds(types, begin, to)
      whole == {k \in 0..Len(types) : ends[k] <= to}
      count == CHOOSE k \in whole : \A j \in whole : j <= k
  IN  IF ~headed THEN [valid |-> FALSE]
      ELSE [valid |-> Len(types) = 0 \/ count > 0,
            path |-> Word(from),
            args |-> [k \in 1..count |->
                        [type |-> types[k], words |-> SubSeq(buf, ends[k - 1] + 1, ends[k])]]]

(* One of the strings that ReadMessage gets is looked for behind to; all   *)
(* else is only read if it is before.                                      *)
ScansBehind(from, to) ==
  LET fmt == StringEnd(from, to)
      types == Word(fmt).text
      begin == StringEnd(fmt, to)
      ends == ArgumentEnds(types, begin, to)
  IN  \/ fmt > to
      \/ begin > to
      \/ \E k \in 1..Len(types) : types[k] = "s" /\ ends[k - 1] <= to /\ to < ends[k]

(* What is looked at: the item of the innermost bundle, or the packet      *)
Current ==
  IF stack = << >> THEN [from |-> 0, to |-> end, timetag |-> Immediate]
  ELSE LET top == Last(stack)
       IN  [from |-> top.from, to |-> top.from + top.size, timetag |-> top.timetag]

Reads == pc = "read" /\ calling /\ UNCHANGED <<writer, consumer, end, written, items>>

IsBundle == Current.from < Current.to /\ Word(Current.from) = Bundle
IsMessage == Current.from < Current.to /\ Word(Current.from) # Bundle

(* What comes next looks at memory behind what it was given:               *)
(* lv2_osc_reader_is_bundle compares eight bytes, or what there is not.    *)
LooksBehind ==
  \/ Current.from = Current.to
  \/ IsBundle /\ Current.to < Current.from + 2
  \/ IsMessage /\ ScansBehind(Current.from, Current.to)

(* lv2_osc_reader_item_begin finds an item.                                *)
Itemised ==
  /\ Current.from + 4 <= Current.to
  /\ HasItem(Current.from + 4, Current.to)

EnterBundle ==
  LET first == Current.from + 4 IN
  /\ Reads /\ IsBundle /\ Itemised
  /\ stack' = Append(stack,
       [from |-> first + 1, size |-> Word(first), to |-> Current.to,
        timetag |-> Word(Current.from + 2)])
  /\ events' = Append(events, [is |-> "enter", timetag |-> Word(Current.from + 2)])
  /\ UNCHANGED <<pc, calling>>

(* main.c goes on; forge.h returns 0, and so do all its callers.           *)
GoesOnOrRefuses ==
  IF consumer = "app" THEN calling' = FALSE /\ UNCHANGED pc
  ELSE pc' = "refused" /\ UNCHANGED calling

SkipBundle ==
  /\ Reads /\ IsBundle /\ ~Itemised
  /\ GoesOnOrRefuses
  /\ UNCHANGED <<stack, events>>

HandleMessage ==
  LET message == ReadMessage(Current.from, Current.to) IN
  /\ Reads /\ IsMessage /\ message.valid
  /\ events' = Append(events,
       [is |-> "message", timetag |-> Current.timetag,
        path |-> message.path, args |-> message.args])
  /\ calling' = FALSE
  /\ UNCHANGED <<pc, stack>>

(* lv2_osc_reader_match does not test for NULL, forge.h does.              *)
NullMessage ==
  /\ Reads /\ IsMessage /\ ~ReadMessage(Current.from, Current.to).valid
  /\ pc' = IF consumer = "app" THEN "crashed" ELSE "refused"
  /\ UNCHANGED <<stack, calling, events>>

(* Without a single word, what was in memory before is taken for the       *)
(* beginning of a bundle, of a message, or of neither.                     *)
NothingThere ==
  /\ Reads /\ Current.from = Current.to
  /\ \/ GoesOnOrRefuses
     \/ consumer = "app" /\ pc' = "crashed" /\ UNCHANGED calling
  /\ UNCHANGED <<stack, events>>

Iterates ==
  pc = "read" /\ ~calling /\ stack # << >>
  /\ UNCHANGED <<pc, writer, consumer, end, written, items>>

Behind == Last(stack).from + Last(stack).size

(* lv2_osc_reader_item_next                                                *)
NextItem ==
  LET n == Len(stack) IN
  /\ Iterates /\ HasItem(Behind, Last(stack).to)
  /\ stack' = [stack EXCEPT ![n].from = Behind + 1, ![n].size = Word(Behind)]
  /\ calling' = TRUE
  /\ UNCHANGED events

(* Faulty: lv2_osc_forge_pop is left out.                                  *)
LeaveUnpopped ==
  /\ Iterates /\ ~HasItem(Behind, Last(stack).to)
  /\ stack' = Front(stack)
  /\ UNCHANGED <<calling, events>>

Leave ==
  /\ Iterates /\ ~HasItem(Behind, Last(stack).to)
  /\ stack' = Front(stack)
  /\ events' = Append(events, [is |-> "leave"])
  /\ UNCHANGED calling

Done ==
  /\ pc = "read" /\ ~calling /\ stack = << >>
  /\ pc' = "done"
  /\ UNCHANGED <<writer, consumer, end, stack, calling, written, items, events>>

Read ==
  \/ EnterBundle \/ SkipBundle \/ HandleMessage \/ NullMessage \/ NothingThere
  \/ NextItem \/ Leave \/ Done
-----------------------------------------------------------------------------
Init ==
  /\ pc = "write" /\ writer = Empty /\ consumer = "app" /\ end = 0
  /\ stack = << >> /\ calling = TRUE
  /\ written = << >> /\ items = << >> /\ events = << >>

Next ==
  \/ \E timetag \in Timetags : PushBundle(timetag)
  \/ \E message \in Messages : AddMessage(message)
  \/ PushItem \/ PopItem \/ PopBundle
  \/ Transmit
  \/ Read

Spec == Init /\ [][Next]_vars

-----------------------------------------------------------------------------
(* Properties *)

Ended == {"done", "refused", "crashed"}

TypeOK ==
  /\ pc \in {"write", "failed", "read"} \cup Ended
  /\ consumer \in {"app", "forge"}
  /\ Len(buf) < Room
  /\ end \in 0..Len(buf)
  /\ Len(stack) <= MaxDepth
  /\ calling \in BOOLEAN
  /\ \A k \in 1..Len(items) : items[k] <= Len(buf)

Bundled == Word(0) = Bundle

(* A message is whole when the outermost item it lies in is.               *)
Whole(m) == \E k \in 1..Len(items) : m.at < items[k] /\ items[k] <= end
Gives(m, n) ==
  [is |-> "message", timetag |-> m.timetag, path |-> m.message.path,
   args |-> [k \in 1..n |-> [type |-> m.message.args[k].type,
                             words |-> Argument(m.message.args[k])]]]
AllOf(m) == Gives(m, Len(m.message.args))

(* The members of s at the places in K (SelectSeq, in a form that can be   *)
(* proved about)                                                           *)
Those(s, K) == FlattenSeq([k \in DOMAIN s |-> IF k \in K THEN <<s[k]>> ELSE << >>])
Handled == Those(events, {k \in DOMAIN events : events[k].is = "message"})

(* Of a bundle, however deep, what was complete is read, once, in order    *)
(* and under the timetag of the bundle around it, whatever was begun and   *)
(* dropped when it was written; of what a cut made incomplete, nothing is. *)
BundlesSurvive ==
  pc \in Ended /\ Bundled =>
    LET whole == Those(written, {k \in DOMAIN written : Whole(written[k])})
    IN  Handled = [k \in DOMAIN whole |-> AllOf(whole[k])]

(* Of a message on its own the arguments before the cut are read, provided *)
(* that the first of them is whole.                                        *)
ArgumentsEnd(m, n) ==
  Len(Head2(m)) + Len(FlattenSeq([k \in 1..n |-> Argument(m.args[k])]))

LoneMessageSurvives ==
  pc \in Ended /\ ~Bundled =>
    LET m == written[1]
        whole == {n \in 0..Len(m.message.args) : ArgumentsEnd(m.message, n) <= end}
        some == whole # {} /\ (whole # {0} \/ Len(m.message.args) = 0)
        most == CHOOSE n \in whole : \A j \in whole : j <= n
    IN  Handled = IF some THEN <<Gives(m, most)>> ELSE << >>

(* Nothing that arrived whole is lost, doubled, moved or made up.          *)
WholeIsRead == BundlesSurvive /\ LoneMessageSurvives

(* The program is only brought down by a message that is cut within what   *)
(* arg_begin reads and that is in no bundle, or by memory that it never    *)
(* received.                                                               *)
CrashesOnLoneMessages ==
  pc = "crashed" => consumer = "app" /\ Handled = << >> /\ (Bundled => end = 0)

(* The writer stays inside its buffer, and no bundle's reader goes behind  *)
(* its own end, nor that of the one around it, nor behind what has arrived.*)
(* Only of a packet that was cut, and that is a message on its own or of   *)
(* less than two words, is anything looked at that lies behind.            *)
StaysInside ==
  /\ TypeOK
  /\ pc = "read" /\ calling /\ LooksBehind =>
       stack = << >> /\ end < Len(buf) /\ (Bundled => end < 2)
  /\ \A k \in 1..Len(stack) :
       /\ stack[k].from + stack[k].size <= stack[k].to
       /\ stack[k].to <= IF k = 1 THEN end ELSE stack[k - 1].from + stack[k - 1].size

(* lv2_osc_writer_packet: the tree that forge.h built, written again       *)
Open(w) == IF w.refs = << >> THEN w ELSE push_item(w)
Close(w) == IF w.refs = << >> THEN w ELSE pop_item(w)

WriteAgain(w, e) ==
  CASE e.is = "enter" -> push_bundle(Open(w), e.timetag)
    [] e.is = "leave" -> Close(pop_bundle(w))
    [] e.is = "message" ->
         Close(Add(Open(w), String(e.path) \o Format(e.args)
                              \o FlattenSeq([k \in DOMAIN e.args |-> e.args[k].words])))

Rewrite ==
  LET after[k \in 0..Len(events)] ==
        IF k = 0 THEN Empty ELSE WriteAgain(after[k - 1], events[k])
  IN  after[Len(events)]

(* What forge.h makes of a packet, lv2_osc_writer_packet turns into the    *)
(* same packet again; of a bundle that was cut, into what had arrived      *)
(* whole.                                                                  *)
ForgedIsWritten ==
  consumer = "forge" /\ pc = "done" /\ (Bundled \/ end = Len(buf)) =>
    LET whole == {0} \cup {items[k] : k \in {j \in 1..Len(items) : items[j] <= end}}
        upto == IF Bundled THEN CHOOSE n \in whole : \A j \in whole : j <= n ELSE end
    IN  Rewrite.ok /\ Rewrite.buf = SubSeq(buf, 1, upto)

=============================================================================
