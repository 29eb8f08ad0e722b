# osc2ftdidmx in TLA+

osc2ftdidmx receives Open Sound Control messages over UDP, TCP or a serial line
and keeps 512 DMX channels up to date on a line driven by an FTDI chip. These
modules describe how it does that, TLC checks them on small instances, and
TLAPS proves what TLC checks about the ring buffer, where the two threads meet,
about the life of what they share, about the way of a message from the socket
through the ring and the list to its execution, about what an executed message
sets, about the descriptors of a stream, about finding packets in its bytes, and
about the sizes in a packet, from its writer to its reader.

## 1. The system

Two threads and a signal handler share one `app_t`:

    network / serial                    beat thread, once per frame
         |                                       |
    main: lv2_osc_stream_pollin                  |
         |  write_req, recv, write_adv           |  read_request, read_advance
         +-----------> ring rx (varchunk) -------+--> _handle_osc_packet
                                                 |      now:   _handle_osc_message
         <----------- ring tx (never written)    |      later: app->list
                                                 |    what is due on app->list
    _sig: reconnect = false, done = true         |    slots -> dmx.data
                                                 |    _ftdi_xmit -> the line

| component | source | state | operations | hard behaviour | what makes it correct |
|---|---|---|---|---|---|
| ring | `varchunk/varchunk.h` | `head`, `tail` (atomics), the array, the producer's `rsvd` and `gapd` | request, fill, advance; request, advance | two threads without a lock; gaps at the end of the array; full against empty | it is a queue of whole chunks; writes stay out of what is unread; space comes back |
| lifecycle | `main.c`: `main`, `_loop`, `_sig`, `_osc_*`, `_ftdi_*`, `_thread_*` | `done`, `reconnect`, rings, stream, device, thread | start, failure of each call, poll, stop, reconnect | signals anywhere; a failed frame against a start; partial failure | only live resources are used, all are given back, stops stop, `-A` goes on |
| messages | `osc2ftdidmx.c`, `reader.h` (dispatcher), `_handle_osc_message` | 512 slots of 32 priorities; the cursor `cur_channel`, `cur_value`, `cur_set`, `cur_arg` | `_channel`, `_priority`, filling the frame | a cursor that lives across callbacks; fewer or more arguments than slots addressed | the walk amounts to what the README says of a message |
| scheduler | `main.c`: `_handle_osc_packet`, `_sched_append`, `_beat` | `app->list`, the beat timestamp | execute now, insert, execute what is due, free | order of the list, head-of-line blocking, lost memory | once, not before its second, in order, at last |
| OSC stream, connections | `osc.lv2/stream.h` | `sock`, `fd`, `connected` | init, reinit, deinit, accept, connect, disconnect | every call can fail; one client after another; reconnection | no descriptor leaks; clients reconnect, servers go on |
| OSC stream, packets | `osc.lv2/stream.h` | `rx_buf`, `rx_off`; the peer | receive over UDP, TCP (SLIP or length prefix), serial | partial reads, a full ring, disconnection in a packet | packets that arrive whole are handed on whole, once, in order |
| OSC reader | `osc.lv2/reader.h`, `util.h` | a pointer into a packet and the ends of the bundles around it | bundles, messages, arguments, pattern matching | packets cut anywhere, bundles in bundles | stays inside the items of a bundle; what is whole is read, once, in order |
| writer, forge | `osc.lv2/writer.h`, `forge.h` | a buffer, open bundles and items | pushing, adding, popping; turning a packet into atoms and back | empty bundles and items that are undone, a full buffer | what is written is read; packet to atoms to packet changes nothing |

Nobody writes to `tx`; nothing but the beat thread touches `app->list`, the
slots and the frame. So all that the threads share is the ring, the two flags
and the lifetime of the resources, and these are modelled first. What the rest
of the world shares with the program are its sockets.

## 2. The modules

| module | models | abstract counterpart |
|---|---|---|
| `Varchunk` | `varchunk.h`, as the receiver and the beat thread call it | `Fifo` |
| `VarchunkInv` | the inductive invariant of `Varchunk` | |
| `VarchunkProofs` | its theorems | |
| `Lifecycle` | `main.c` without the frame's work | |
| `LifecycleProofs` | its inductive invariant and theorems | |
| `Dmx` | `osc2ftdidmx.c`, the tree dispatcher, the frame | `Desk` |
| `DmxProofs` | its inductive invariant and theorems | |
| `Sched` | bundles, timetags and `app->list` | |
| `SchedProofs` | its theorems | |
| `Bridge` | UDP's receiving loop, the ring and the beat's draining loop, on top of `Sched` | `Line` |
| `BridgeProofs` | its theorems | |
| `Connection` | a stream's descriptors, from init to deinit, and its inductive invariant | |
| `ConnectionProofs` | its theorems | |
| `SlipFormat`, `PrefixFormat` | the two framings: the SLIP codec, the length prefix | |
| `SlipStream` | receiving SLIP over TCP or a serial line | `Line` |
| `PrefixStream` | receiving length-prefixed packets over TCP | |
| `Sending` | sending over UDP, TCP and serial lines, in either framing | |
| `FramingProofs` | the theorems about these three, with their inductive invariants | |
| `Packet` | `writer.h`, `reader.h`, `forge.h`: a packet from buffer to messages | |
| `PacketProofs` | what a sound packet is, the three inductive invariants and the theorems | |
| `MCVarchunk`, `MCDmx`, `MCBridge`, `MCSlip`, `MCPrefix`, `MCFraming`, `MCPacket` | instances for TLC | |

`Bridge` EXTENDS `Sched`: each of its steps is a step of `Sched` with what it
does to the queue and the ring, or leaves `Sched` alone. `MCFraming` puts
`SlipStream`, `PrefixStream` and `Sending` side by side: a stream is, from its
initial state on, one of the three.

**Varchunk.** `head`, `tail`, `rsvd` and `gapd` are the fields of `varchunk_t`;
`mem` is the array in cells of eight bytes, each with the header fields or the
body it holds. One action is what happens between two accesses to the shared
atomics: `WriteRequest` (loads `tail`, all five outcomes), `Write` (the caller
fills the body), `WriteHeader` (the plain writes of
`varchunk_write_advance`), `Publish` (its store of `head`), `ReadRequest`
(loads `head`), `SkipGap` (stores `tail`), `ReadChunk`, `ReadAdvance`. `main.c`
creates its rings with acquire and release, so the plain writes are not
reordered across these. `chunks`, `got` and `base` are history; in the
program's terms they are every chunk ever written, how many have been read, and
how often `tail` has wrapped. Body bytes read as a header look like a gap or
like a chunk of an absurd size, so a reader that goes astray is seen to.
`Abandon` is a receiver that got nothing.

**Lifecycle.** `pc` and `beat` are the two threads' places. Every call that can
fail has both outcomes; the nine calls of `_ftdi_init` fall into three steps by
the label they fail to. `rx` and `tx` are pointers: null, live, or stale, for
`_osc_deinit` does not reset them. `handler` holds each thread up while `_sig`
runs on it. `SIGKILL`, for which no handler can be installed, is left out, and
so is the crash that ends any program.

**Dmx.** A message is what its patterns match (a set of channels and one of
priorities), how deep its path goes, and its arguments. One action is one node
of the tree. The two loops over `tree_channel` and `tree_priority` are `chan`
and `prio`; `Channel` and `Priority` are the callbacks. `Desk` says the same of
a message as a whole: the addressed slots, in channel-major order, take one
argument each, and the last integer goes to those that remain; a slot without
an integer up to it is cleared. `pending` is the message that has arrived at the
desk, in the program `msg`: what takes effect (`Apply`), before another one
arrives or a frame is made, is that message.

**Sched.** A packet is the sequence of the timetags of its messages. Time is
counted in frames. `Seconds` and `Nanoseconds` are the two conversions of
`_handle_osc_packet`: the first loses the fraction and the second,
`(timetag && 32) * 0x1p-32 * 1e9`, is less than one for every timetag, so
`_sched_append`, which asks for both fields to be greater, never inserts before
an element. `Later` is translated as it is written; that the list is in order of
arrival follows. The year 2036, in which NTP seconds wrap, is not modelled: a
timetag is past or within the horizon.

**Bridge.** `queue` is the socket's queue, `ring` the chunks in `rx`, `holding`
says that the beat thread has asked for the oldest chunk and not yet advanced,
`osc` where the main thread is. `Recv`, `RecvNothing`, `QueueEmpty` and
`Refused` are the four ways through the body of `_lv2_osc_stream_run_udp`'s
receiving loop; the ring may refuse whenever it is not empty, which is all that
`EmptyGrants` of `Varchunk` allows one to rely on. An empty datagram ends the
loop as "peer has shut down" (`stream.h:847`). What a datagram holds is decided
when the beat thread reads it. `StopAll` is the end of `_loop`, which frees the
ring and closes the socket, and the next one. `sent`, `empty`, `read`, `cut` and
`published` are history. The other senders are replaced by UDP's, for they use
the ring in the same way.

**Connection.** `sock`, `fd` and `connected` are the stream's fields; `kernel`
is what each descriptor is to the system, so that a leak, or the use of a
closed descriptor, shows. The steps of `_lv2_osc_stream_reinit` are actions of
their own, for each can fail, whether `lv2_osc_stream_init` called it or
`lv2_osc_stream_run`. `Connects` has every result of `connect` on a socket that
does not block, as Linux gives them. The environment refuses, completes and ends
connections; `calm` says that calls that need nobody else succeed.

**SlipStream.** Bytes are `END`, `ESC`, their replacements, and others. `Encode`
and `Decode` say what the two inline functions leave in the buffer, for
`Decode` also when it finds no end: what it wrote until then lies over the
beginning of its input (`Overwritten`). `rx` is `rx_buf` from `ptr` on, and
what was left over between two runs; `wire` is what has been sent and not
read, and a read takes any part of it that fits. A TCP server and a serial line
differ in connections only. `hurt` is history: the packets that were cut by a
read or by a disconnection, that the ring refused, or that lay behind a refused
one. So is `spoiled`: the packets that nothing cut, but that are the first of a
client while `rx_buf` still holds what an earlier one left (`rx_off` is not reset,
`stream.h:1047`). `Line` says what framing is for: packets come out as they went
in, each at most once, in order.

**PrefixStream.** A byte is known by its packet and its place; a length is four
bytes. Each `recv` is an action, since more can arrive in between. The length is
received into a local variable (`stream.h:1110`): if only a part of it comes, that is
lost, and as many bytes as it had are published of what the ring's memory held
before (`stream.h:1136`), which `ReadPartOfPrefix` calls `Stale`. Four bytes
that are not the length of a packet are any number up to `MaxPrefix`. `cut` is
history: has a packet ever arrived in part. The serial line cannot be used
with lengths: its prefix selects SLIP.

**Sending.** The program puts nothing into `tx`, but `lv2_osc_stream_run` sends
what is in it. `put` and `next` are the ring, `wire` what the link has taken;
`hurt` and `sent` are history. A chunk that was sent in part stays in the ring
and is sent from its beginning again, behind its own part (`SendPart`). The
peer is `PeerDecodes`: what a decoder of the framing makes of the bytes.

**Packet.** All lengths in a packet are multiples of four bytes, so it is a
sequence of words, each known by what it is a part of; sizes and the lengths of
blobs are numbers in it. `writer` is the buffer up to `ptr`, the positions of
the open frames, and whether everything fitted; calls are the operators
`push_*`, `Add` and `pop_*`, and the actions call them as the functions may be
called: items in bundles, one message or bundle in an item. `Transmit` delivers
the packet up to any word to main.c or to the forge. `stack` is what the
recursion of `_handle_osc_packet` and `lv2_osc_forge_packet` keeps: for each
bundle the item it is at and the end of its reader. `events` are the messages
handled and the bundles entered and left, which are the atoms that the forge
makes; `Rewrite` is `lv2_osc_writer_packet` on these. Sizes and numbers are read
where `lv2_osc_reader_overflow` allows it. Strings are not: `strlen` looks for their
end first (`reader.h:192`), be it behind what arrived, and `is_bundle` compares eight
bytes without asking for the size (`reader.h:569`). `StringEnd` and `ArgumentEnd` say
how far is looked, `ScansBehind` whether that is behind the end in a message,
`LooksBehind` in whatever is read next. What is found there does not matter, since a
string that does not end before the end overflows wherever it ends; except where
nothing was received (`NothingThere`).

Definitions marked *Faulty* are variants of the definition after them with a
plausible mistake. Nothing uses them; each of them, put in the place of the
definition, breaks a property named in `PROJECT.json`, which shows what the
property is sensitive to.

## 3. What TLC checks

| run | instance | result |
|---|---|---|
| `ring` | 64 bytes, bodies of 0, 7, 9 and 24 bytes, five chunks | 65 487 states, all properties hold |
| `ring_maximum` | the same, the caller fills `*maximum` | `NoOverlap` is violated |
| `lifecycle` | `-A`, two signals, any call fails at any time | 2 859 states, all properties hold |
| `lifecycle_reconnect` | `-A`, no signal | `GoesOn` is violated |
| `dmx` | two channels, two priorities, every set of them, seven argument lists | 378 864 states, all properties hold |
| `bridge` | two frames to the second, three datagrams, three messages, one stop, a queue of one, a ring of two | 405 685 states, all properties hold |
| `connection` | three kinds of stream, server and client, two waiting clients | 1 112 states, all properties hold |
| `framing` | SLIP: three packets, two clients or a serial line, `rx_buf` of 10 bytes, a ring of one; lengths: two packets, cut anywhere, a ring of one; sending: four chunks, two links, two sends cut short | 58 276 states, all properties hold |
| `packet` | three messages of three kinds, bundles two deep, a buffer of 26 words, every cut | 81 700 states, all properties hold |
| `slip_split` | SLIP alone, a ring of three | `RemainderIsKept` is violated |
| `slip_shutdown` | the same, `rx_buf` of 4 bytes | `OrderlyShutdown` is violated |
| `prefix_split` | lengths alone | `NeverAborts` is violated |

*Ring.* Eight cells are enough for each of the five outcomes of a request, and
five chunks take both offsets round the array more than once. `RingIsFifo` is
the refinement: what the consumer is handed are the published chunks, whole,
once, in order, and unchanged while it looks at them. `EmptyGrants` says which
requests the receiver may rely on; it is stated for half of the ring because
more is not true: an empty ring whose `head` stands in the middle can refuse,
for ever, a request that would fit a new one. `Drained` needs the beat thread to
run. `IInv` stands for `TypeOK` and `EmptyIffEqual` too, which are proved to follow
from it. TLC may stop when `MaxChunks` chunks were read, so deadlock is not
checked.

*Lifecycle.* Two signals are enough to have one on each thread or one after the
other. `ReleasesOnce` states exactly the two releases of something not held that
the code can make: `tx` once more, when a later `_loop` cannot allocate `rx`,
and descriptor 0, when the first `_loop` cannot allocate a ring. The program
exits by itself, so deadlock is not checked.

*Dmx.* Two channels by two priorities with up to three arguments have fewer, as
many and more arguments than slots addressed; messages follow one another, so a
cursor that is not reset is seen. `DoesWhatTheReadmeSays` is the refinement of
`Desk`: at the end of the walk the slots are what the message that was received
makes of them, and not what some other message would. `NothingAhead` says what they
are before that, and that the arguments consumed are as many as the pairs
`_priority` was called for, or all of them.

*Bridge.* Three messages are enough for one that is due behind one that is not,
behind another. The clock stops at the horizon, when every timetag has come. The
queue overflows with two datagrams and the ring refuses with two chunks, so that
a datagram waits in the queue for a later call, and others are lost before.
`QueuedIsHandled` excepts what was sent before a stop and empty datagrams;
`SameFrame` says that what was in the ring when a frame began is dealt with in
that frame. `FramesGoOn` is true because the senders pause: `MaxDatagrams` bounds
them. `InItsPlace` has two parts, `InItsSecond` and `KeepsOrder`. A sender that fills the ring as fast as it is drained holds the frame up
for as long, in the program as well, which bounds neither loop.

*Connection.* Three descriptors are one more than a stream may hold, so that one
that leaks is seen. `Reconnects` and `ServesNext` only promise something to a
stream that is not shut down and whose calls succeed from some time on.
`OwnsDescriptors` promises without that. `TypeOK` and `ConnectedIsSo` are proved to
follow from `IInv`, which this run checks.

*Framing, SLIP.* One packet holds an `END` in the middle and an `ESC` at the end, the
others need no escape; two clients are enough for one that leaves half a packet to
the next. `InOrder` has two parts. Whatever is cut, of the packets that were sent
each gets to the ring at most once, whole, and in order: the refinement of `Line`.
And something that was not sent gets there as well (see `slip_split` below), but
only what is left of a packet that was cut and holds an `END`, perhaps joined with
the next client's first packet (`InventedFromHurt`); the run has such packets.
`UnhurtArrive` says that packets that were not cut, refused or behind a refused one
arrive, but for `spoiled` ones, the first of a client behind what another left: they
may arrive, and may be lost, or altered, with nothing cut. `RoundTrips` has every packet of up to two bytes, `END`s included, before
every content of `rx_buf` that is reached. `UnhurtArrive` also excepts a serial line
whose `rx_buf` is full: `read` is then asked for nothing, and nothing is decoded
ever after. `StuckWhenRefused` says that it never gets there but by a packet that
the ring refused. Everything may have been sent, so deadlock is not checked.

*Framing, lengths.* `PrefixedInOrder` says that packets that arrive whole are handed
on whole and in order (`WholeInOrder`); that however they are cut no byte is received
into the ring twice or too late (`BytesInOrder`); and that what is published was
received, all of it, or, where a length came in parts, is less than four bytes of old
memory, which may be anything that was in the ring before (`ReceivedOrStale`). Both packets are shorter than a length, so that a part of
one, a length, and a length made of two packets all occur. Packets are no longer
than what the ring grants; that a longer one is not received as far as it fits is
what `//FIXME check prefix <= max_len` (`stream.h:1113`) notes.

*Framing, sending.* The chunks hold an escape, an end, and more than `tx_buf` has
room for. Two parts are enough for one chunk to be cut twice, or two chunks once,
two links for one that is lost with a chunk on the way. `UnhurtIsDelivered`
promises nothing to a peer that reads lengths once a chunk was cut: it has no way
to find the next one. With SLIP it may get, besides the others, packets that
begin as one that was cut. `ChunksAssumption` says that what fits `tx_buf`
does so when it is encoded, which the code does not check (`stream.h:958`) and
the size of the program's rings guarantees; and that no byte begins two chunks, so
that the property can tell what was found apart by its first byte.

*Packet.* The three kinds of message have no argument, arguments of one, two and
no words, a string whose length is a multiple of four and a blob whose length is
not. Two or three messages, in bundles two deep, fit the buffer; the longer ones
fill it. `BundlesSurvive` and `LoneMessageSurvives`, the two parts of
`WholeIsRead`, say exactly what is read of a
packet that is cut: of a bundle the items that are whole, of a single message the
arguments that are. `StaysInside` says that no bundle's reader goes behind its item,
nor looks there, and that behind what arrived something is looked at only if the
packet was cut and is a message on its own, or is less than two words. `CrashesOnLoneMessages` says of `lv2_osc_reader_match`, which
does not ask whether there is a message, when that matters. A packet ends, so
deadlock is not checked. `ForgedIsWritten` is what
`osc.lv2/test/osc_test.c:280-324` asserts of its examples.

### Fairness

The ring's consumer is weakly fair because the beat thread drains the ring once
per frame; the producer is not. In `Lifecycle` both threads are weakly fair
(`poll` returns after a second, the sleep ends), and so is a handler that was
entered; no outcome of a call is fair, nor any signal. In `Bridge` the main
thread's loop and the beat thread are weakly fair (`poll` returns when there is
a datagram), arrivals and stops are not. In `Sending` the links are: somebody to
send to appears, as often as `MaxLinks` allows, and takes something at last;
being cut short or in error is not fair. `Connection`, `SlipStream` and
`PrefixStream` are fair to `lv2_osc_stream_run`, which main calls at least once a second, to the beat thread and to the network once something was sent;
nobody has to send, connect, or leave.

### What disagrees with the documentation

* `ring_maximum`: `*maximum`, the "size of writable buffer"
  (`varchunk.h:180`), counts the chunk's header, the pointer returned is behind
  it. A caller that uses all of it runs over the end of the array or into
  unread data. The UDP receiver passes it to `recvfrom`.
* `slip_split`: `lv2_osc_slip_decode_inline` overwrites its input even if it
  returns that the packet is incomplete. The packet that is then completed has
  lost its leading `END` and is skipped, in spite of the "remaining chunk for
  next call" (`stream.h:1088`). If its first part held an escaped `END`, that
  has become a bare one, and the rest may pass for another packet. A serial
  line, where reads do not wait, splits most packets.
* `slip_shutdown`: a full `rx_buf` makes `recv` return 0, which is taken for an
  "orderly shutdown" (`stream.h:1047`); since `rx_off` is not reset, the next
  clients fare the same.
* `prefix_split`: the body's `recv` is not checked (`stream.h:1114`); if only the
  length has arrived, -1 is published, and `varchunk_write_advance` "fails
  miserably" (`varchunk.h:266`).
* `lifecycle_reconnect`: `main.c:550` resets `done` after the beat thread was
  created. If its first frame fails before that, main polls for ever without
  it; the manual says that `-A` reconnects.

## 4. What is proved

`VarchunkProofs` proves of `Varchunk`, for every size of the ring that is a
multiple of eight, every set of request sizes and any number of chunks, under
the assumption `~UseMaximum` (callers write no more than they asked for, which
by `ring_maximum` they must not):

* `InductiveInvariant`: `Spec => []IInv`;
* `TypeCorrect`, `WritesAreDisjoint`, `EmptyIsEmpty`: `TypeOK`, `NoOverlap` and
  `EmptyIffEqual` always hold;
* `EmptyRingGrants`: `Spec => EmptyGrants`;
* `RingImplementsFifo`: `Spec => RingIsFifo`.

`NoOverlap` is not inductive by itself: that what is reserved is free follows
from where `head` and `tail` are, and where they are from how the unread chunks
lie. `IInv` says that the unread chunks form a chain of absolute addresses from
`tail` to `head`, gaps included, less than a lap long (`Chain`); that each is in
the array as it was published (`Stored`, `Memory`); that a reservation is free
space that fits what was asked for (`Reservation`, `Writing`); and that the
consumer's local view is still true (`Reading`). The proof turns offsets into
absolute addresses (`PosFacts`, `Advance`), shows once that free and occupied
cells are disjoint (`FreeCells`, `OccupiedCells`, `DisjointCells`) and that
what is unread therefore survives every write of the producer (`UnreadKept`),
and then takes one lemma per action. Under `IInv` every step of the ring is a step
of `Fifo` or a stutter: publishing puts a chunk, looking at one takes it, and what
lies in between is seen by neither end. Only the assumptions of `Varchunk` on its
constants are used.

`ConnectionProofs` proves of `Connection`, for every set of descriptors and any
bound on the clients that wait:

* `ConnectionInvariant`: `Spec => []IInv`;
* `ConnectionTyped`, `NoLeak`, `ConnectedHolds`: `TypeOK`, `OwnsDescriptors` and
  `ConnectedIsSo` always hold.

`accept` overwrites `fd` without a leak because `connected` is true whenever
`fd` is a descriptor, and `accept` is called only when it is not;
that setting up again overwrites no `sock` rests on the places at which there
is none. `Places`, `Roles` and `Connections` say so; there is one lemma for each
action, and `ConnectsIInv` serves both calls of `connect`. No fairness and
nothing about the order of failures is assumed.

`LifecycleProofs` proves of `Lifecycle`, with and without `-A` and for any number of
signals:

* `LifecycleInvariant`: `Spec => []IInv`, and `LifecycleTyped`: `TypeOK`;
* `OnlyLiveResources`, `NothingIsKept`, `OnlySignalsEnd`, `OnlyEarlyEndsAreMissed`:
  `UsesWhatIsThere`, `ReleasesAll`, `KeepsTrying` and `BeatIsThere` always hold;
* `NothingIsReleasedTwice`: `Spec => ReleasesOnce`.

`UsesWhatIsThere` speaks of the beat thread, which says nothing of what main does in
the meantime. `IInv` ties all to main's place: what is held there (`OscHeld`,
`FtdiHeld`), where there is a beat thread at all (`TypeOK`), which pointers an
earlier `_loop` may have left stale, that a handler, and so a `reconnect` that was
reset, comes with a signal (`OnlySignals`), and that a beat thread that ended
before `done` was reset is on record (`EndedEarly`).

`SchedProofs` proves of `Sched`, for every frame rate, all packets and any number of
messages:

* `AppendsAlways`: `_sched_append` appends, whatever it is given;
* `SchedInvariant`: `Spec => []IInv`;
* `ExecutedInPlace`, `HeldUpOnlyByEarlier`: `InItsPlace` and `Prompt` always hold.

`IInv` says where every message is (`Accounted`: executed, given up, or listed) and
that the list is in order of arrival (`Arrival`), due at the whole seconds of what
was received (`Scheduled`). That whatever is executed is the oldest of its timetag
follows from the first two; that nothing else holds a message up also needs that
the loop over the list ends where its head is not due (`Settled`).

`BridgeProofs` proves of `Bridge`, for any sizes of the queue and the ring:

* `ImplementsSched`: `BridgeSpec => Spec`, and so, in
  `ExecutedInPlaceBehindTheRing`, `InItsPlace` and `Prompt`;
* `BridgeInvariant`: `BridgeSpec => []PathInv`, and `BridgeTyped`: `BridgeTypeOK`;
* `DrainedInTheFrame`: `SameFrame`; `ReadInOrder`: `BridgeSpec => DatagramsInOrder`,
  which is the refinement of `Line`.

`PathInv` says that from what was read last, over the ring, to the queue datagrams
are ever younger, the one that the beat thread still holds excepted, which has been
read already (`InOrder`), and where those that came before the frame are
(`Younger`). In `Bridge` the ring is a queue of chunks; that `varchunk.h` is one is
`RingImplementsFifo`.

`DmxProofs` proves of `Dmx`, for any number of channels and priorities and any set
of messages:

* `TypeCorrect`: `TypeOK`; `NothingChangesAhead`: `NothingAhead`;
* `SlotsImplementDesk`: `Spec => DoesWhatTheReadmeSays`: it is the message received
  that takes effect, as a whole, before the next is received.

The desk looks at a message as a whole, the program at one node after the other. So
`IInv` says that the callbacks' channel is the walk's (`Walk`), that what the walk
has not come to is as it was (`Untouched`), and what the cursors hold in terms of
the pairs visited (`Dealing`): as many arguments are used up as pairs were visited,
`cur_value` is the last integer among these, and each visited pair has what the
desk deals to its rank. `OneMoreSeen` counts: the rank of the pair that is visited
next is the number of those visited before. The last node makes the pairs visited
the pairs addressed (`AllSeen`), which is the desk's `Apply` of the message pending
there, the one `Receive` took; every other step of the walk is a stutter of the desk. `FillShows` is the frame: the highest bit of the mask
selects the value that the desk shows.

`FramingProofs` proves of `MCFraming`:

* `DecodingUndoesEncoding`: whatever lies behind it in the buffer,
  `lv2_osc_slip_decode_inline` makes of an encoded packet that packet, for every
  nonempty sequence of integers and any codes with `END` and `ESC`, and their
  replacements, different; `SlipRoundTrips`: `RoundTrips`, for the packets that TLC
  tries;
* `SlipTypeCorrect`: `MCSpec => []SlipInv`, for any packets and any size of
  `rx_buf`: it is never filled beyond its size, though it is decoded in place;
* `PrefixKeepsOrder`: `PrefixedInOrder`, for packets of any lengths, any bound on
  garbled ones and a ring of any size;
* `FramingTypeCorrect`: `FramingTypeOK`;
* `UnhurtChunksArrive`: `UnhurtIsDelivered`, for any chunks and any `tx_buf`, however
  often a send is cut short and however many connections there are: the chunks that
  were sent in one go get to the peers as they were, in order, each once, and whatever
  else a SLIP decoder finds begins as a chunk that was sent in parts.

Packets are encoded and decoded byte by byte into a sequence that is put together
from pieces (`FlattenSeq`), which is a recursive function over their number, and
whether a byte is escaped is one over the buffer. `AllOfNat` is induction, from the
well-foundedness of the numbers: the library's theorems of induction cannot be
instantiated here. `FlattenAppend` and `EscapedIs` then say what is added by one
more piece or byte. `Undone` is what holds after the part of a packet that has been
looked at: so much is used up, nothing is escaped, so much is written;
`UndoneNext` is one byte more, in three cases.

`PrefixedInOrder` needs to know what can follow on the wire. `Remainder` says that
the wire holds the end of the line: from some byte on everything that was sent,
each byte behind the one before it; `Ordered`, that the bytes published that were
received at all were sent before that, in the order they are in; `GenuineOrLost`, that
a chunk was received as a whole or is what a cut length leaves; and `Synced`, that as long as no packet has
arrived in part, exactly the packets so far were published and the next byte is the
first of a packet or, once its length was read, of its body. `PrefixInv` is all of
these.

`UnhurtIsDelivered` is about what a peer finds on a whole line: a recursive function
that goes from packet to packet. `Walk` is such a function for any rule of where to
go on; there always is one (`WalkExists`), and two agree if from some place on they
go alike (`WalkAgrees`), so that what is found behind the first packet is what is
found without it (`SlipPacketsNext`). That still looks at the line from its
beginning, and chunks are put at its end. So `Reads` says how far the decoder is that
has read the line up to now: what it has found, and of what it is in the middle of, a
packet or something it will skip, the bytes so far and whether it is behind an `ESC`;
and that whatever follows, this and what follows are found. One byte more is
`ReadsOther`, `ReadsBegin` or `ReadsEnd`; `ReadsStuff` is a chunk, `ReadsWhole` one
between its two `END`s and `ReadsPart` a part of one. A part leaves the decoder in
the middle of something that begins as that chunk, and the next `END` may make a
packet of it. `Frames` is the same for lengths, as long as nothing was sent in part.

`Told` then compares what the peers found, those before this one too, with what was
sent, both without the chunks that were sent in parts; `ToldMore`, `ToldHurt`,
`ToldAgain` and `ToldSent` are a packet more, a chunk that is sent in part, and one
that is sent whole after that or in one go. `SendInv` is inductive since the decoder
can be in the middle of something only if the chunk to be sent next was sent in part
before, and such a chunk is never too long: so it is not passed over but sent again,
and its first `END` closes what was left open.

`PacketProofs` proves of `Packet`, for any messages and timetags, any size of the
buffer and any depth of bundles, and wherever the packet is cut:

* `SentIsSound`: what `Transmit` hands on is `Sound` from beginning to end;
* `ReaderStaysInside`: `StaysInside` always holds, so that what the reader looks at
  before it tests for overflow is inside of every bundle, and behind what arrived only
  for a cut message on its own or a packet of less than two words;
* `WrittenIsRead`: `WholeIsRead` always holds: of a bundle every message in the items
  that arrived whole is handed on, once, in order and under its own bundle's timetag,
  and nothing else; of a message on its own, the arguments that arrived;
* `BundlesNeverCrash`: `CrashesOnLoneMessages` always holds;
* `ForgedIsWrittenAgain`: `ForgedIsWritten` always holds: what
  `lv2_osc_forge_packet` makes of a packet, `lv2_osc_writer_packet` writes as the
  same packet, or as what of it had arrived whole.

Three invariants carry these, each resting on those before it: `PacketInv` says what
is in the buffer, `ReadInv` what was handed on of it, `ForgeInv` what was written
again. TLC checked each of them on `MCPacket`'s instance before it was proved.

A packet nests, and nothing can be proved here of a recursive definition. `Sound` is
therefore the largest set that is consistent with itself: a span of words is sound
if it belongs to some `Closed` set of spans, in which a bundle comes with the items
in it, and items come with the first of them, whose size is in the word before it,
and with those behind it. A span also knows how deep its bundles may be, the timetag
of the bundle around it, and which of the messages that were written begin in it: a
span that is a message is one of these, under that timetag, and no other begins
inside. What is sound can be taken apart (`ItemsFacts`,
`PacketFacts`), put together (`MessageSound`, `BundleSound`, `OneMoreItem`), and
depends on nothing outside of it (`SpanKept`).

While a packet is written, `Framed` says what is open: each bundle is sound up to
the frame inside it, the innermost item is empty or a packet, and frames begin one
behind the other. Each operation of the writer keeps that, also those that find
nothing in a frame and go back to where it began (`FramedUndoItem`,
`FramedUndoBundle`); `FramedPopItem` writes a size into the word that was left for
it, which no sound span reaches yet, since frames end where the next one begins. A
message is one because its first word is no `#bundle` (`MessageFacts`). When nothing is
open, what was written is sound. `Stacked` then says of each bundle that is being
read that it ends where the item around it does, or where the packet was cut, that
the item looked at is sound, and so is what follows it, up to where it ended before
the cut: so the next size is a size, and `lv2_osc_reader_item_raw` asks whether it
stays before the cut. All of this is `PacketInv`. Of a message that is sound and whole
every string ends inside (`WholeScanned`), and only what `Transmit` has cut is not
whole (`LooksInside`).

`ReadInv` compares what was handed on with what was written. Messages are written one
behind the other, so where the reader is parts them (`Parted`): those handed on are
the first `n` of them, for some `n`, and these are the ones that begin before that
place. No message begins in a head or in a size, so entering a bundle and going on to
the next item move the place past none (`PartedOn`), and a message that is handled is
the next one, with all of its arguments (`CurrentMessage`, `WholeMessage`). The
arguments are found by `ArgumentEnds`, a recursive function; `ReadsMessage` compares
it with the ends of the arguments as they were written, one argument at a time. A bundle within
a bundle can only be left where it ends, since its last item would otherwise have a
sound size; the outermost one is always at the end of one of its items (`AtItem`,
`ItemsFollow`), and when it is left the next item is the one that was cut (`LeftAt`):
the messages before that place are those that `Whole` calls whole (`BundleRead`). Of a
message on its own there is nothing to part, and `LoneRead` says what is read of it.
`Handled` only grows when a message is handled (`HandledGrows`), so the result is kept
until the end. `main.c` is only brought down by what `ReadMessage` returns for a
message that is cut; in a bundle no message is ever cut (`NullRead`).

`ForgeInv` is about `Rewrite`, the packet as it is written again while it is read. It
is the buffer up to where the reader is, but for the sizes of the items around it,
which are still zero (`Copied`, `Holds`), and its open frames are where the reader's
bundles are (`Frames`): the frame of an item at the size in front of it, that of a
bundle at its head. So the writer that copies and the reader have the same stack, of
which `Depth` says how many frames it is, and `Upto` where it ends. Entering a bundle
opens two frames (`EnterCopied`), a message fills its item and closes it
(`HandleCopied`, with `WholeHandled`: the words that are made of the arguments handed
on are those in the buffer), and leaving a bundle closes it and the item around it,
whose size comes out as the one in the buffer since the bundle ends where the item
does (`LeaveCopied`, `CopiedPopItem`). Nothing is ever empty, so that no frame is
dropped, and nothing overflows, since the copy is no longer than the original. When
the outermost bundle is left no size is missing (`CopiedAll`), and the place is the
end of the last item that is complete (`MostComplete`). `RewriteStep` says of the
recursive `Rewrite` that one more event is one more `WriteAgain`; it and the others
over a sequence's length are inductions by `AllOfNat`, as above.

The proofs assume of the constants what the named assumptions of the modules say:
`SizesAssumption` and `MessagesAssumption` in `Dmx`, `CodesAssumption`,
`PayloadsAssumption` (no packet is empty, no two are the same) and
`BoundsAssumption` for SLIP, `LengthsAssumption`, `MaxPrefixAssumption` and
`BoundsAssumption` for lengths; for sending `ChunksAssumption` (see above; no chunk is empty), `LinksAssumption` and
`EndAssumption` (`END` is not what stands for another behind an `ESC`);
for packets `RoomAssumption` (there is a buffer) and
`MessagesAssumption` (no path is `#bundle`, and arguments are of the five kinds).
TLC evaluates each of them.

Only model-checked:

* liveness, which is out of the prover's reach: `Drained`, `Stops`,
  `EveryMessageRuns`, `QueuedIsHandled`, `FramesGoOn`, `AllArrive`, `NoticesTheEnd`,
  `EveryChunkGoes`, `Reconnects`, `ServesNext`, `UnhurtArrive`;
* of SLIP, `InOrder` and `StuckWhenRefused`. They depend on what the packets hold:
  the remains of a packet that was cut and holds `END`s may come out as another packet
  that was sent, in the wrong place, if their bytes happen to be the same; those of
  the run do not. And `StuckWhenRefused` needs an `rx_buf` that can hold the longest
  packet.

Every other invariant and action property that a passing run checks is proved.

## 5. Not modelled

The FTDI library, USB and the line; what fnmatch makes of a pattern (`Dmx` takes
the names that it matches); the accessors of `util.h` to atoms, hooks, and the
checks of paths and formats, which only tests call; MIDI arguments, whose port
the forge drops; formats of more than 127 arguments, for which
`lv2_osc_writer_packet` has no room; option parsing beyond `-A` and the parsing
of urls; thread priorities; logging. Sizes in a packet that its writer did not
write are not modelled: packets come from `writer.h`, cut anywhere, not altered.
`fps` is taken to be positive; with 0, `_beat` divides by it (`main.c:433`). That a loop waits instead of spinning (poll returns at once for a serial line
that is gone, or when a second client waits) is nothing the models tell apart,
nor is a frame that comes early because a signal interrupted the sleep
(`main.c:443` compares with -1 what is a positive error number).

## 6. Plan

1. done: ring, lifecycle, messages, scheduler, connections, framing in both
   directions, the bridge from socket to list, packets.
2. proofs: done for the ring, with the refinement of `Fifo`; for `Lifecycle`,
   `Connection`, `Sched` and `Bridge`; for `Dmx`, with the refinement of `Desk`; for
   the framings, in both directions; for packets, from
   what is written over what is read to what is written again.
3. `Dmx` composed with `Bridge`, from datagram to frame.
