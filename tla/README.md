# A TLA+ verification of spadia

spadia is a small WebRTC media relay in C++ on libuv: a publisher posts an SDP
offer to `/post` and sends RTP, players post theirs to `/play` and get that RTP
sent on. This directory models its control and its bookkeeping in TLA+, checks
the models with TLC and proves the most important results with TLAPS.

## 1. The system

| part | source | state | operations |
|---|---|---|---|
| HTTP handlers | `example/main.cpp` | `stream`, the stream of the last publisher | `/post`, `/play`, on HTTP threads |
| `Server` | `server.{h,cpp}` | `pcTable`, `port_`, `loop_` | `AddPC`, `RemovePC`, `GetPort`, `Start`; its own socket is dead code behind a `return` |
| `PeerConnection` | `peerconnection.{h,cpp}` | `socket_`, `iceTimer`, `lastRemote_`, `lastPacketRecvTimeMS_`, `localStream_`, `remoteStream_` | `AddStream`, `CreateAnswer`, `Start`, `OnSocketData`, `OnMediaData`, `sendData`, `OnIceTimer`, the destructor |
| `MediaStream` | `media_stream.{h,cpp}` | `sinks_` (weak pointers) | `AddSink`, `RemoveSink`, `OnRTP` |
| `Pool` | `pool.{h,cpp}` | four loops, each with a thread | `GetLoop`, `Async`, `async_cb`, `run` |
| `RTPSessionManager`, `RTPIncomingSession` | `rtp_session_manager.{h,cpp}` | the extension map | `OnRecvRTP`, `AddPacket`, `OnRTCP`, `SetExtension` |
| `RTPLostSession` | same | a ring of 256 `PacketInfo`, `totalLost`, `nextSeq` | `AddPacket`, `Reset` |
| `TransportCCFeedBack` | `rtcp_packet.h` | sequence number to arrival time | `InsertPacket`, `Serialize`, `Parse` |
| `RTPPacket` | `rtp_packet.{h,cpp}` | header fields, extensions, payload | `Parse`, `GetTransportCCNum`, `Serialize` (its call is commented out) |
| RTCP | `rtcp_packet.{h,cpp}` | report blocks, NTP times, feedback fields | `Serialize` of each packet, `Parse` of a compound datagram, setters and getters of a report block |
| `StunPacket` | `stun_packet.{h,cpp}` | | `IsStun`, `Parse`, `MakeResponse`, `Serialize` |
| `ByteReader`, `ByteWriter` | `byte_io.h` | | reading and writing of integers of up to four bytes, either sign and byte order |
| helpers | `crc32.h`, `tools.*` | | |
| `client.cpp`, `example/browser` | | | commented out; a test page |

How the parts interact. A handler makes a `PeerConnection` on the next of the
four loops, lets it answer the offer, puts it in `pcTable` and posts `Start`'s
task to its loop with `Pool::Async`. From then on libuv callbacks on the loop's
thread call the `PeerConnection` through a raw `this`. A publisher's
`OnSocketData` answers STUN, parses RTCP, and for RTP sends a transport-cc
feedback and calls `MediaStream::OnRTP`, which calls `OnMediaData` on every live
sink; that posts a task holding the packet to the sink's loop, where `sendData`
queues it on the sink's socket. The datagram is never copied: the buffer that
`buf_alloc` allocated on the publisher's loop is freed by `send_u` on the
player's.

What is hard here: buffers and objects that cross threads by pointer; state of a
`PeerConnection` that is touched by HTTP threads before, and by its loop while,
it is set up; handlers that throw half way; a `uv_async_t` per task that is
linked, armed, signalled, run, closed and deleted by two threads; counters that
are maintained incrementally under reordered and duplicated packets; fields of
fixed width that the clock has long outgrown; and lengths taken from packets.
`PROJECT.json` lists each of these under "hazards", at its line.

What makes the parts correct: a packet reaches every sink once, in order, in
memory that is still its own (media plane); a posted task runs exactly once, in
order, on one thread (Pool); the loss counter is exact and counts the right
losses (RTPLostSession); a reader of a feedback can find its deltas and
reconstruct the arrivals (TransportCC); connections made at the same time get
ports and loops of their own, and a player's answer names the stream it is
attached to (signaling); a silent peer, and only a silent one, times out (ICE
timer); parsers stay inside the packet, end, and recover what the matching
`Serialize` wrote (RTP, RTCP, STUN, byte_io).

## 2. Modules

| module | models | checked by |
|---|---|---|
| `LostSession` | `RTPLostSession` | `MCLostSession` |
| `Relay` | handlers, `PeerConnection`, `MediaStream`, `pcTable` | `MCRelay` |
| `TaskQueue` | abstract: what `Pool::Async` promises | through `AsyncPool` |
| `AsyncPool` | `Pool::Async`, `async_cb`, the loop's async handling | `MCAsyncPool` |
| `TransportCC` | `TransportCCFeedBack`: `InsertPacket`, `Serialize` | with `TccParse` |
| `StunParse` | `StunPacket`, called from `OnSocketData` | `MCStunParse` |
| `RtpParse` | `RTPPacket::Parse`, `GetTransportCCNum` | `MCRtpParse` |
| `Signaling` | the handlers up to the answer: `GetLoop`, `GetPort`, `AddStream`, `CreateAnswer`, `AddPC` | `MCSignaling` |
| `MediaRelay` | abstract: what the relay promises its players | through `Relay` |
| `IceTimer` | `iceTimer`, `OnIceTimer`, `lastPacketRecvTimeMS_` | `MCIceTimer` |
| `Rtcp` (on `ReportTimes`) | `Serialize` of the RTCP packets, `RTCPPacket::Parse` and theirs | `MCRtcp` |
| `ReportTimes` | `SetTimestamp`, `GetTimestamp` | with `Rtcp` |
| `ByteIO` | `byte_io.h` | with `Rtcp` |
| `TccParse` (on `TransportCC`) | `TransportCCFeedBack::Parse` | `MCTccParse` |
| `LostSessionProofs`, `RelayProofs`, `AsyncPoolProofs`, `SignalingProofs` | proofs about the module of that name | TLAPS |
| `IceProofs` | proofs about `IceTimer` and `StunParse` | TLAPS |
| `RtcpProofs` | proofs about `Rtcp` and `ReportTimes` | TLAPS |
| `PacketProofs` | proofs about `RtpParse`, `TransportCC` and `TccParse` | TLAPS |
| `BasicLemmas` | what the proofs share: remainders, and what queues hold after a step | TLAPS |

A definition whose name says what went wrong (`UncountForgotten`, `PostTwice`,
`EndTaskDeletes`, ...) stands before the definition it is a faulty variant of.
The variants are not used by the specifications; they are there to show that
each property fails for a plausible bug (`PROJECT.json`, "mutants").

### LostSession
`packets` is the ring, `totalLost` a uint16_t, `nextSeq` one past the newest
number. `AddPacket` is one call in the code; here its gap loop takes a step per
iteration (`pc = "fill"`), so that the source's two assertions are stated where
they stand. The branches are `AddFirst` (an unused ring, or one cleared because
the number is `Size - 1` or more ahead), `AddFuture` with `FillGap` and
`StoreFuture`, and `AddOld`. `created_at_time` is only compared with 0, so 0 and
1 are its values. `got` and `base` are history. The class is complete but nothing
instantiates it yet ("TODO: lost" in `RTPIncomingSession::AddPacket`).

### Relay
A step is a libuv callback, a task, or a statement of a handler that other
threads can observe. A `PeerConnection` lives while its handler, `pcTable` or a
task refers to it (`Referenced`); `Destroy` is the destructor, run by whichever
step drops the last reference. Buffers are numbered in order of allocation;
`heap` says what each holds, `freed` which ones `send_u` has freed; `tasks`,
`sending` and `sent` are the places a buffer waits in. `lastRemote_` is
uninitialised until the first datagram: sending to it then is a choice between a
refusal by `uv_udp_send` (`RunMediaRefused`; buffer and request leak) and
success, which binds the socket, so that `Start`'s `uv_udp_bind` fails unnoticed.
Null dereferences (`/play` without a publisher, RTP on a connection without
`remoteStream_`, a STUN packet that does not parse) set `crashed`. After a use of
freed memory anything may happen; the model records it in `bad` and stops.

Abstractions: the text of SDP is a Boolean (whether the offer sends); the
feedback, STUN answer and RTCP contents are kinds; `sinks_` and `pcTable`, which
the code does not lock, change in one step, since what a torn `std::map` does is
undefined; `OnRTP` posts to all sinks in one step, which no other step of the
same loop can interrupt; tasks of different connections on one loop may run in
any order, which allows more than the code does. The functions of
`RTPSessionManager` that lack a `return` fall through to their end, as the
build, which asks for no optimisation, has them do.

`sock` is the port a socket is bound to: the advertised one after `Start` (`Bind`),
or one of the kernel's choice after an earlier send, or after a bind that the system
refuses and `Start` does not notice. `Refused` are the connections whose port it
refuses: another socket has it, it is privileged, or it is 0 after the 16-bit wrap.
`AdvertisedPortOpen` says that a connection receives elsewhere only if it is one of
these or a player that media has reached before `Start`'s task has run.

### MediaRelay
The relay seen by a player: packets in transit to it, packets delivered, and
whether it has been heard from. Packets are numbered in the order they come in from
publishers, so sets of them are enough: a packet enters a channel only if it is
newer than all before it, and the oldest one in transit is delivered first. A packet
is lost only before the player was heard from, which is when `lastRemote_` is not
yet set. `Relay` maps the media (`Media`) of its task queue and of its socket's send
queue to `transit`, and what was written to `delivered`; a null dereference is
`Stop`. The mapping is checked with its liveness: what is in transit to a player
that has been heard from is delivered.

### Signaling
The same handlers as in `Relay`, at the grain at which HTTP threads meet: the
unlocked `index` and `port_` take a read and a write step each, and each media of
an offer is a step. A media is its type, direction, SSRC, extension lines and
whether it has the attributes whose absence makes the JSON library throw.
`port_` is 32 bits wide, a connection's port 16; `IndexValues` and `PortValues`
are those widths. `overlapped` is history: which counters two threads have been
inside at once. The code has that race; the properties say that it is the only
way in which ports repeat or loops are taken out of turn. The memory model is
taken to be sequentially consistent; a torn `shared_ptr` copy of `stream` is
undefined and not followed.

Of the media plane `Signaling` has what keeps a connection alive: `OnRTP` of a publisher
hands a packet to the sinks it can lock, and each posts a task that holds it (`held`)
until it has run (`RunTasks`). A connection whose handler has thrown is destroyed, and
leaves the stream, when the last reference goes (`Dead`, `DropReference`): in the
handler, or later in a task.

`extMap_` holds ids cut to a uint8_t (`IdValues`), while the answer repeats them whole.
`GetExtensionId` finds the lowest id of any media. So a media's own id is looked for
unless it does not fit, or another media of the offer names a lower one;
`ExtensionAgreed` says that these are the only exceptions.

### IceTimer
`now` is the clock in units of a fraction of the timer's period. `Arrive` puts a
datagram into the socket, `OnSocketData` reads it, `OnIceTimer` is a tick; the
loop gets to each no later than `Lag` after it is due. A second datagram behind a
waiting one would set the same field later and is left out. The specification is
`TimerSpec`. The code takes no
action on a timeout (`Destroy` is commented out); `reported` records the line it
logs.

### TaskQueue and AsyncPool
`TaskQueue` says what `PeerConnection` relies on: a posted task runs exactly
once, eventually, and one thread's tasks in the order it posted them. `AsyncPool`
is `Pool::Async` statement by statement, with libuv's side (marked external in
the map): `uv_async_send` marks `pending`, wakes the loop and lets go;
`uv__async_io` takes the list of handles over and goes through it; a handle that
is not pending goes back to the list. The refinement mapping counts a task as
posted once its handle is marked, and takes `ran` as it is.

### TransportCC
Messages are records of numbers that keep the code's widths; units and widths
are constants, so that TLC can make them small. `Serialize` begins the call;
`AddStatus` is an iteration of its loop over the packets, which computes a delta, a
symbol and the clock that the next delta is relative to; `WriteChunks` writes the
header and the chunks, `WriteNextDelta` one delta, `Pad` the padding. `order` is
history: the packets in the order of the loop, with the clock after each; so are a
written delta's `at`, where it lies in the message, and `clock`, the time a reader
has who adds up reference time and deltas as the layout says (`ReaderClock`).

`WidthAssumption` has the relations of the real numbers on which the result rests:
2^23 units of 64 ms are 2^31 ticks of 250 us, and 2^31 is a multiple of 2^16; a short
of ticks, 250 * 2^16, fits an int; a unit, 64000, is no more than half a short of
ticks and a whole number of ticks; a short, an int and the tick are even.
`feedbackPacketCount` is never initialised: `FbCounts` are its values. `delta * 250`
overflows an int; without optimisation it wraps.

`time` is unsigned and 64 bits wide (`LongValues`). Below zero it wraps, which close
arrivals reach at a turn of the reference time: let the first packet have arrived 100 us
behind a multiple of the round and the next in sequence order 1000 us before it. The
clock starts at 0 and becomes 2^64 - 1000. A third packet, 2000 us behind the turn, is
then some 2^64 us in its past, which is not a whole number of ticks, and its delta is
wrong. `OneRound` excludes the case: no arrival lies in an earlier round than that of
the lowest number.

The message has a base and a count and no list of numbers. `Serialize` writes a status
for each packet it has and none for those that are missing, so a reader attributes
deltas rightly only when there is no gap (`NoGaps`). `AddPacket`, the one caller, inserts
a single packet.

`FieldSpace` is what the 1200 bytes of `RTCPRTPFeedbackPacket::Serialize` leave for the
message. Nothing checks it; `FieldFits` says how many packets are safe.

### TccParse
The walk of `Parse`, on what `Serialize` of `TransportCC` has written (`Transmit`)
and on messages of other senders, with chunks of all three kinds, of which
`Serialize` writes one. `stage` says which of its two loops it is in; an entry of
`reported` has the packet's index, its status and, as history, where its delta was
read. The values of the deltas do not steer the walk and stay in `TransportCC`.
`SymbolsInChunk` is 7 in the source.

### Rtcp
A datagram is a sequence of words, any of which may be read as a common header.
`Compose` calls a packet's `Serialize`, `SerializeBlock` is an iteration of a
receiver report's loop over its blocks, `Serialized` the return, which puts what was
written behind the packets before it. `Arrive` is a datagram of another sender,
`Receive` is `OnSocketData` down to `RTCPPacket::Parse`, `ParsePacket` one iteration
of its loop. `sent` is history, the packets with the words before each, and so is
`nth`, the packet of the datagram that a report was made from. The loop checks only
that four bytes are left, so a report that claims more words than the datagram has
reads on in the receive buffer, which is 32 times as large as a datagram (`Residue`);
headers are read inside the datagram (`HeadersInDatagram`). `len` is signed and 32
bits wide in the source; a datagram and a packet length together are far below that.
A feedback's field has no more words than its buffer has room for (`FieldBytes`, of
the 1200 of `FeedbackBytes`): `Serialize` does not check it, and `FieldFits` of
`TransportCC` is about how many packets keep to it. `WritesInBuffer` is about
reports, whose buffers are made for their contents. A receiver report without blocks
states a length it does not have (section 3), so `CompoundRecovered` and
`TimestampInverts` are about compounds without one (`Counted`).

### ReportTimes, ByteIO
`ReportTimes` has operators only. It converts a sender report's time
to NTP's seconds and fractions and back, as `Rtcp` writes and reads them; doubles are
cut to integers. The sum of seconds and fraction in `GetTimestamp` is a double near 2^50,
which is rounded to a quarter of a microsecond, and this makes up for the cut of the
fraction. It holds for times from 2^50 us after 1970 on, in 2005, until `ntpSec` wraps
(`EarliestTime`). For times below about 2^41 us, the first weeks of 1970, doubles are
finer and a microsecond is lost: 1000001 comes back as 1000000.
`ByteIO` has the loops of the general templates and the unrolled forms for two and
four bytes, over byte sequences, with `Base` for 256; `Store` writes a number of some
type to a buffer.

### RtpParse
A packet is abstracted to the size, the flags, the last byte and the bytes of the
extension block; the walk takes a step per iteration. `return -1` in a function
that returns bool is `true`. An element is recorded before its id and length are
checked, with the data pointer the code gives it.

### StunParse
A datagram is its size, its type word and, behind the header, words of four bytes
that `Parse` may come to read as an attribute's header; `pad32` keeps it on their
boundaries. `Respond` is `MakeResponse` and `Serialize`; HMAC and CRC may be any
words. The answer goes through `IsStun` and `Parse` in turn, which stands for its
receiver. Magic cookie, transaction id and the length field, which `Parse` does
not look at, are left out. `result = "null"` is the null pointer that `RecvStun`
of `Relay` turns into a crash.

## 3. Runs

| run | result | bounds |
|---|---|---|
| `lost_session` | `TypeOK`, `TotalLostExact`, `LoopExit`, `NoFalseLoss`, `LossesRecent`, `NoMissedLoss`, `CallReturns` hold | 4 slots, uint16_t of 5 values, numbers 0..9 |
| `relay_one` | `BuffersSound`, `SoleOwner`, `MediaConserved`, `CallbackTargetAlive`, `AdvertisedPortOpen`, `ImplementsMediaRelay` hold | 2 publishers in turn, the second with a port that is refused, 1 player, 4 buffers |
| `relay_two` | `BuffersSound` is violated | 2 players, 2 buffers |
| `async_pool` | `HandleLifetime`, `ImplementsTaskQueue`, `HandlesReclaimed` hold | 2 threads, 2 tasks each |
| `server_loop` | `LoopSerial` is violated | 1 thread, 2 runners |
| `signaling` | `PortsDistinct`, `LoopsInTurn`, `StreamWhole`, `AnswerNamesStream`, `ExtensionAgreed`, `FailureLeavesNoTrace` hold | 2 threads, 3 connections, 2 loops, index of 4 values, 5 ports, extension ids of 16 values |
| `ice_timer` | `SilenceNoticed`, `TimeoutJustified` hold | period 3, timeout 12, lag 2, clock to 40 |
| `tcc` | `ReaderInStep`, `ArrivalsReported`, `FieldFits`, `ReadsInMessage`, `AnnouncedReported` hold | 3 packets, numbers 3, 13, 14, 15, 24 arrival times over three rounds, 12 bytes of buffer; foreign messages of 2 chunks of any kind, sizes 0, 7 and 8..16, counts 0..5 |
| `rtcp` | `WritesInBuffer`, `CompoundRecovered`, `TimestampInverts`, `HeadersInDatagram`, `ReadsBack` hold | compounds of 3 out of 17 packets, foreign datagrams of 3 words and 3 bytes; all numbers of up to 4 bytes of 2 bits |
| `rtp_parse` | `ExtensionsInBounds`, `PayloadExact`, `WalkEnds` hold | blocks of 4 and 8 bytes, sizes 11..27 |
| `rtp_extension_data` | `ExtensionData` is violated | the same packets |
| `stun_parse` | `AttributesInBounds`, `AnswerReadable`, `ParseEnds` hold | up to 3 words and 3 bytes |

Why the bounds are enough. Ten numbers are two and a half turns of a ring of four:
gaps, duplicates, packets a turn late, jumps of `Size - 2`, `Size - 1` and more all
occur, and a uint16_t with one value more than the ring has slots wraps at the first
wrong decrement. Four buffers let two packets be in flight with their feedbacks, or a
STUN exchange with two packets. Two posting threads and two tasks each let every
interleaving of a linked-but-unsignalled handle with a pass of the loop happen. Three
packets have two deltas that go forward, back or both, with chunks of two symbols of
which the last is partly filled; the arrival times lie in the first round of the
reference time and on both sides of the turns into the second and the third, so that
the clock also wraps below zero; the numbers 13, 14 and 15 follow each other and 3
leaves a gap; one packet with a short delta, or two with bytes, fill the 12 bytes
exactly, and more packets leave them. The byte values of `rtp_parse` are padding,
lengths 0, 1 and beyond the block, and the reserved id, in every arrangement of four.
The lengths of `stun_parse` are zero, unaligned, exact and too long, at each of three
words.

Three connections on two threads overlap in every way in the constructor and in
`CreateAnswer`, fail half way while others attach and media arrives, and wrap the
index and, with the first port at 3 of 5, the port; media of one offer name
transport-cc by one id, by two, or by 17, which is cut to 1. Forty units of the clock
hold two silences long enough to be found, and 12, 3 and 2 keep the code's ratio of
timeout and period with a loop that is late by two thirds of a period. Two publishers
let the second replace the first before, while and after a player attaches. Two
chunks are enough for one that overshoots the count and one that falls short; every
cut of the message is an initial state. The packets of `rtcp` have words that look
like headers at every place a wrong length could lead to, and none, one, two or more
blocks; foreign lengths are zero, exact, too long, and the two at which a 16-bit byte
count is zero; the times of sender reports are every fraction of a second, and every
second up to the wrap of `ntpSec`. Bytes of two bits have the sign bit and the
carries that bytes of eight have.

`CHECK_DEADLOCK FALSE` is set where the system may stop: the process has gone
down or the bound on buffers is used up (`Relay`), every task has run
(`AsyncPool`), the message is read (`TccParse`), the connections are used up
or the process has gone down (`Signaling`), the clock has reached its bound
(`IceTimer`).

Fairness. `LostSession`, `RtpParse`, `StunParse`: a call that has begun goes on,
being straight-line code of one thread. `AsyncPool`: a thread inside `Async` finishes
the call; a loop keeps running, since `run`'s own timer keeps `uv_run` from
returning. `Relay`: each loop runs its tasks and its sockets' writes and
completions, which is what implements the delivery that `MediaRelay` promises. No
fairness is assumed of clients, the network or handlers.

### What the violations show
* `relay_two`: with two players the first `send_u` frees the buffer that the
  second player's task, socket or `send_u` still holds. With one player, and only
  then, the ownership scheme is sound.
* `server_loop`: `Server::Start` runs a loop that one of `Pool`'s threads already
  runs; two callbacks of one loop then overlap, and connections on it lose the
  one-thread-per-loop guarantee that their unlocked state needs.
* `rtp_extension_data`: an extension that is not first in its block is recorded
  with the first one's data, so that a wrong transport sequence number is
  reported.

Other places where the code and the layouts in its comments differ, met while
modelling and left out of the runs because nothing calls the code yet, or because a
single look at the line shows them:

* `rtcp_packet.h:460`: the feedback count is written as 16 bits into the last byte of
  the header and the first of the chunks, which overwrite it; the field is always 0.
* `rtcp_packet.h:334`: `Parse` reads the base sequence number with the count in its
  low half.
* `rtcp_packet.h:336`: `Parse` keeps the reference time's 24 bits in place, 256 times too
  large.
* `rtcp_packet.h:473`: the unsigned clock wraps below zero when a packet that arrived
  before a turn of the reference time follows one that arrived after it (section 2).
* `rtcp_packet.h:429-432`: base and count leave no room for numbers that are missing.
* `rtcp_packet.h:265`: a receiver report without blocks is written as 8 bytes and
  states 32, so that a reader skips what follows it.
* `rtcp_packet.h:36`: the padding flag is read from the upper bit of the count.
* `rtcp_packet.h:568`: the constructor of a feedback packet skips the header twice
  and finds neither type of field; `RTCPPacket::Parse` passes over feedback packets.
* `rtcp_packet.h:74-76`: `SetSSRC` writes one byte where the getter reads four, and
  the lost count's four bytes from offset 5 overlap the sequence number.
* `rtcp_packet.h:95`: 65.635 for 65.536 makes a delay read too short.
* `rtp_packet.cpp:187`: `RTPPacket::Serialize` writes no SSRC.

A result worth knowing, although it is not a violation: the first delta of a feedback
is many rounds of the reference time too large for its int and its short, and both
cuts, and the overflow of `delta * 250`, take away whole rounds only; but for the
wrap at a turn the feedback is right (`ArrivalsReported`). And `TransportCCInBounds`
holds because of the wrong data pointer: the variant `DataOfElement`, which corrects
the pointer and leaves the order of recording and checking as it is, violates it.

## 4. Proofs

All theorems hold for every value of the constants that satisfies the named
assumptions, where the runs of section 3 fix small ones. The inductive invariants
were checked by TLC on the corresponding runs before they were proved, with small
ranges for what they quantify over `Nat`.

### LostSessionProofs
For every ring size of at least 2, every counter width that can count the ring and
every range of sequence numbers:

* `TypeCorrect`: `Spec => []TypeOK`;
* `LossCountExact`: `Spec => []TotalLostExact`, the counter is the number of slots
  marked missing and the source's second assertion never fires;
* `LoopExitExact`: `Spec => []LoopExit`, nor does the first;
* `ReceivedNeverLost`, `LossesInWindow`, `LossesComplete`: `NoFalseLoss`,
  `LossesRecent` and `NoMissedLoss`.

Assumptions: `SizeAssumption` (`2 <= Size < U16Values`; 256 and 65536 in the
source) and `MaxExtSeqAssumption`.

The count is not inductive alone: `CountInv` adds the types, `LoopExit`, and that
an unused ring (`nextSeq = 0` outside a call) is empty, which `AddFirst` needs
since it does not clear it. `StoreExact` and `UncountExact` say what overwriting
one slot does to the set of counted slots and to the counter, and `U16Down` and
`U16Up` that the modulus never bites. The window needs `SlotHome` (a slot only
holds a number that belongs in it and is below `nextSeq`) and `GotPast` (what has
arrived is below `nextSeq`) besides the three properties (`Window`); the lemmas
`FirstWindow`, `AdvanceWindow` and `OldWindow` treat the three ways in which a slot
is overwritten, on the two facts of `BasicLemmas` about numbers that share a slot.

### RelayProofs
For any sets of publishers and players and any number of buffers
(`PCAssumption`: the two are disjoint; `RefusedAssumption`: any of them may be refused
their port; `MaxBufsAssumption`):

* `CallbackTargetAlwaysAlive`, `AdvertisedPortAlwaysOpen`: the callbacks' raw `this`
  is alive, and sockets listen where the answers say if the system grants the port, with
  the exception of players that the property names. Inductive: `Kept` (from the answer
  on, whoever has a task, a timer or a receiving socket is in `pcTable`) and `Ported` (a
  socket that an earlier send has bound, or a task, means a player that was given media).
* `MediaAlwaysConserved`, with any number of players. A count of the media is not
  inductive; `Queued` says where each buffer is: its queues hold allocated buffers
  (`Allocated`), each in one place (`Separate`), and the media among them is what
  `OnRTP` gave (`Accounted`). Each step of a loop has a lemma of its own.
* `OneSinkBuffersSound`, `OneSinkSoleOwner`: while no stream has two sinks at once
  (`OneSinkEach`), no buffer is used after it was freed, and each has one holder.
  With two sinks this is false (`relay_two`), so the condition is part of the
  theorems' statements. `Owned` is the invariant: what two connections hold is
  disjoint, and nothing held is freed. It rests on `Queued`, which alone says that
  the buffer `send_u` frees is no longer in the same connection's other queues.
* `OnePlayerSound`: with at most one player the condition always holds.
* `OneSinkImplementsRelay`: while `OneSinkEach`, the relay starts as `MediaRelay` does,
  and every step is one of `MediaRelay` or leaves it unchanged: it neither reorders,
  repeats nor invents a packet, and loses one only while its player has not been heard
  from. That is `ImplementsMediaRelay` without its fairness. `Relayed` is what a step
  needs: `Queued`, `Ported`, that media lies in both queues in the order it came in
  and the socket's before the tasks' (`InOrder`), and that only connections to `/post`
  publish (`RemotesPublish`). The condition is there because a use of freed memory
  stops the model, where `MediaRelay` would go on.
  `OnePlayerImplementsRelay` is the same for one player, without the condition.

### AsyncPoolProofs
For any threads, tasks and runners (`RunnersAssumption`, `NoHandleAssumption`):

* `HandleAlwaysAlive`: `HandleLifetime`, also for loops that several threads run, as
  `Server::Start` makes happen. `HandleInv` adds what the lists hold (`Lists`: each
  handle in at most one, once, and none that is closed), that a handle is signalled
  only when its sender is through with it (`Signalled`), and that a callback is the
  only one of its handle (`Called`). The last two keep a handle from being closed
  while someone else is about to touch it.
* `OneRunnerRunsInOrder`: on a loop run by one thread, every step is a step of
  `TaskQueue` or leaves it unchanged, which is the refinement without its fairness.
  `Fifo` states why: tasks that have not run are in a list (`Waits`), in the order
  their thread posted them, the runner's local list before the loop's (`Ordered`), so
  that those that have run are each thread's first ones (`Counted`). With a second
  runner the order is lost, which is why the theorem assumes one.

### SignalingProofs
For any number of HTTP threads and connections, any sets of offers and any widths
(`CountersAssumption`: the number of loops divides the values of the index, as 4
divides 256; `OffersAssumption`: offers are sequences of media):

* `FailureNeverLeavesTrace`. `ConnInv`: each handler under way has a connection of
  its own (`Numbered`), what other requests can meet (`pcTable`, `stream`) belongs to
  handlers that cannot throw any more, and a sink to one that has not thrown or is held
  by a task (`Visible`).
* `LoopsAlwaysInTurn`. `LoopInv`: the index is the number of connections made, modulo
  its width, and without an overlap connection `c` has loop `c + 1` modulo the number
  of loops; `ModMod` and `ModDifference` of `BasicLemmas` reconcile the two moduli.
* `PortsAlwaysDistinct`. The 16-bit ports themselves do not say how they came about;
  `PortInv` states that there are values of the 32-bit counter, all different, from
  which they were cut.
* `StreamAlwaysWhole`, `AnswerAlwaysNamesStream`. `MediaInv` relates a stream that is
  still being filled in to the media answered so far (`Filled`, by `Sofar`), and has
  main's stream and those with players filled in to the end (`Finals`).
  A player in the table is a sink of its `localStream_` and of nothing else
  (`Attached`), which keeps another publisher's media from it.
* `ExtensionAlwaysAgreed`, for any offers: `extMap_` has exactly the ids, cut to eight
  bits, of the transport-cc lines answered so far (`Mapped`), and the search finds the
  least of them (`LeastOf`).

### IceProofs
`SilenceAlwaysNoticed` and `TimeoutAlwaysJustified`, an action property, for every
period, timeout and lateness with `TimesAssumption` (`Lag < IceTimeout`). `TimerInv`
bounds every remembered time against `now`: `lastPacketRecvTimeMS_` is at most `Lag`
behind the event it stands for (`Measured`), and the next tick comes before the
timeout and a period are over (`TickDue`).

`AttributesAlwaysInBounds` and `AnswerAlwaysReadable` for STUN datagrams of every size
and content and any HMAC and CRC (`PacketsAssumption`). `StunInv`: `Parse` stands on
word boundaries behind the header (`Position`), the username it copies lies inside
(`UsernameInside`), and in the answer it stops at exactly the two attributes and the
end (`AnswerWalk`).

### RtcpProofs
For datagrams of any number of packets, packets of any content and every scale of the
times (`PacketsAssumption`: a feedback's field fits its buffer, and no report was made
before `EarliestTime`; `ScaleAssumption`: a fraction is finer than an eighth of a
microsecond, and the epoch fits the seconds):

* `SerializeStaysInBuffer`: `WritesInBuffer`, for sender reports and for receiver
  reports of any number of blocks. Feedback packets are not its subject, since their
  field is assumed to fit; `FieldAlwaysFits` of `PacketProofs` says when it does;
* `ParseStaysInDatagram`: `HeadersInDatagram`, an action property, for datagrams of any
  origin;
* `ParseRecoversCompound`: `CompoundRecovered`;
* `ReportTimesSurvive`: `TimestampInverts`, for reports from `EarliestTime` on, where the
  double is as coarse as `RoundToQuarter` has it.

`WalkInv` (`WalkAlwaysInvariant`) is needed because the properties speak of the end,
when lengths and positions have been added up. It says what a draft holds after some
blocks (`DraftPart`); where each packet lies in the datagram and which words are its
own, with a length that leads to the next (`WirePart`); and that `Parse` stands where a
packet starts, with a report of every one before it (`InStep` in `ParsePart`), which
holds while all packets state the length they have (`Counted`). `data + len = Size`
serves any datagram. The times are two lemmas of arithmetic: `FractionInverts`, that
what `ntpFrac` loses when it is cut is less than what the rounding gives back, and
`TimeInverts` on it.

### PacketProofs
RTP. `ExtensionsStayInBounds` and `PayloadAlwaysExact` for
packets of every size and blocks of every length and content (`PacketsAssumption`:
bytes are bytes, a block consists of words). `ParseInv`: an element is recorded only
from a block that holds a word, and always with the data behind the first header
(`Recorded`), which is the wrong pointer that keeps `GetTransportCCNum` in bounds;
the payload is set by the last statement alone (`PayloadSet`).

Feedback. For any number of packets, arrival times over any number of rounds, every
width and unit that satisfies `WidthAssumption`, and any messages of other senders
(`ForeignAssumption`: chunks are chunks):

* `ArrivalsAlwaysReported`: a reader reconstructs every arrival up to a tick and whole
  rounds of the reference time, if the arrivals lie within half a short of ticks
  (`Close`) and none before the turn of the reference time that the first one has passed
  (`OneRound`); and it attributes them to their numbers, if none is missing (`NoGaps`);
* `FieldAlwaysFits`: a message keeps to its buffer as long as its packets would with two
  bytes for every delta. `MessagePart` bounds the size by that (`Widest`), and the padding
  ends at a multiple of four that the buffer's size is as well;
* `ReaderAlwaysInStep`: `Parse` reads every delta of a message of `Serialize` where it
  was written and as wide as it was written, and ends in the padding;
* `ParseStaysInMessage`: `ReadsInMessage`, for any sender.

`ReportInv` follows a feedback from the map to the reader. `PacketsPart` and
`SymbolsPart`: the loop has taken some packets, each of which has a delta and the
symbol for it. `OrderPart`: it takes them in ascending order, without gaps one number
after the other. `ClockPart`: the clock of `Serialize` is the one a reader will have,
a whole number of ticks, and all arrivals are the same number of rounds, and less
than a tick, away from it, so that the next delta is those rounds and less than half
a short. `MessagePart`: the deltas written so far lie one behind the other (`Place`).
`ReaderPart`, `ChunksPart`, `DeltasPart`: the reader has not passed the end, has the
symbols of the chunks it has read, and stands where the next delta was written.

The heart is `DeltaStep`, on one delta of that form. A round is `IntValues \div 2` ticks:
the cut to an int takes an even number of rounds and leaves one or none. One that is left
does not move the clock, since `delta * 250` wraps and 250 is even, and is not written,
since it is a whole number of shorts. So the clock moves by the delta that is written.
`TimeStep` adds that the 64-bit clock does not wrap: it stays at whole ticks (`OnTick`)
and less than a tick from an arrival that, less the rounds, is not negative.

### Only model-checked
* Liveness: `CallReturns`, `HandlesReclaimed`, `WalkEnds`, `ParseEnds`, and the
  fairness of `ImplementsTaskQueue` and of `ImplementsMediaRelay`. It is out of the
  prover's reach.
* `AnnouncedReported` and `ReadsBack`: they compare a loop with a reference that is
  itself computed over a sequence of any length, a concatenation of chunks with
  `FlattenSeq` and a selection with `SelectSeq` in the one, a sum of powers of the base
  in the other. What those compute for every input would take an induction over data.

## 5. Not modelled

* SDP text, codecs, candidates and credentials, the CRC and HMAC values and random
  identifiers: formatting or pure functions without control.
* The server's own socket (`Server::OnData`, `read_s`), unreachable behind a
  `return`, and `RemovePC`, whose only caller `Destroy` has none.
* `CreateOffer`, `SetRemoteSdp`, `sendBindRequest`, `CreateRequest`, `Active`,
  `OnSendRTP`, `OnSendRTCP`, `RTPOutgoingSession`: empty or without a caller.
  `isLost` and `ReceiverReportPacket::Parse` have no caller either, and
  `GetNacks`, `PayloadFeedbackPacket` and `XRPacket` no definition.
* The setters and getters of `RTCPReceiverReportBlock`, with the conversion of delays,
  `RTCPRTPFeedbackPacket::Parse` and `RTPPacket::Serialize`: their only calls are
  commented out or planned in comments.
* `RTPIncomingSession`'s timer, which is initialised and stopped and never started.
* The readers and writers of eight bytes in `byte_io.h`, which nothing uses.
* `client.cpp`, all of which is commented out, and the test page.
* What undefined behaviour leads to after it has happened: `Relay` stops at a use of
  freed memory; races inside `std::map`, `shared_ptr` and libuv's handle queue are
  listed as hazards and not followed.

## 6. Plan

Modelled: all parts of the table in section 1 but the helpers, the client and the
operations without a caller that section 5 lists. Proved: the safety properties of
the runs, with the exceptions of section 4. What is left:

1. `TccParse`: `AnnouncedReported`, with the statuses that a message announces stated by
   position instead of by concatenation, so that the chunks read so far can be compared
   with them as `ChunksPart` does for the chunks of `Serialize`.
2. `ByteIO`: `ReadsBack` for the one base and the sizes of up to four bytes that the code
   has, byte by byte.
