---------------------------- MODULE TransportCC ----------------------------
(***************************************************************************)
(* RTCPRTPFeedbackPacket::TransportCCFeedBack: the transport-wide feedback *)
(* message, which reports when each packet arrived.                        *)
(*                                                                         *)
(* A message is a base sequence number, a count, a reference time in units *)
(* of RefUs, chunks of status symbols and one delta in units of TickUs for *)
(* every received packet, a byte wide or a short.  Fields are numbers of   *)
(* the width the code gives them; the widths and units are constants, so   *)
(* that TLC can make them small.  An iteration of Serialize's loops over   *)
(* the packets and over the deltas is a step.                              *)
(***************************************************************************)
EXTENDS Integers, Sequences, FiniteSets

CONSTANTS
  TickUs,        \* 250
  RefUs,         \* 64000
  RefValues,     \* 2^23: the mask 0x7FFFFF
  SmallMax,      \* 127: the largest delta sent as a byte
  ShortValues,   \* 2^16
  IntValues,     \* 2^32
  LongValues,    \* 2^64
  SymbolsInChunk,\* 7
  SeqValues,     \* 2^16, and the values of a 16-bit field
  Seqs,          \* transport sequence numbers that are inserted
  Times,         \* arrival times in microseconds; never 0
  FbCounts,      \* values of the uninitialised feedbackPacketCount
  FieldSpace,    \* 1188: what the buffer of 1200 bytes has left for the message
  MaxPackets     \* bound on the packets of one message; AddPacket inserts one

ASSUME WidthAssumption ==
  /\ {TickUs, RefUs, RefValues, ShortValues, IntValues, LongValues, SymbolsInChunk, SeqValues}
       \subseteq Nat \ {0}
  /\ SmallMax \in Nat /\ SmallMax < ShortValues \div 2
  /\ 2 * RefUs * RefValues = TickUs * IntValues  \* 2^23 units of 64 ms are 2^31 ticks
  /\ TickUs * ShortValues <= IntValues           \* a short of ticks is an int of microseconds
  /\ RefUs <= TickUs * (ShortValues \div 2)      \* and spans a unit of the reference time
  /\ RefUs % TickUs = 0
  /\ (IntValues \div 2) % ShortValues = 0
  /\ TickUs % 2 = 0 /\ ShortValues % 2 = 0 /\ IntValues % 2 = 0
  /\ Seqs \subseteq 0..(SeqValues - 1) /\ Times \subseteq 1..(LongValues - 1)
  /\ FieldSpace \in Nat /\ FieldSpace % 4 = 0
  /\ MaxPackets \in Nat /\ MaxPackets < SeqValues

VARIABLES
  packets,               \* the map from sequence number to arrival time
  feedbackPacketCount,
  step,                  \* of Serialize: "none", "packets", "deltas", "done"
  left,                  \* packets its loop over them has still to come to
  order,                 \* history: those it has been through, [seq, clock]
  referenceTime, time, symbolList, deltas,   \* its locals; symbolList for statuses
  msg                    \* the message it writes, <<>> before

looping == <<left, order, referenceTime, time, symbolList, deltas>>
feedback == <<packets, feedbackPacketCount, step, looping, msg>>

HeaderSize == 8

NotReceived == 0
SmallDelta == 1
LargeOrNegativeDelta == 2

(* The conversion of n to a signed type with the given number of values. *)
ToSigned(n, values) ==
  IF n % values < values \div 2 THEN n % values ELSE (n % values) - values

-----------------------------------------------------------------------------
(* Serialize.                                                              *)

(* referenceTime, from the first received packet's arrival. *)
ReferenceTime(arrival) == (arrival \div RefUs) % RefValues

(* The delta from the reader's clock to an arrival, both unsigned, truncated
   toward zero and cut to an int. *)
Delta(arrival, clock) ==
  IF arrival > clock
  THEN ToSigned((arrival - clock) \div TickUs, IntValues)
  ELSE ToSigned(-((clock - arrival) \div TickUs), IntValues)

IsSmall(delta) == delta >= 0 /\ delta <= SmallMax

(* The clock the next delta is relative to: what a reader will have.  The
   product is an int; the build asks for no optimisation, so it wraps.  The
   clock is unsigned: below 0 it wraps to the end of 64 bits. *)
NextTimeExact(arrival, clock, delta) == arrival
NextTime(arrival, clock, delta) ==
  (clock + ToSigned(delta * TickUs, IntValues)) % LongValues

(* One iteration of the loop over packets, in the order of the map; the reader's
   clock starts at the reference time of the first one. *)
AddStatus(seq) ==
  LET arrival == packets[seq]
      ref == IF order = <<>> THEN ReferenceTime(arrival) ELSE referenceTime
      clock == IF order = <<>> THEN ref * RefUs ELSE time
      delta == Delta(arrival, clock)
  IN  /\ step = "packets" /\ seq \in left /\ \A s \in left : seq <= s
      /\ referenceTime' = ref
      /\ time' = NextTime(arrival, clock, delta)
      /\ symbolList' = Append(symbolList, IF IsSmall(delta) THEN SmallDelta ELSE LargeOrNegativeDelta)
      /\ deltas' = Append(deltas, delta)
      /\ left' = left \ {seq} /\ order' = Append(order, [seq |-> seq, clock |-> time'])
      /\ UNCHANGED <<packets, feedbackPacketCount, step, msg>>

(* Two-bit chunks: SymbolsInChunk statuses each, the last one zero-filled. *)
Chunks(ss) ==
  [c \in 1..((Len(ss) + SymbolsInChunk - 1) \div SymbolsInChunk) |->
    [j \in 1..SymbolsInChunk |->
      LET n == (c - 1) * SymbolsInChunk + j
      IN  IF n <= Len(ss) THEN ss[n] ELSE NotReceived]]

(* A delta is written as a byte or cut to a short. *)
WriteDeltaExclusive(delta) ==
  IF delta >= 0 /\ delta < SmallMax THEN [wide |-> FALSE, value |-> delta]
                                    ELSE [wide |-> TRUE, value |-> ToSigned(delta, ShortValues)]
WriteDelta(delta) ==
  IF IsSmall(delta) THEN [wide |-> FALSE, value |-> delta]
                    ELSE [wide |-> TRUE, value |-> ToSigned(delta, ShortValues)]

(* The count is written as a 16-bit field that starts at its own byte, so that
   its low half is overwritten by the first chunk and its high half is 0. *)
WriteFbCount(count) == 0

(* The fields a reader attributes the deltas by: the lowest number and how many
   there are, written as if none lay between them that are missing. *)
BaseSeqNumber == order[1].seq % SeqValues
PacketStatusCount == Cardinality(DOMAIN packets) % SeqValues

(* It returns at once when there are no packets. *)
Serialize ==
  /\ step = "none" /\ packets # <<>>
  /\ step' = "packets" /\ left' = DOMAIN packets
  /\ UNCHANGED <<packets, feedbackPacketCount, order, referenceTime, time, symbolList, deltas, msg>>

WriteChunks ==
  /\ step = "packets" /\ left = {}
  /\ step' = "deltas"
  /\ msg' = [base |-> BaseSeqNumber,
             count |-> PacketStatusCount,
             ref |-> referenceTime,
             fb |-> WriteFbCount(feedbackPacketCount),
             chunks |-> Chunks(symbolList),
             deltas |-> <<>>,
             size |-> HeaderSize + 2 * Len(Chunks(symbolList))]
  /\ UNCHANGED <<packets, feedbackPacketCount, looping>>

(* The clock of a reader of the message, as its layout says: the reference time
   and the deltas so far. *)
ReaderClock(m) == IF m.deltas = <<>> THEN m.ref * RefUs ELSE m.deltas[Len(m.deltas)].clock

(* at and clock are history: the position of the delta, and the reader's clock
   with it. *)
WriteNextDelta ==
  LET d == WriteDelta(deltas[Len(msg.deltas) + 1])
  IN  /\ step = "deltas" /\ Len(msg.deltas) < Len(deltas)
      /\ msg' = [msg EXCEPT
                   !.deltas = Append(@, [wide |-> d.wide, value |-> d.value, at |-> msg.size,
                                         clock |-> ReaderClock(msg) + TickUs * d.value]),
                   !.size = @ + (IF d.wide THEN 2 ELSE 1)]
      /\ UNCHANGED <<packets, feedbackPacketCount, step, looping>>

(* Zeros up to a multiple of four. *)
PaddedAlways(size) == 4 * (size \div 4 + 1)
Padded(size) == 4 * ((size + 3) \div 4)

Pad ==
  /\ step = "deltas" /\ Len(msg.deltas) = Len(deltas)
  /\ step' = "done"
  /\ msg' = [msg EXCEPT !.size = Padded(@)]
  /\ UNCHANGED <<packets, feedbackPacketCount, looping>>

InsertPacket(seq, arrival) ==
  /\ step = "none"
  /\ Cardinality(DOMAIN packets \cup {seq}) <= MaxPackets
  /\ packets' = [s \in DOMAIN packets \cup {seq} |-> IF s = seq THEN arrival ELSE packets[s]]
  /\ UNCHANGED <<feedbackPacketCount, step, looping, msg>>

FeedbackInit ==
  /\ packets = <<>>
  /\ feedbackPacketCount \in FbCounts
  /\ step = "none" /\ left = {} /\ order = <<>>
  /\ referenceTime = 0 /\ time = 0 /\ symbolList = <<>> /\ deltas = <<>>
  /\ msg = <<>>

FeedbackNext ==
  \/ \E seq \in Seqs, arrival \in Times : InsertPacket(seq, arrival)
  \/ Serialize \/ (\E seq \in Seqs : AddStatus(seq)) \/ WriteChunks \/ WriteNextDelta \/ Pad

-----------------------------------------------------------------------------
(* Properties.                                                             *)

(* Arrivals close enough for a short delta. *)
Close == \A s, t \in DOMAIN packets : packets[s] - packets[t] < TickUs * (ShortValues \div 2 - 1)

(* No arrival lies in an earlier round of the reference time than that of the
   lowest number, which the reader's clock starts in. *)
Rounds(arrival) == (arrival \div RefUs) \div RefValues
OneRound ==
  \A s, t \in DOMAIN packets :
    (\A u \in DOMAIN packets : s <= u) => packets[t] >= Rounds(packets[s]) * (RefUs * RefValues)

NoGaps == \A s, t \in DOMAIN packets : \A u \in s..t : u \in DOMAIN packets

(* A reader reconstructs every arrival up to one tick and whole rounds of the
   reference time, while arrivals are close and none lies before the turn of
   the reference time that the first one has passed.  Rounding does not
   accumulate however many deltas, forward or backward, precede it; and although
   the system clock passed the first round long ago, so that the deltas are some
   multiple of IntValues \div 2 ticks too large for an int and for the short they
   are cut to, what the cuts and the overflow take away are whole rounds.  When
   no number is missing, the k-th delta is that of the k-th number from base. *)
ArrivalsReported ==
  step = "done" /\ Close /\ OneRound =>
    /\ Len(msg.deltas) = msg.count
    /\ \A k \in 1..Len(msg.deltas) :
         LET round == RefUs * RefValues
             error == (packets[order[k].seq] - msg.deltas[k].clock) % round
         IN  /\ error < TickUs \/ error > round - TickUs
             /\ NoGaps => order[k].seq = msg.base + k - 1

(* RTCPRTPFeedbackPacket::Serialize makes one buffer for whatever the message
   is, and nothing checks it: a message stays in it as long as its packets would
   fit with the widest deltas, as the one packet of AddPacket does. *)
FieldFits ==
  step = "done" /\ HeaderSize + 2 * Len(msg.chunks) + 2 * msg.count <= FieldSpace =>
    msg.size <= FieldSpace

=============================================================================
