------------------------------ MODULE TccParse ------------------------------
(***************************************************************************)
(* TransportCCFeedBack::Parse: the walk over a transport-wide feedback     *)
(* message, first over chunks of packet statuses, then over the deltas     *)
(* that the statuses announce.  It reads what Serialize of TransportCC has *)
(* written, and messages of other senders.                                 *)
(*                                                                         *)
(* To the walk, a message is its size, the number of packets it says it    *)
(* reports, and what its half words are when they are read as chunks.  The *)
(* deltas' values do not steer it and are left to TransportCC.             *)
(***************************************************************************)
EXTENDS TransportCC, SequencesExt

CONSTANT Foreign   \* messages of other senders: [size, count, chunks]

Reserved == 3

RunChunk(status, run) == [kind |-> "run", status |-> status, run |-> run]
TwoBitChunk(symbols) == [kind |-> "two", symbols |-> symbols]

Chunk(c) ==
  \/ c.kind = "run" /\ c.status \in 0..3 /\ c.run \in 0..8191
  \/ c.kind = "two" /\ c.symbols \in [1..SymbolsInChunk -> 0..3]
  \/ c.kind = "one" /\ c.symbols \in [1..(2 * SymbolsInChunk) -> 0..1]

ASSUME ForeignAssumption ==
  \A m \in Foreign :
    /\ m.size \in Nat /\ m.count \in 0..(SeqValues - 1)
    /\ \A k \in 1..Len(m.chunks) : Chunk(m.chunks[k])

VARIABLES
  wire,      \* the message Parse is called with, <<>> before
  stage,        \* "start", "chunks", "deltas", "done"
  len,       \* bytes read
  statuses,
  i,         \* packets of the count that have been taken
  reported,  \* the packets reported so far: index, status and, as history, where
             \* the delta was read
  cut        \* Parse has returned because the message ends too early

parseVars == <<wire, stage, len, statuses, i, reported, cut>>

-----------------------------------------------------------------------------
(* The message.                                                            *)

ParseInit ==
  /\ FeedbackInit
  /\ wire \in Foreign \cup {<<>>}
  /\ stage = "start" /\ len = 0 /\ statuses = <<>> /\ i = 0 /\ reported = <<>> /\ cut = FALSE

(* A message of Serialize reaches a reader. *)
Transmit ==
  /\ step = "done" /\ wire = <<>>
  /\ wire' = [size |-> msg.size, count |-> msg.count,
              chunks |-> [c \in DOMAIN msg.chunks |-> TwoBitChunk(msg.chunks[c])]]
  /\ UNCHANGED <<feedback, stage, len, statuses, i, reported, cut>>

-----------------------------------------------------------------------------
(* Parse.                                                                  *)

(* Returns at once when there is no header; the base number, the count, the
   reference time and the message's own number are read from it. *)
ReadHeader ==
  /\ stage = "start" /\ wire # <<>>
  /\ IF wire.size < HeaderSize
     THEN stage' = "done" /\ cut' = TRUE /\ UNCHANGED len
     ELSE stage' = "chunks" /\ len' = HeaderSize /\ UNCHANGED cut
  /\ UNCHANGED <<feedback, wire, statuses, i, reported>>

(* The half word at a position; behind the chunks there are zeros. *)
ChunkAt(at) ==
  LET k == (at - HeaderSize) \div 2 + 1
  IN  IF k <= Len(wire.chunks) THEN wire.chunks[k] ELSE RunChunk(NotReceived, 0)

RunShort(c) == [j \in 1..(c.run - 1) |-> c.status]
Run(c) == [j \in 1..c.run |-> c.status]

StatusesOf(c) == IF c.kind = "run" THEN Run(c) ELSE c.symbols

Past(bytes) == len + bytes > wire.size

(* Statuses are read until there are as many as the count, or more. *)
Missing == Len(statuses) < wire.count

ReadChunk ==
  /\ stage = "chunks" /\ Missing
  /\ IF Past(2)
     THEN stage' = "done" /\ cut' = TRUE /\ UNCHANGED <<len, statuses>>
     ELSE /\ statuses' = statuses \o StatusesOf(ChunkAt(len)) /\ len' = len + 2
          /\ UNCHANGED <<stage, cut>>
  /\ UNCHANGED <<feedback, wire, i, reported>>

ChunksRead ==
  /\ stage = "chunks" /\ ~Missing
  /\ stage' = "deltas"
  /\ UNCHANGED <<feedback, wire, len, statuses, i, reported, cut>>

(* The bytes of a packet's delta. *)
Width(status) == IF status = SmallDelta THEN 1 ELSE IF status = LargeOrNegativeDelta THEN 2 ELSE 0

PastUnchecked(status) == FALSE
PastDelta(status) == Past(Width(status))

(* A packet of the reserved status is passed over. *)
ReadDelta ==
  /\ stage = "deltas" /\ i < wire.count
  /\ LET status == statuses[i + 1]
     IN  IF PastDelta(status)
         THEN stage' = "done" /\ cut' = TRUE /\ UNCHANGED <<len, i, reported>>
         ELSE /\ len' = len + Width(status) /\ i' = i + 1
              /\ reported' = IF status = Reserved THEN reported
                             ELSE Append(reported, [index |-> i, status |-> status, at |-> len])
              /\ UNCHANGED <<stage, cut>>
  /\ UNCHANGED <<feedback, wire, statuses>>

(* The pad32 at the end changes a local variable that nothing reads. *)
ParsePadding ==
  /\ stage = "deltas" /\ i >= wire.count
  /\ stage' = "done"
  /\ UNCHANGED <<feedback, wire, len, statuses, i, reported, cut>>

Parse == ReadHeader \/ ReadChunk \/ ChunksRead \/ ReadDelta \/ ParsePadding

ParseNext == (wire = <<>> /\ FeedbackNext /\ UNCHANGED parseVars) \/ Transmit \/ Parse

ParseSpec == ParseInit /\ [][ParseNext]_<<feedback, parseVars>>

-----------------------------------------------------------------------------
(* Properties.                                                             *)

(* A reader takes no byte, one or two for a delta by its status: Parse reads a
   message of Serialize to its padding, and takes every packet's delta from
   where it was written and as wide as it was written. *)
ReaderInStep ==
  stage = "done" /\ step = "done" =>
    /\ ~cut /\ wire.size - len \in 0..3
    /\ Len(reported) = Cardinality(DOMAIN packets)
    /\ \A k \in 1..Len(reported) :
         LET delta == msg.deltas[k]
         IN  reported[k] = [index |-> k - 1, at |-> delta.at,
                            status |-> IF delta.wide THEN LargeOrNegativeDelta ELSE SmallDelta]

(* Nothing behind the message is read: neither a chunk when the count asks for
   more than the message holds, nor a delta when the statuses do. *)
ReadsInMessage == len # 0 => len <= wire.size

(* The statuses that the message holds, its chunks taken together. *)
Announced ==
  LET inside == {k \in 1..Len(wire.chunks) : HeaderSize + 2 * k <= wire.size}
  IN  FlattenSeq([k \in 1..Len(wire.chunks) |->
        IF k \notin inside THEN <<>>
        ELSE IF wire.chunks[k].kind = "run"
             THEN [j \in 1..wire.chunks[k].run |-> wire.chunks[k].status] ELSE wire.chunks[k].symbols])

(* A Parse that is not cut short has reported exactly the packets of the count
   that its chunks announce, in order, each with its own status; one that is
   cut short among the deltas has reported the first of them. *)
AnnouncedReported ==
  stage = "done" =>
    LET wanted == IF wire.count > Len(Announced) THEN Announced ELSE SubSeq(Announced, 1, wire.count)
        indexed == [k \in 1..Len(wanted) |-> <<k - 1, wanted[k]>>]
        all == SelectSeq(indexed, LAMBDA x : x[2] # Reserved)
        made == [k \in 1..Len(reported) |-> <<reported[k].index, reported[k].status>>]
    IN  /\ IsPrefix(made, all)
        /\ ~cut => made = all /\ Len(wanted) = wire.count
=============================================================================
