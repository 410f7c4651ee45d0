---------------------------- MODULE LostSession ----------------------------
(***************************************************************************)
(* RTPIncomingSession::RTPLostSession: the receiver-side loss accounting.  *)
(*                                                                         *)
(* A ring of Size PacketInfo slots, indexed by extended sequence number    *)
(* modulo Size, remembers which of the last sequence numbers have arrived. *)
(* totalLost is maintained incrementally; the source asserts it never      *)
(* exceeds Size.  AddPacket runs to completion in one call; its while loop *)
(* is a step per iteration here (pc = "fill"), so that the two assertions  *)
(* of the source can be stated at the points where they stand.             *)
(*                                                                         *)
(* created_at_time is only ever tested against zero ("flag exist"), so 1   *)
(* stands for every other time; loss_at_time, sent_at_time and retry are   *)
(* read by isLost alone, which nothing calls.                              *)
(***************************************************************************)
EXTENDS Integers, FiniteSets

CONSTANTS
  Size,       \* number of slots; 256 in the source
  U16Values,  \* number of values of a uint16_t: 65536
  MaxExtSeq   \* largest ExtSeqNum() of a packet; 65535, since SetSeqCycle has no caller

ASSUME SizeAssumption == Size \in Nat /\ U16Values \in Nat /\ 2 <= Size /\ Size < U16Values
ASSUME MaxExtSeqAssumption == MaxExtSeq \in Nat

VARIABLES
  packets,    \* the ring
  totalLost,  \* uint16_t
  nextSeq,    \* one past the newest extended sequence number, 0 when unused
  pc,         \* "idle" between calls, "fill" inside AddPacket's loop
  extSeq,     \* the argument of the AddPacket call in progress
  got,        \* history: sequence numbers accepted since the last reset
  base        \* history: the first of them

vars == <<packets, totalLost, nextSeq, pc, extSeq, got, base>>
history == <<got, base>>

-----------------------------------------------------------------------------
(* Slots.                                                                  *)

Slots == 0..(Size - 1)
Seqs == 0..MaxExtSeq
SlotOf(s) == s % Size

PacketInfo == [extSeq : Seqs \cup {-1}, created_at_time : {0, 1}]
NoPacket == [extSeq |-> -1, created_at_time |-> 0]
ReceivedUnstamped(s) == [extSeq |-> s, created_at_time |-> 0]
Received(s) == [extSeq |-> s, created_at_time |-> 1]
MissingUnmarked(s) == NoPacket
Missing(s) == [extSeq |-> s, created_at_time |-> 0]
EmptyRing == [i \in Slots |-> NoPacket]

isCountInTotalLost(pkt) == pkt.created_at_time = 0 /\ pkt.extSeq # -1

(* uint16_t arithmetic on totalLost. *)
U16(n) == n % U16Values

(* Faulty variants, one per property, that the model checker must reject. *)
UncountForgotten(i) == totalLost

(* totalLost once slot i is about to be overwritten ("cover an lost packet"). *)
Uncount(i) == IF isCountInTotalLost(packets[i]) THEN U16(totalLost - 1) ELSE totalLost

-----------------------------------------------------------------------------
(* Operations.                                                             *)

Init ==
  /\ packets = EmptyRing
  /\ totalLost = 0
  /\ nextSeq = 0
  /\ pc = "idle"
  /\ extSeq = 0
  /\ got = {}
  /\ base = 0

Reset ==
  /\ pc = "idle"
  /\ packets' = EmptyRing
  /\ totalLost' = 0
  /\ nextSeq' = 0
  /\ got' = {}
  /\ base' = 0
  /\ UNCHANGED <<pc, extSeq>>

(* The jump that makes AddPacket start over with an empty ring. *)
FarAhead(s) == s > nextSeq /\ s - nextSeq >= Size - 1

(* The ring AddPacket goes on with. *)
NotCleared(s) == packets
Cleared(s) == IF FarAhead(s) THEN EmptyRing ELSE packets

(* AddPacket on an unused ring, or after starting over. *)
AddFirst(s) ==
  /\ pc = "idle"
  /\ FarAhead(s) \/ nextSeq = 0
  /\ packets' = [Cleared(s) EXCEPT ![SlotOf(s)] = Received(s)]
  /\ totalLost' = IF FarAhead(s) THEN 0 ELSE totalLost
  /\ nextSeq' = s + 1
  /\ got' = {s}
  /\ base' = s
  /\ UNCHANGED <<pc, extSeq>>

(* AddPacket on a future packet: enter the loop that fills the gap. *)
AddFuture(s) ==
  /\ pc = "idle"
  /\ ~FarAhead(s) /\ nextSeq # 0 /\ nextSeq <= s
  /\ pc' = "fill"
  /\ extSeq' = s
  /\ UNCHANGED <<packets, totalLost, nextSeq, history>>

(* The loop's condition and its increment. *)
GapLeftInclusive == nextSeq <= extSeq
GapLeft == nextSeq < extSeq
StuckAt(n) == n
Following(n) == n + 1

(* One iteration of the loop: nextSeq was skipped by the sender or is late. *)
FillGap ==
  /\ pc = "fill"
  /\ GapLeft
  /\ packets' = [packets EXCEPT ![SlotOf(nextSeq)] = Missing(nextSeq)]
  /\ totalLost' = U16(Uncount(SlotOf(nextSeq)) + 1)
  /\ nextSeq' = Following(nextSeq)
  /\ UNCHANGED <<pc, extSeq, history>>

(* After the loop: store the packet itself and return. *)
StoreFuture ==
  /\ pc = "fill"
  /\ ~GapLeft
  /\ packets' = [packets EXCEPT ![SlotOf(extSeq)] = Received(extSeq)]
  /\ totalLost' = Uncount(SlotOf(extSeq))
  /\ nextSeq' = nextSeq + 1
  /\ pc' = "idle"
  /\ got' = got \cup {extSeq}
  /\ UNCHANGED <<extSeq, base>>

(* AddPacket on an old packet: late, duplicated, or after a sender wrap. *)
AddOld(s) ==
  /\ pc = "idle"
  /\ ~FarAhead(s) /\ nextSeq # 0 /\ s < nextSeq
  /\ packets' = [packets EXCEPT ![SlotOf(s)] = Received(s)]
  /\ totalLost' = Uncount(SlotOf(s))
  /\ got' = got \cup {s}
  /\ UNCHANGED <<nextSeq, pc, extSeq, base>>

AddPacket(s) == AddFirst(s) \/ AddFuture(s) \/ AddOld(s)

Next ==
  \/ \E s \in Seqs : AddPacket(s)
  \/ FillGap
  \/ StoreFuture
  \/ Reset

(* A call that has started runs on: it is straight-line code in one thread. *)
Fairness == WF_vars(FillGap) /\ WF_vars(StoreFuture)

Spec == Init /\ [][Next]_vars /\ Fairness

-----------------------------------------------------------------------------
(* Properties.                                                             *)

(* Every variable keeps its declared type, and nextSeq is never more than one
   past the largest number a packet can have. *)
TypeOK ==
  /\ packets \in [Slots -> PacketInfo]
  /\ totalLost \in 0..(U16Values - 1)
  /\ nextSeq \in 0..(MaxExtSeq + 1)
  /\ pc \in {"idle", "fill"}
  /\ extSeq \in Seqs
  /\ got \subseteq Seqs
  /\ base \in Seqs

(* The slots isCountInTotalLost holds of. *)
CountedIn(ring) == {i \in Slots : isCountInTotalLost(ring[i])}
Counted == CountedIn(packets)

(* The incrementally maintained totalLost is exactly the number of slots that
   isCountInTotalLost holds of, so assert(totalLost <= Size) never fires and
   the uint16_t never wraps, in every step of every AddPacket call. *)
TotalLostExact == totalLost = Cardinality(Counted) /\ totalLost <= Size

(* When AddPacket's while loop exits, nextSeq equals the packet's extended
   sequence number: assert(nextSeq == extSeq) never fires. *)
LoopExit == pc = "fill" => nextSeq <= extSeq

(* A slot only ever describes a sequence number that belongs in it and that
   AddPacket has already passed. *)
SlotHome ==
  \A i \in Slots : packets[i].extSeq # -1 =>
    SlotOf(packets[i].extSeq) = i /\ packets[i].extSeq < nextSeq

(* No sequence number that has arrived since the last reset is counted as
   lost, however packets were reordered or duplicated. *)
NoFalseLoss == \A i \in Counted : packets[i].extSeq \notin got

(* Losses age out: what is counted lies within the last Size numbers. *)
LossesRecent == \A i \in Counted : packets[i].extSeq >= nextSeq - Size

(* A slot's packet that says number s is lost, and one that arrived a ring or
   more late for the slot's newest number s. *)
MarksLost(pkt, s) == isCountInTotalLost(pkt) /\ pkt.extSeq = s
Displaces(pkt, s) == pkt.created_at_time # 0 /\ pkt.extSeq # -1 /\ pkt.extSeq <= s - Size

(* No loss is overlooked: a number of the window that has not arrived is
   counted, unless a packet a whole ring or more older came in late and took
   its slot, in which case AddPacket forgets the loss. *)
NoMissedLoss ==
  \A s \in base..(nextSeq - 1) :
    s >= nextSeq - Size /\ s \notin got =>
      MarksLost(packets[SlotOf(s)], s) \/ Displaces(packets[SlotOf(s)], s)

(* AddPacket's loop terminates: every call returns. *)
CallReturns == pc = "fill" ~> pc = "idle"

=============================================================================
