------------------------- MODULE LostSessionProofs -------------------------
(***************************************************************************)
(* Proofs about LostSession for every ring size and every range of         *)
(* extended sequence numbers.                                              *)
(***************************************************************************)
EXTENDS LostSession, BasicLemmas, FiniteSetTheorems

(* Everything accepted since the last reset lies before nextSeq. *)
GotPast == \A s \in got : s < nextSeq

(* nextSeq is 0 only while the ring is fresh, which is why AddPacket need not
   clear it before the first packet. *)
Unused == nextSeq = 0 => packets = EmptyRing /\ totalLost = 0

(* The accounting part of the inductive invariant: TypeOK alone is not
   inductive, since totalLost stays a uint16_t only because it is exact. *)
CountInv == TypeOK /\ TotalLostExact /\ LoopExit /\ Unused

-----------------------------------------------------------------------------
(* Lemmas about the ring.                                                  *)

(* A sequence number has a slot: extSeq % Size is an index of packets. *)
LEMMA SlotInRing == ASSUME NEW s \in Nat PROVE SlotOf(s) \in Slots
<1>1. Size \in Nat \ {0} /\ s \in Int
  BY SizeAssumption
<1> QED BY <1>1, DivMod DEF Slots, SlotOf

(* What the constants give the arithmetic steps below. *)
LEMMA SeqFacts ==
  /\ Size \in Nat \ {0} /\ Size >= 2 /\ U16Values \in Nat \ {0} /\ Size < U16Values
  /\ \A s \in Seqs : s \in Nat /\ s <= MaxExtSeq /\ s # -1 /\ SlotOf(s) \in Slots
  /\ \A s \in Nat : s <= MaxExtSeq => s \in Seqs
<1>1. Size \in Nat \ {0} /\ Size >= 2 /\ U16Values \in Nat \ {0} /\ Size < U16Values
  BY SizeAssumption
<1>2. \A s \in Seqs : s \in Nat /\ s <= MaxExtSeq /\ s # -1
  BY MaxExtSeqAssumption DEF Seqs
<1>3. \A s \in Nat : s <= MaxExtSeq => s \in Seqs
  BY MaxExtSeqAssumption DEF Seqs
<1> QED BY <1>1, <1>2, <1>3, SlotInRing

(* Every slot content AddPacket writes is a PacketInfo. *)
LEMMA SlotTypes ==
  /\ \A s \in Seqs : Received(s) \in PacketInfo /\ Missing(s) \in PacketInfo
  /\ EmptyRing \in [Slots -> PacketInfo]
  BY DEF Received, Missing, NoPacket, PacketInfo, EmptyRing

(* The counted slots of a ring are finitely many, at most Size, as
   assert(totalLost <= Size) presumes. *)
LEMMA CountedFinite ==
  ASSUME NEW ring
  PROVE  /\ IsFiniteSet(CountedIn(ring))
         /\ Cardinality(CountedIn(ring)) \in 0..Size
<1>1. IsFiniteSet(Slots) /\ Cardinality(Slots) = Size
  BY SizeAssumption, FS_Interval DEF Slots
<1>2. CountedIn(ring) \in SUBSET Slots
  BY DEF CountedIn
<1>3. IsFiniteSet(CountedIn(ring)) /\ Cardinality(CountedIn(ring)) <= Size
  BY <1>1, <1>2, FS_Subset
<1>4. Cardinality(CountedIn(ring)) \in Nat
  BY <1>3, FS_CardinalityType
<1> QED BY <1>3, <1>4, SizeAssumption

(* Marking slot i missing makes it a counted one: the body of the loop. *)
LEMMA CountMissing ==
  ASSUME NEW ring \in [Slots -> PacketInfo], NEW i \in Slots, NEW s \in Seqs
  PROVE  CountedIn([ring EXCEPT ![i] = Missing(s)]) = CountedIn(ring) \cup {i}
<1>1. Missing(s).created_at_time = 0 /\ Missing(s).extSeq # -1
  BY SeqFacts DEF Missing
<1> QED BY <1>1 DEF CountedIn, isCountInTotalLost

(* Storing a packet in slot i makes it an uncounted one. *)
LEMMA CountReceived ==
  ASSUME NEW ring \in [Slots -> PacketInfo], NEW i \in Slots, NEW s \in Seqs
  PROVE  CountedIn([ring EXCEPT ![i] = Received(s)]) = CountedIn(ring) \ {i}
<1>1. Received(s).created_at_time # 0
  BY DEF Received
<1> QED BY <1>1 DEF CountedIn, isCountInTotalLost

(* A fresh ring counts nothing, which is why Reset may zero totalLost. *)
LEMMA CountEmpty == CountedIn(EmptyRing) = {}
BY DEF CountedIn, EmptyRing, NoPacket, isCountInTotalLost

(* A count of at most Size fits the uint16_t. *)
LEMMA CountRange ==
  ASSUME NEW n \in 0..Size
  PROVE  n \in 0..(U16Values - 1) /\ n <= Size
  BY SizeAssumption

(* Decrementing a positive count that is at most Size does not wrap the
   uint16_t around. *)
LEMMA U16Down == ASSUME NEW n \in 1..Size PROVE U16(n - 1) = n - 1
<1>1. n - 1 \in Nat /\ n - 1 < U16Values
  BY SeqFacts
<1>2. U16Values \in Nat \ {0}
  BY SeqFacts
<1> QED BY <1>1, <1>2, ModSmall DEF U16

(* Neither does incrementing one that is below Size. *)
LEMMA U16Up == ASSUME NEW n \in 0..(Size - 1) PROVE U16(n + 1) = n + 1
<1>1. n + 1 \in Nat /\ n + 1 < U16Values
  BY SeqFacts
<1>2. U16Values \in Nat \ {0}
  BY SeqFacts
<1> QED BY <1>1, <1>2, ModSmall DEF U16

(* The decrement that precedes an overwrite leaves the number of counted
   slots other than the overwritten one, and does not wrap around. *)
LEMMA UncountExact ==
  ASSUME TotalLostExact, NEW i \in Slots
  PROVE  Uncount(i) = Cardinality(Counted \ {i})
<1>1. IsFiniteSet(Counted) /\ Cardinality(Counted) \in 0..Size
  BY CountedFinite DEF Counted
<1>2. totalLost = Cardinality(Counted)
  BY DEF TotalLostExact
<1>3. i \in Counted <=> isCountInTotalLost(packets[i])
  BY DEF Counted, CountedIn
<1>4. CASE i \in Counted
  <2>1. Counted # {}
    BY <1>4
  <2>2. Cardinality(Counted) # 0
    BY <1>1, <2>1, FS_EmptySet
  <2>3. Cardinality(Counted) \in 1..Size
    BY <1>1, <2>2, SeqFacts
  <2>4. Cardinality(Counted \ {i}) = Cardinality(Counted) - 1
    BY <1>1, <1>4, FS_RemoveElement
  <2>5. U16(Cardinality(Counted) - 1) = Cardinality(Counted) - 1
    BY <2>3, U16Down
  <2> QED BY <1>2, <1>3, <1>4, <2>4, <2>5 DEF Uncount
<1>5. CASE i \notin Counted
  <2>1. Counted \ {i} = Counted
    BY <1>5
  <2> QED BY <1>2, <1>3, <1>5, <2>1 DEF Uncount
<1> QED BY <1>4, <1>5

(* The counted slots other than one given slot are fewer than Size. *)
LEMMA CountedOthers ==
  ASSUME NEW i \in Slots
  PROVE  /\ IsFiniteSet(Counted \ {i})
         /\ Cardinality(Counted \ {i}) \in 0..(Size - 1)
         /\ Cardinality((Counted \ {i}) \cup {i}) = Cardinality(Counted \ {i}) + 1
<1>1. IsFiniteSet(Slots) /\ Cardinality(Slots) = Size
  BY SeqFacts, FS_Interval DEF Slots
<1>2. IsFiniteSet(Slots \ {i}) /\ Cardinality(Slots \ {i}) = Size - 1
  BY <1>1, FS_RemoveElement
<1>3. Counted \ {i} \in SUBSET (Slots \ {i})
  BY DEF Counted, CountedIn
<1>4. IsFiniteSet(Counted \ {i}) /\ Cardinality(Counted \ {i}) <= Size - 1
  BY <1>2, <1>3, FS_Subset
<1>5. Cardinality(Counted \ {i}) \in Nat
  BY <1>4, FS_CardinalityType
<1>6. Cardinality((Counted \ {i}) \cup {i}) = Cardinality(Counted \ {i}) + 1
  BY <1>4, FS_AddElement
<1> QED BY <1>4, <1>5, <1>6, SeqFacts

-----------------------------------------------------------------------------
(* Accounting: type correctness, the exact count and the two assertions.   *)

(* Init establishes the accounting invariant. *)
LEMMA InitCount == Init => CountInv
<1> SUFFICES ASSUME Init PROVE CountInv
  OBVIOUS
<1>1. 0 \in Seqs /\ 0 \in 0..(MaxExtSeq + 1) /\ 0 \in 0..(U16Values - 1)
  BY SizeAssumption, MaxExtSeqAssumption DEF Seqs
<1>2. TypeOK
  BY <1>1, SlotTypes DEF Init, TypeOK
<1>3. TotalLostExact
  <2>1. Counted = {}
    BY CountEmpty DEF Init, Counted
  <2>2. Cardinality(Counted) = 0
    BY <2>1, FS_EmptySet
  <2> QED BY <2>2, SeqFacts DEF Init, TotalLostExact
<1>4. LoopExit
  BY DEF Init, LoopExit
<1>5. Unused
  BY DEF Init, Unused
<1> QED BY <1>2, <1>3, <1>4, <1>5 DEF CountInv

(* Writing Received in the ring keeps the count exact when totalLost becomes
   Uncount of that slot: StoreFuture and AddOld. *)
LEMMA StoreExact ==
  ASSUME TypeOK, TotalLostExact, NEW s \in Seqs,
         packets' = [packets EXCEPT ![SlotOf(s)] = Received(s)],
         totalLost' = Uncount(SlotOf(s))
  PROVE  /\ packets' \in [Slots -> PacketInfo]
         /\ totalLost' \in 0..(U16Values - 1)
         /\ TotalLostExact'
<1>1. SlotOf(s) \in Slots /\ packets \in [Slots -> PacketInfo]
  BY SeqFacts DEF TypeOK
<1>2. packets' \in [Slots -> PacketInfo]
  BY <1>1, SlotTypes
<1>3. Counted' = Counted \ {SlotOf(s)}
  BY <1>1, CountReceived DEF Counted
<1>4. totalLost' = Cardinality(Counted')
  BY <1>1, <1>3, UncountExact
<1>5. Cardinality(Counted') \in 0..Size
  BY CountedFinite DEF Counted
<1>6. totalLost' \in 0..(U16Values - 1) /\ totalLost' <= Size
  BY <1>4, <1>5, CountRange, Zenon
<1> QED BY <1>2, <1>4, <1>6, Zenon DEF TotalLostExact

(* Every step of AddPacket, and Reset, preserves the accounting invariant. *)
LEMMA NextCount == CountInv /\ [Next]_vars => CountInv'
<1> SUFFICES ASSUME CountInv, [Next]_vars PROVE CountInv'
  OBVIOUS
<1>0. TypeOK /\ TotalLostExact /\ LoopExit /\ Unused
  BY DEF CountInv
<1>a. /\ nextSeq \in Nat /\ nextSeq <= MaxExtSeq + 1 /\ extSeq \in Seqs
      /\ packets \in [Slots -> PacketInfo]
  BY <1>0, MaxExtSeqAssumption DEF TypeOK
<1>b. \A s \in Seqs : s + 1 \in 0..(MaxExtSeq + 1) /\ s + 1 # 0
  BY SeqFacts, MaxExtSeqAssumption
<1>c. Cardinality({}) = 0 /\ Size \in Nat /\ 0 \in 0..(U16Values - 1)
  BY FS_EmptySet, SeqFacts
<1>1. ASSUME NEW s \in Seqs, AddFirst(s) PROVE CountInv'
  <2>1. /\ packets' = [EmptyRing EXCEPT ![SlotOf(s)] = Received(s)]
        /\ totalLost' = 0 /\ nextSeq' = s + 1 /\ got' = {s} /\ base' = s
        /\ pc' = "idle" /\ extSeq' = extSeq
    BY <1>0, <1>1 DEF AddFirst, Cleared, Unused
  <2>2. SlotOf(s) \in Slots
    BY SeqFacts
  <2>3. TypeOK'
    BY <1>a, <1>b, <1>c, <2>1, <2>2, SlotTypes DEF TypeOK
  <2>4. Counted' = {}
    BY <2>1, <2>2, CountReceived, CountEmpty, SlotTypes DEF Counted
  <2>5. TotalLostExact'
    BY <1>c, <2>1, <2>4 DEF TotalLostExact
  <2>6. LoopExit' /\ Unused'
    BY <1>b, <2>1 DEF LoopExit, Unused
  <2> QED BY <2>3, <2>5, <2>6 DEF CountInv
<1>2. ASSUME NEW s \in Seqs, AddFuture(s) PROVE CountInv'
  <2>1. TypeOK'
    BY <1>0, <1>2, Zenon DEF AddFuture, TypeOK, history
  <2>2. TotalLostExact' /\ LoopExit' /\ Unused'
    BY <1>0, <1>2 DEF AddFuture, TotalLostExact, Counted, LoopExit, Unused
  <2> QED BY <2>1, <2>2 DEF CountInv
<1>3. ASSUME FillGap PROVE CountInv'
  <2>1. /\ nextSeq < extSeq /\ nextSeq' = nextSeq + 1
        /\ packets' = [packets EXCEPT ![SlotOf(nextSeq)] = Missing(nextSeq)]
        /\ totalLost' = U16(Uncount(SlotOf(nextSeq)) + 1)
        /\ pc' = "fill" /\ extSeq' = extSeq /\ got' = got /\ base' = base
    BY <1>3 DEF FillGap, GapLeft, Following, history
  <2>2. nextSeq \in Seqs /\ nextSeq + 1 <= extSeq /\ nextSeq + 1 # 0
    BY <1>a, <2>1, MaxExtSeqAssumption DEF Seqs
  <2>3. SlotOf(nextSeq) \in Slots
    BY <2>2, SeqFacts
  <2> DEFINE others == Counted \ {SlotOf(nextSeq)}
  <2>4. Uncount(SlotOf(nextSeq)) = Cardinality(others) /\ Cardinality(others) \in 0..(Size - 1)
    BY <1>0, <2>3, UncountExact, CountedOthers
  <2>5. Counted' = others \cup {SlotOf(nextSeq)}
    BY <1>a, <2>1, <2>2, <2>3, CountMissing DEF Counted
  <2>6. Cardinality(Counted') = Cardinality(others) + 1
    BY <2>3, <2>5, CountedOthers
  <2>7. totalLost' = Cardinality(Counted')
    BY <2>1, <2>4, <2>6, U16Up
  <2>8. Cardinality(Counted') \in 0..Size
    BY CountedFinite DEF Counted
  <2>9. totalLost' \in 0..(U16Values - 1) /\ totalLost' <= Size
    BY <2>7, <2>8, CountRange, Zenon
  <2>10. packets' \in [Slots -> PacketInfo]
    BY <1>a, <2>1, <2>2, <2>3, SlotTypes
  <2>11. TypeOK'
    BY <1>0, <1>b, <2>1, <2>2, <2>9, <2>10, Zenon DEF TypeOK
  <2>12. TotalLostExact' /\ LoopExit' /\ Unused'
    BY <2>1, <2>2, <2>7, <2>9, Zenon DEF TotalLostExact, LoopExit, Unused
  <2> QED BY <2>11, <2>12 DEF CountInv
<1>4. ASSUME StoreFuture PROVE CountInv'
  <2>1. /\ nextSeq = extSeq /\ nextSeq' = extSeq + 1
        /\ packets' = [packets EXCEPT ![SlotOf(extSeq)] = Received(extSeq)]
        /\ totalLost' = Uncount(SlotOf(extSeq))
        /\ pc' = "idle" /\ extSeq' = extSeq /\ got' = got \cup {extSeq} /\ base' = base
    <3>1. nextSeq = extSeq
      BY <1>0, <1>4, <1>a, SeqFacts DEF StoreFuture, GapLeft, LoopExit
    <3> QED BY <1>4, <3>1 DEF StoreFuture
  <2>2. packets' \in [Slots -> PacketInfo] /\ totalLost' \in 0..(U16Values - 1) /\ TotalLostExact'
    BY <1>0, <1>a, <2>1, StoreExact, Zenon
  <2>3. TypeOK'
    BY <1>0, <1>a, <1>b, <2>1, <2>2 DEF TypeOK
  <2>4. LoopExit' /\ Unused'
    BY <1>a, <1>b, <2>1 DEF LoopExit, Unused
  <2> QED BY <2>2, <2>3, <2>4 DEF CountInv
<1>5. ASSUME NEW s \in Seqs, AddOld(s) PROVE CountInv'
  <2>1. /\ nextSeq' = nextSeq /\ nextSeq # 0
        /\ packets' = [packets EXCEPT ![SlotOf(s)] = Received(s)]
        /\ totalLost' = Uncount(SlotOf(s))
        /\ pc' = pc /\ extSeq' = extSeq /\ got' = got \cup {s} /\ base' = base
    BY <1>5 DEF AddOld
  <2>2. packets' \in [Slots -> PacketInfo] /\ totalLost' \in 0..(U16Values - 1) /\ TotalLostExact'
    BY <1>0, <2>1, StoreExact, Zenon
  <2>3. TypeOK'
    BY <1>0, <2>1, <2>2 DEF TypeOK
  <2>4. LoopExit' /\ Unused'
    BY <1>0, <2>1 DEF LoopExit, Unused
  <2> QED BY <2>2, <2>3, <2>4 DEF CountInv
<1>6. CASE Reset
  <2>1. 0 \in Seqs /\ 0 \in 0..(MaxExtSeq + 1)
    BY MaxExtSeqAssumption DEF Seqs
  <2>2. TypeOK'
    BY <1>0, <1>6, <1>c, <2>1, SlotTypes DEF Reset, TypeOK
  <2>3. Counted' = {}
    BY <1>6, CountEmpty DEF Reset, Counted
  <2>4. TotalLostExact' /\ LoopExit' /\ Unused'
    BY <1>6, <1>c, <2>3 DEF Reset, TotalLostExact, LoopExit, Unused
  <2> QED BY <2>2, <2>4 DEF CountInv
<1>7. CASE UNCHANGED vars
  BY <1>0, <1>7, Zenon DEF vars, CountInv, TypeOK, TotalLostExact, Counted, LoopExit, Unused
<1> QED BY <1>1, <1>2, <1>3, <1>4, <1>5, <1>6, <1>7 DEF Next, AddPacket

(* Every variable of RTPLostSession keeps its type through any sequence of
   AddPacket and Reset calls, for every ring size; totalLost never wraps. *)
THEOREM TypeCorrect == Spec => []TypeOK
<1>1. Init => CountInv
  BY InitCount
<1>2. CountInv /\ [Next]_vars => CountInv'
  BY NextCount
<1>3. CountInv => TypeOK
  BY DEF CountInv
<1> QED BY <1>1, <1>2, <1>3, PTL DEF Spec

(* totalLost is always the number of slots isCountInTotalLost holds of, hence
   at most Size: assert(totalLost <= Size) never fires. *)
THEOREM LossCountExact == Spec => []TotalLostExact
<1>1. Init => CountInv
  BY InitCount
<1>2. CountInv /\ [Next]_vars => CountInv'
  BY NextCount
<1>3. CountInv => TotalLostExact
  BY DEF CountInv
<1> QED BY <1>1, <1>2, <1>3, PTL DEF Spec

(* AddPacket's loop never runs past the packet's number, so that at its exit
   assert(nextSeq == extSeq) holds. *)
THEOREM LoopExitExact == Spec => []LoopExit
<1>1. Init => CountInv
  BY InitCount
<1>2. CountInv /\ [Next]_vars => CountInv'
  BY NextCount
<1>3. CountInv => LoopExit
  BY DEF CountInv
<1> QED BY <1>1, <1>2, <1>3, PTL DEF Spec

-----------------------------------------------------------------------------
(* The window: which losses are counted.                                   *)

(* The contents of the ring relative to the arrivals. NoFalseLoss and
   LossesRecent need SlotHome and GotPast to be inductive: a late packet
   clears the loss of its own number only because a slot holds no other. *)
Window == SlotHome /\ GotPast /\ NoFalseLoss /\ LossesRecent /\ NoMissedLoss

(* Different numbers that share a slot are a whole ring apart. *)
LEMMA SlotApart ==
  ASSUME NEW a \in Int, NEW b \in Int, SlotOf(a) = SlotOf(b), a <= b, b - a < Size
  PROVE  a = b
<1>1. Size \in Nat \ {0}
  BY SeqFacts
<1> QED BY <1>1, ModUnique DEF SlotOf

(* The number one ring earlier has the same slot. *)
LEMMA SlotTurn == ASSUME NEW n \in Int PROVE SlotOf(n - Size) = SlotOf(n)
<1>1. Size \in Nat \ {0}
  BY SeqFacts
<1> QED BY <1>1, ModShift DEF SlotOf

(* A ring whose only used slot holds the packet just received, which is what
   AddPacket leaves after starting over, satisfies Window. *)
LEMMA FirstWindow ==
  ASSUME NEW s \in Seqs, packets' = [EmptyRing EXCEPT ![SlotOf(s)] = Received(s)],
         nextSeq' = s + 1, got' = {s}, base' = s
  PROVE  Window'
<1>1. s \in Nat /\ SlotOf(s) \in Slots
  BY SeqFacts
<1>2. \A i \in Slots : packets'[i] = IF i = SlotOf(s) THEN Received(s) ELSE NoPacket
  BY <1>1 DEF EmptyRing
<1>3. Counted' = {}
  BY <1>2 DEF Counted, CountedIn, isCountInTotalLost, Received, NoPacket
<1>4. SlotHome'
  <2> SUFFICES ASSUME NEW i \in Slots, packets'[i].extSeq # -1
               PROVE  SlotOf(packets'[i].extSeq) = i /\ packets'[i].extSeq < s + 1
    BY DEF SlotHome
  <2>1. i = SlotOf(s) /\ packets'[i].extSeq = s
    BY <1>2 DEF Received, NoPacket
  <2> QED BY <1>1, <2>1
<1>5. GotPast'
  BY <1>1 DEF GotPast
<1>6. NoMissedLoss'
  <2>1. \A n \in base'..(nextSeq' - 1) : n = s
    BY <1>1
  <2>2. s \in got'
    OBVIOUS
  <2> QED BY <2>1, <2>2, Zenon DEF NoMissedLoss
<1> QED BY <1>3, <1>4, <1>5, <1>6, Zenon DEF Window, NoFalseLoss, LossesRecent

(* Moving nextSeq on by one, with its slot overwritten by either kind of
   entry for it, keeps the other slots' part of Window. *)
LEMMA AdvanceWindow ==
  ASSUME CountInv, Window, nextSeq \in Seqs, nextSeq' = nextSeq + 1, base' = base,
         NEW p \in {Missing(nextSeq), Received(nextSeq)},
         packets' = [packets EXCEPT ![SlotOf(nextSeq)] = p],
         \/ p = Missing(nextSeq) /\ got' = got
         \/ p = Received(nextSeq) /\ got' = got \cup {nextSeq}
  PROVE  Window'
<1>1. /\ nextSeq \in Nat /\ SlotOf(nextSeq) \in Slots /\ Size \in Nat /\ base \in Nat
      /\ packets \in [Slots -> PacketInfo]
  BY SeqFacts DEF CountInv, TypeOK
<1>2. /\ p.extSeq = nextSeq
      /\ isCountInTotalLost(p) <=> p = Missing(nextSeq)
  BY <1>1 DEF Missing, Received, isCountInTotalLost
<1>3. \A i \in Slots : packets'[i] = IF i = SlotOf(nextSeq) THEN p ELSE packets[i]
  BY <1>1
<1>4. \A i \in Slots : packets[i].extSeq \in Int
  BY <1>1, MaxExtSeqAssumption DEF PacketInfo, Seqs
<1>5. SlotHome'
  <2> SUFFICES ASSUME NEW i \in Slots, packets'[i].extSeq # -1
               PROVE  SlotOf(packets'[i].extSeq) = i /\ packets'[i].extSeq < nextSeq + 1
    BY DEF SlotHome
  <2>1. CASE i = SlotOf(nextSeq)
    BY <1>1, <1>2, <1>3, <2>1
  <2>2. CASE i # SlotOf(nextSeq)
    <3>1. packets'[i] = packets[i] /\ SlotOf(packets[i].extSeq) = i /\ packets[i].extSeq < nextSeq
      BY <1>3, <2>2 DEF Window, SlotHome
    <3> QED BY <1>1, <1>4, <3>1
  <2> QED BY <2>1, <2>2
<1>6. GotPast'
  <2>1. \A s \in got : s \in Int /\ s < nextSeq
    BY SeqFacts DEF Window, GotPast, CountInv, TypeOK
  <2>2. got' \subseteq got \cup {nextSeq}
    OBVIOUS
  <2> QED BY <1>1, <2>1, <2>2 DEF GotPast
<1>7. NoFalseLoss' /\ LossesRecent'
  <2> SUFFICES ASSUME NEW i \in Slots, isCountInTotalLost(packets'[i])
               PROVE  packets'[i].extSeq \notin got' /\ packets'[i].extSeq >= nextSeq' - Size
    BY Zenon DEF NoFalseLoss, LossesRecent, Counted, CountedIn
  <2>1. CASE i = SlotOf(nextSeq)
    <3>1. p = Missing(nextSeq) /\ packets'[i].extSeq = nextSeq
      BY <1>2, <1>3, <2>1
    <3>2. Missing(nextSeq) # Received(nextSeq)
      BY DEF Missing, Received
    <3>3. nextSeq \notin got
      BY <1>1 DEF Window, GotPast
    <3>4. nextSeq >= nextSeq' - Size
      BY SeqFacts, <1>1
    <3>5. nextSeq \notin got'
      BY <3>1, <3>2, <3>3
    <3> QED BY <3>1, <3>4, <3>5, Zenon
  <2>2. CASE i # SlotOf(nextSeq)
    <3>1. packets'[i] = packets[i] /\ i \in Counted
      BY <1>3, <2>2 DEF Counted, CountedIn
    <3> DEFINE x == packets[i].extSeq
    <3>2. x \notin got /\ x >= nextSeq - Size /\ SlotOf(x) = i /\ x < nextSeq /\ x \in Int
      BY <1>4, <3>1 DEF Window, NoFalseLoss, LossesRecent, SlotHome, Counted, CountedIn,
                        isCountInTotalLost
    <3>3. x # nextSeq - Size
      BY <1>1, <2>2, <3>2, SlotTurn
    <3> HIDE DEF x
    <3>4. x >= nextSeq' - Size /\ x # nextSeq
      BY <1>1, <3>2, <3>3
    <3>5. x \notin got'
      BY <3>2, <3>4
    <3> QED BY <3>1, <3>4, <3>5, Zenon DEF x
  <2> QED BY <2>1, <2>2
<1>8. NoMissedLoss'
  <2> SUFFICES ASSUME NEW s \in base'..(nextSeq' - 1), s >= nextSeq' - Size, s \notin got'
               PROVE  MarksLost(packets'[SlotOf(s)], s) \/ Displaces(packets'[SlotOf(s)], s)
    BY Zenon DEF NoMissedLoss
  <2>1. s \in Nat /\ s <= nextSeq /\ base <= s
    BY <1>1
  <2>2. CASE s = nextSeq
    <3>1. p = Missing(nextSeq) /\ packets'[SlotOf(s)] = p
      BY <1>1, <1>3, <2>2
    <3> QED BY <1>2, <2>2, <3>1 DEF MarksLost
  <2>3. CASE s # nextSeq
    <3>1. s \in base..(nextSeq - 1) /\ s >= nextSeq - Size /\ nextSeq - s < Size
      BY <1>1, <2>1, <2>3
    <3>2. SlotOf(s) # SlotOf(nextSeq) /\ SlotOf(s) \in Slots
      BY <1>1, <2>1, <2>3, <3>1, SlotApart, SlotInRing
    <3>3. packets'[SlotOf(s)] = packets[SlotOf(s)]
      BY <1>3, <3>2
    <3>4. s \notin got
      OBVIOUS
    <3> QED BY <3>1, <3>3, <3>4 DEF Window, NoMissedLoss
  <2> QED BY <2>2, <2>3
<1> QED BY <1>5, <1>6, <1>7, <1>8 DEF Window

(* A packet that is not ahead of nextSeq overwrites its slot: what Window says
   of the other slots stays, and a loss of its own number is cleared. *)
LEMMA OldWindow ==
  ASSUME CountInv, Window, NEW s \in Seqs, s < nextSeq,
         nextSeq' = nextSeq, base' = base, got' = got \cup {s},
         packets' = [packets EXCEPT ![SlotOf(s)] = Received(s)]
  PROVE  Window'
<1>1. /\ nextSeq \in Nat /\ s \in Nat /\ SlotOf(s) \in Slots /\ Size \in Nat /\ base \in Nat
      /\ packets \in [Slots -> PacketInfo]
  BY SeqFacts, MaxExtSeqAssumption DEF CountInv, TypeOK
<1>2. \A i \in Slots : packets'[i] = IF i = SlotOf(s) THEN Received(s) ELSE packets[i]
  BY <1>1
<1>3. Received(s).extSeq = s /\ ~isCountInTotalLost(Received(s))
  BY DEF Received, isCountInTotalLost
<1>4. SlotHome'
  <2> SUFFICES ASSUME NEW i \in Slots, packets'[i].extSeq # -1
               PROVE  SlotOf(packets'[i].extSeq) = i /\ packets'[i].extSeq < nextSeq
    BY DEF SlotHome
  <2> QED BY <1>2, <1>3 DEF Window, SlotHome
<1>5. GotPast'
  BY DEF Window, GotPast
<1>6. NoFalseLoss' /\ LossesRecent'
  <2> SUFFICES ASSUME NEW i \in Slots, isCountInTotalLost(packets'[i])
               PROVE  packets'[i].extSeq \notin got' /\ packets'[i].extSeq >= nextSeq' - Size
    BY Zenon DEF NoFalseLoss, LossesRecent, Counted, CountedIn
  <2>1. i # SlotOf(s) /\ packets'[i] = packets[i] /\ i \in Counted
    BY <1>2, <1>3 DEF Counted, CountedIn
  <2>2. SlotOf(packets[i].extSeq) = i
    BY <2>1 DEF Window, SlotHome, Counted, CountedIn, isCountInTotalLost
  <2>3. packets[i].extSeq \notin got /\ packets[i].extSeq # s
    BY <2>1, <2>2 DEF Window, NoFalseLoss
  <2>4. packets[i].extSeq >= nextSeq - Size
    BY <2>1 DEF Window, LossesRecent
  <2> QED BY <2>1, <2>3, <2>4
<1>7. NoMissedLoss'
  <2> SUFFICES ASSUME NEW n \in base'..(nextSeq' - 1), n >= nextSeq' - Size, n \notin got'
               PROVE  MarksLost(packets'[SlotOf(n)], n) \/ Displaces(packets'[SlotOf(n)], n)
    BY Zenon DEF NoMissedLoss
  <2>1. n \in Nat /\ n < nextSeq /\ n >= nextSeq - Size /\ n # s /\ n \notin got
    BY <1>1
  <2>2. SlotOf(n) \in Slots
    BY <2>1, SlotInRing
  <2>3. CASE SlotOf(n) = SlotOf(s)
    <3>1. s <= n - Size
      <4>1. CASE s < n
        <5>1. ~(n - s < Size)
          BY <1>1, <2>1, <2>3, <4>1, SlotApart
        <5> QED BY <1>1, <2>1, <5>1
      <4>2. CASE n < s
        <5>1. s - n < Size
          BY <1>1, <2>1
        <5> QED BY <1>1, <2>1, <2>3, <4>2, <5>1, SlotApart
      <4> QED BY <1>1, <2>1, <4>1, <4>2
    <3>2. packets'[SlotOf(n)] = Received(s)
      BY <1>2, <2>2, <2>3
    <3>3. Displaces(Received(s), n)
      BY <1>1, <3>1 DEF Displaces, Received
    <3> QED BY <3>2, <3>3
  <2>4. CASE SlotOf(n) # SlotOf(s)
    <3>1. packets'[SlotOf(n)] = packets[SlotOf(n)]
      BY <1>2, <2>2, <2>4
    <3>2. n \in base..(nextSeq - 1)
      OBVIOUS
    <3> QED BY <2>1, <3>1, <3>2, Zenon DEF Window, NoMissedLoss
  <2> QED BY <2>3, <2>4
<1> QED BY <1>4, <1>5, <1>6, <1>7 DEF Window

(* The ring as Init and Reset leave it. *)
Fresh == packets = EmptyRing /\ nextSeq = 0 /\ got = {} /\ base = 0

(* A ring nothing has been stored in satisfies Window: Init and Reset. *)
LEMMA EmptyWindow == Fresh => Window
<1> SUFFICES ASSUME packets = EmptyRing, nextSeq = 0, got = {}, base = 0
             PROVE  Window
  BY DEF Fresh
<1>1. \A i \in Slots : packets[i] = NoPacket
  BY DEF EmptyRing
<1>2. SlotHome
  BY <1>1 DEF SlotHome, NoPacket
<1>3. Counted = {}
  BY CountEmpty DEF Counted
<1>4. NoMissedLoss
  <2>1. base..(nextSeq - 1) = {}
    OBVIOUS
  <2> QED BY <2>1, Zenon DEF NoMissedLoss
<1> QED BY <1>2, <1>3, <1>4, Zenon DEF Window, GotPast, NoFalseLoss, LossesRecent

(* Every step of AddPacket, and Reset, preserves Window. *)
LEMMA NextWindow == CountInv /\ Window /\ [Next]_vars => Window'
<1> SUFFICES ASSUME CountInv, Window, [Next]_vars PROVE Window'
  OBVIOUS
<1>a. /\ nextSeq \in Nat /\ extSeq \in Seqs
  BY MaxExtSeqAssumption DEF CountInv, TypeOK
<1>1. ASSUME NEW s \in Seqs, AddFirst(s) PROVE Window'
  <2>1. /\ packets' = [EmptyRing EXCEPT ![SlotOf(s)] = Received(s)]
        /\ nextSeq' = s + 1 /\ got' = {s} /\ base' = s
    BY <1>1 DEF AddFirst, Cleared, CountInv, Unused
  <2> QED BY <2>1, FirstWindow
<1>2. ASSUME NEW s \in Seqs, AddFuture(s) PROVE Window'
  BY <1>2, Zenon DEF AddFuture, history, Window, SlotHome, GotPast, NoFalseLoss, LossesRecent,
                     NoMissedLoss, Counted
<1>3. ASSUME FillGap PROVE Window'
  <2>1. /\ nextSeq' = nextSeq + 1 /\ base' = base /\ got' = got /\ nextSeq < extSeq
        /\ packets' = [packets EXCEPT ![SlotOf(nextSeq)] = Missing(nextSeq)]
    BY <1>3 DEF FillGap, GapLeft, Following, history
  <2>2. nextSeq \in Seqs
    BY <1>a, <2>1, MaxExtSeqAssumption DEF Seqs
  <2> QED BY <2>1, <2>2, AdvanceWindow, Zenon
<1>4. ASSUME StoreFuture PROVE Window'
  <2>1. nextSeq = extSeq
    BY <1>4, <1>a, SeqFacts DEF StoreFuture, GapLeft, CountInv, LoopExit
  <2>2. /\ nextSeq' = nextSeq + 1 /\ base' = base /\ got' = got \cup {nextSeq}
        /\ packets' = [packets EXCEPT ![SlotOf(nextSeq)] = Received(nextSeq)]
    BY <1>4, <2>1 DEF StoreFuture
  <2> QED BY <1>a, <2>1, <2>2, AdvanceWindow, Zenon
<1>5. ASSUME NEW s \in Seqs, AddOld(s) PROVE Window'
  <2>1. /\ s < nextSeq /\ nextSeq' = nextSeq /\ base' = base /\ got' = got \cup {s}
        /\ packets' = [packets EXCEPT ![SlotOf(s)] = Received(s)]
    BY <1>5 DEF AddOld
  <2> QED BY <2>1, OldWindow
<1>6. CASE Reset
  <2>1. Fresh'
    BY <1>6 DEF Reset, Fresh
  <2> QED BY <2>1, EmptyWindow, PTL
<1>7. CASE UNCHANGED vars
  BY <1>7, Zenon DEF vars, Window, SlotHome, GotPast, NoFalseLoss, LossesRecent,
                     NoMissedLoss, Counted
<1> QED BY <1>1, <1>2, <1>3, <1>4, <1>5, <1>6, <1>7 DEF Next, AddPacket

(* The two invariants together are inductive: the window's conditions hold in
   every state, inside AddPacket's loop included. *)
THEOREM WindowInvariant == Spec => [](CountInv /\ Window)
<1>1. Init => CountInv /\ Window
  BY InitCount, EmptyWindow DEF Init, Fresh
<1>2. (CountInv /\ Window) /\ [Next]_vars => (CountInv /\ Window)'
  BY NextCount, NextWindow
<1> QED BY <1>1, <1>2, PTL DEF Spec

(* Whatever the order, duplication or gaps of the arrivals AddPacket sees, no
   number that has arrived is counted in totalLost. *)
THEOREM ReceivedNeverLost == Spec => []NoFalseLoss
<1>1. CountInv /\ Window => NoFalseLoss
  BY DEF Window
<1> QED BY <1>1, WindowInvariant, PTL

(* AddPacket lets losses age out: each counted one lies in the last Size
   numbers. *)
THEOREM LossesInWindow == Spec => []LossesRecent
<1>1. CountInv /\ Window => LossesRecent
  BY DEF Window
<1> QED BY <1>1, WindowInvariant, PTL

(* AddPacket overlooks no loss: every missing number of the window is counted,
   unless a packet a ring older took its slot. *)
THEOREM LossesComplete == Spec => []NoMissedLoss
<1>1. CountInv /\ Window => NoMissedLoss
  BY DEF Window
<1> QED BY <1>1, WindowInvariant, PTL

=============================================================================
