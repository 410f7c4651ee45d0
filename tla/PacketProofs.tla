---------------------------- MODULE PacketProofs ----------------------------
(***************************************************************************)
(* Proofs about the packets of a media session: RtpParse for packets of    *)
(* every size and extension blocks of every length and content; TransportCC*)
(* and TccParse for feedback messages about every number of packets and for*)
(* all units and widths that are to each other as the code's are.          *)
(***************************************************************************)
EXTENDS RtpParse, TccParse, BasicLemmas, FiniteSetTheorems

-----------------------------------------------------------------------------
(* RtpParse: the inductive invariant.                                      *)


(* The walk is on an extension block it has checked to be there, and stands at
   or behind its start. *)
Walking ==
  /\ packet \in Packets
  /\ extensions_size_ \in Nat
  /\ pc = "walk" => packet.profile # "other"

(* Every extension is recorded with data behind the block's first header, and
   none is unless the block holds a word. *)
Recorded ==
  \A id \in DOMAIN exts_ : exts_[id].data = HeaderLength /\ Capacity >= 4

(* The payload is set by the last statement of Parse and by no other. *)
PayloadSet ==
  /\ payloadSize_ # Unset =>
       /\ pc = "done" /\ Fits
       /\ payloadOffset_ = PayloadStart
       /\ payloadSize_ = packet.size - PayloadStart - PaddingSize
  /\ pc = "done" /\ result = "true" => payloadSize_ # Unset \/ ~HeaderFits

ParseInv == Walking /\ Recorded /\ PayloadSet

-----------------------------------------------------------------------------
(* The packet's fields.                                                    *)

(* The sizes and flags Parse takes from a packet are numbers of their ranges. *)
LEMMA PacketFacts ==
  ASSUME packet \in Packets
  PROVE  /\ packet.size \in Nat
         /\ Capacity \in Nat /\ Capacity % 4 = 0
         /\ HeaderLength \in {1, 2} /\ PaddingSize \in Nat
         /\ CSRCEnd \in Nat /\ CSRCEnd >= kFixedHeaderSize
         /\ PayloadStart \in Nat /\ PayloadStart >= CSRCEnd
<1>1. /\ packet.size \in Nat \ {0} /\ packet.cc \in 0..15
      /\ packet.padding \in -1..255
      /\ packet.profile \in {"oneByte", "twoByte", "other"}
      /\ packet.block \in Seq(0..255) /\ Len(packet.block) % 4 = 0
  BY PacketsAssumption
<1>2. Capacity \in Nat /\ Capacity % 4 = 0
  BY <1>1, SequenceFacts DEF Capacity
<1>3. HeaderLength \in {1, 2}
  BY DEF HeaderLength
<1>4. PaddingSize \in Nat
  <2>1. packet.padding \in -1..255
    BY <1>1
  <2>2. PaddingSize \in 0..255
    BY ONLY <2>1 DEF PaddingSize
  <2> QED BY <2>2
<1>5. CSRCEnd \in Nat /\ CSRCEnd >= kFixedHeaderSize
  <2>1. packet.cc \in 0..15
    BY <1>1
  <2> QED BY ONLY <2>1 DEF CSRCEnd, kFixedHeaderSize
<1>6. PayloadStart \in Nat /\ PayloadStart >= CSRCEnd
  BY <1>2, <1>5 DEF PayloadStart
<1> QED BY <1>1, <1>2, <1>3, <1>4, <1>5, <1>6

(* Where an iteration begins there are at least an element's header and a byte,
   so that the block has a word, and the element's length is a number. *)
LEMMA ElementFacts ==
  ASSUME packet \in Packets, NEW n \in Nat, More(n)
  PROVE  /\ Capacity >= 4 /\ n < Capacity /\ n + HeaderLength < Capacity
         /\ Byte(n) \in 0..255
         /\ ElementLength(n) \in Nat
<1>1. Capacity \in Nat /\ Capacity % 4 = 0 /\ HeaderLength \in {1, 2} /\ n + HeaderLength < Capacity
  BY PacketFacts DEF More
<1>2. \A j \in 0..(Capacity - 1) : Byte(j) \in 0..255
  <2>1. packet.block \in Seq(0..255)
    BY PacketsAssumption
  <2>2. \A k \in 1..Len(packet.block) : packet.block[k] \in 0..255
    BY <2>1, SequenceFacts
  <2>3. \A j \in 0..(Capacity - 1) : j + 1 \in 1..Capacity
    BY <1>1
  <2>4. Capacity = Len(packet.block)
    BY DEF Capacity
  <2> QED BY <2>2, <2>3, <2>4, Zenon DEF Byte
<1>3. Byte(n) \in 0..255 /\ Byte(n + 1) \in 0..255
  BY <1>1, <1>2
<1> QED BY <1>1, <1>3 DEF ElementLength

-----------------------------------------------------------------------------

(* The invariant holds when Parse is called. *)
LEMMA ParseInvInit == Init => ParseInv
<1> SUFFICES ASSUME Init PROVE ParseInv
  OBVIOUS
<1>1. DOMAIN exts_ = {}
  BY DEF Init
<1> QED BY <1>1 DEF Init, ParseInv, Walking, Recorded, PayloadSet, Unset

(* Every iteration of the walk, and every return, keeps it. *)
LEMMA ParseInvStep == ParseInv /\ [Next]_vars => ParseInv'
<1> SUFFICES ASSUME ParseInv, [Next]_vars PROVE ParseInv'
  OBVIOUS
<1> packet \in Packets /\ extensions_size_ \in Nat
  BY DEF ParseInv, Walking
<1> USE DEF ParseInv, Walking, Recorded, PayloadSet, Capacity, HeaderLength, PaddingSize, CSRCEnd,
            PayloadStart, Fits, HeaderFits, Unset, Return, kFixedHeaderSize
<1>1. CASE RejectHeader
  BY <1>1, PacketFacts DEF RejectHeader
<1>2. CASE RejectExtensions
  BY <1>2 DEF RejectExtensions
<1>3. CASE AcceptHeader
  BY <1>3 DEF AcceptHeader
<1>4. CASE SkipPadding
  BY <1>4 DEF SkipPadding
<1>5. CASE ReadElement
  BY <1>5, ElementFacts DEF ReadElement, Record, Set, DataPointer, Advance
<1>6. CASE FinishWalk
  BY <1>6 DEF FinishWalk
<1>7. CASE Finish
  <2>1. /\ packet' = packet /\ extensions_size_' = extensions_size_ /\ exts_' = exts_
        /\ pc = "end" /\ pc' = "done"
    BY <1>7 DEF Finish
  <2>2. Walking' /\ Recorded'
    BY <2>1
  <2>3. payloadSize_ = -1
    BY <2>1
  <2>4. CASE Fits
    <3>1. /\ payloadOffset_' = PayloadStart /\ PayloadStart' = PayloadStart
          /\ payloadSize_' = packet.size - PayloadStart - PaddingSize
          /\ PaddingSize' = PaddingSize /\ Fits'
      BY <1>7, <2>1, <2>4 DEF Finish
    <3>2. packet.size \in Nat /\ PayloadStart \in Nat /\ PaddingSize \in Nat
      BY PacketFacts
    <3>3. PayloadStart + PaddingSize <= packet.size
      BY <2>4
    <3> HIDE DEF PayloadStart, PaddingSize
    <3>4. payloadSize_' # -1
      BY <3>1, <3>2, <3>3
    <3> QED BY <2>1, <2>2, <3>1, <3>4
  <2>5. CASE ~Fits
    <3>1. payloadSize_' = -1 /\ result' = "false"
      BY <1>7, <2>3, <2>5 DEF Finish
    <3> QED BY <2>2, <3>1
  <2> QED BY <2>4, <2>5
<1>8. CASE UNCHANGED vars
  BY <1>8 DEF vars
<1> QED BY <1>1, <1>2, <1>3, <1>4, <1>5, <1>6, <1>7, <1>8 DEF Next, Returned

(* The invariant holds throughout Parse. *)
LEMMA ParseInvariant == Spec => []ParseInv
  BY ParseInvInit, ParseInvStep, PTL DEF Spec

(* Parse's walk reads no byte outside the extension block, whatever the lengths
   in it say; nor does GetTransportCCNum, although Parse records an element
   before it has checked it. *)
THEOREM ExtensionsStayInBounds == Spec => []ExtensionsInBounds
<1>1. ParseInv => WalkInBounds
  <2> SUFFICES ASSUME ParseInv, pc = "walk", More(extensions_size_)
               PROVE  /\ extensions_size_ < Capacity
                      /\ \A n \in BytesRead(extensions_size_) : n \in 0..(Capacity - 1)
    BY DEF WalkInBounds
  <2>1. packet \in Packets /\ extensions_size_ \in Nat
    BY DEF ParseInv, Walking
  <2> QED BY <2>1, PacketFacts, ElementFacts DEF BytesRead, HeaderLength
<1>2. ParseInv => TransportCCInBounds
  BY PacketFacts DEF ParseInv, Walking, Recorded, TransportCCInBounds, TransportCCBytes
<1> QED BY <1>1, <1>2, ParseInvariant, PTL DEF ExtensionsInBounds

(* Header, payload and padding make up the packet exactly once Parse has set
   them, and a true result without a payload means a bad fixed header. *)
THEOREM PayloadAlwaysExact == Spec => []PayloadExact
<1>1. ParseInv => PayloadExact
  <2> SUFFICES ASSUME ParseInv PROVE PayloadExact
    OBVIOUS
  <2>1. packet \in Packets /\ PayloadSet
    BY DEF ParseInv, Walking
  <2>2. /\ packet.size \in Nat /\ PaddingSize \in Nat
        /\ CSRCEnd \in Nat /\ PayloadStart \in Nat /\ Capacity \in Nat
    BY <2>1, PacketFacts
  <2>3. PayloadStart >= CSRCEnd + (IF packet.hasExt THEN 4 + Capacity ELSE 0)
    BY <2>2 DEF PayloadStart
  <2>4. ASSUME payloadSize_ # Unset
        PROVE  /\ payloadSize_ >= 0
               /\ payloadOffset_ + payloadSize_ + PaddingSize = packet.size
               /\ payloadOffset_ = PayloadStart
    <3>1. /\ payloadOffset_ = PayloadStart /\ PayloadStart + PaddingSize <= packet.size
          /\ payloadSize_ = packet.size - PayloadStart - PaddingSize
      BY <2>1, <2>4 DEF PayloadSet, Fits
    <3> QED BY <2>2, <3>1
  <2> QED BY <2>1, <2>3, <2>4 DEF PayloadSet, PayloadExact
<1> QED BY <1>1, ParseInvariant, PTL

-----------------------------------------------------------------------------
(* Feedback messages: units, widths and one delta.                         *)

HalfShort == ShortValues \div 2
HalfInt == IntValues \div 2
HalfTick == TickUs \div 2
Round == RefUs * RefValues

(* The widths and units, and what they are to each other. *)
LEMMA Widths ==
  /\ TickUs \in Nat \ {0} /\ RefUs \in Nat \ {0} /\ RefValues \in Nat \ {0}
  /\ ShortValues \in Nat \ {0} /\ IntValues \in Nat \ {0}
  /\ HalfShort \in Nat \ {0} /\ ShortValues = 2 * HalfShort
  /\ HalfInt \in Nat \ {0} /\ IntValues = 2 * HalfInt
  /\ HalfTick \in Nat \ {0} /\ TickUs = 2 * HalfTick
  /\ Round \in Nat \ {0} /\ Round = TickUs * HalfInt
  /\ SmallMax \in Nat /\ SmallMax < HalfShort
  /\ TickUs * HalfShort \in Nat /\ TickUs * HalfShort <= HalfInt /\ RefUs <= TickUs * HalfShort
<1>1. /\ TickUs \in Nat \ {0} /\ RefUs \in Nat \ {0} /\ RefValues \in Nat \ {0}
      /\ ShortValues \in Nat \ {0} /\ IntValues \in Nat \ {0}
      /\ TickUs % 2 = 0 /\ ShortValues % 2 = 0 /\ IntValues % 2 = 0
      /\ SmallMax \in Nat /\ SmallMax < HalfShort
      /\ 2 * RefUs * RefValues = TickUs * IntValues
      /\ TickUs * ShortValues <= IntValues /\ RefUs <= TickUs * HalfShort
  BY WidthAssumption DEF HalfShort
<1>2. ASSUME NEW n \in Nat \ {0}, n % 2 = 0 PROVE n \div 2 \in Nat \ {0} /\ n = 2 * (n \div 2)
  BY <1>2
<1>3. HalfShort \in Nat \ {0} /\ ShortValues = 2 * HalfShort
  BY ONLY <1>1, <1>2 DEF HalfShort
<1>4. HalfInt \in Nat \ {0} /\ IntValues = 2 * HalfInt
  BY ONLY <1>1, <1>2 DEF HalfInt
<1>5. HalfTick \in Nat \ {0} /\ TickUs = 2 * HalfTick
  BY ONLY <1>1, <1>2 DEF HalfTick
<1>6. ASSUME NEW a \in Nat \ {0}, NEW b \in Nat \ {0} PROVE a * b \in Nat \ {0}
  BY <1>6
<1>7. Round \in Nat \ {0} /\ Round = TickUs * HalfInt
  <2>1. 2 * RefUs * RefValues = 2 * (RefUs * RefValues)
    BY ONLY <1>1
  <2>2. TickUs * (2 * HalfInt) = 2 * (TickUs * HalfInt)
    BY ONLY <1>1, <1>4
  <2>3. RefUs * RefValues \in Nat \ {0} /\ TickUs * HalfInt \in Nat \ {0}
    BY ONLY <1>1, <1>4, <1>6
  <2> QED BY ONLY <1>1, <1>4, <2>1, <2>2, <2>3 DEF Round
<1>8. TickUs * HalfShort \in Nat /\ TickUs * HalfShort <= HalfInt
  <2>1. TickUs * (2 * HalfShort) = 2 * (TickUs * HalfShort) /\ TickUs * HalfShort \in Nat
    BY ONLY <1>1, <1>3
  <2> QED BY ONLY <1>1, <1>3, <1>4, <2>1
<1> QED BY <1>1, <1>3, <1>4, <1>5, <1>7, <1>8

(* A unit of the reference time is some ticks, and arrivals are values of the
   64-bit clock. *)
LEMMA Ticks ==
  /\ \E u \in Nat \ {0} : RefUs = TickUs * u
  /\ LongValues \in Nat \ {0} /\ \A t \in Times : t \in Nat /\ t \in Int /\ t < LongValues
<1>1. /\ RefUs % TickUs = 0 /\ LongValues \in Nat \ {0} /\ Times \subseteq 1..(LongValues - 1)
  BY WidthAssumption
<1>2. TickUs \in Nat \ {0} /\ RefUs \in Nat \ {0}
  BY Widths
<1> DEFINE u == RefUs \div TickUs
           z == RefUs % TickUs
<1>3. u \in Int /\ RefUs = TickUs * u + z
  BY ONLY <1>2, DivMod
<1>4. u \in Nat
  BY ONLY <1>2, DivNat
<1>5. z = 0
  BY ONLY <1>1
<1> HIDE DEF u, z
<1>6. RefUs = TickUs * u
  BY ONLY <1>2, <1>3, <1>5
<1>7. u # 0
  BY ONLY <1>2, <1>6
<1>8. \A t \in Times : t \in Nat /\ t \in Int /\ t < LongValues
  BY ONLY <1>1
<1> QED BY ONLY <1>1, <1>4, <1>6, <1>7, <1>8

(* A conversion to a signed type takes whole rounds of the type away. *)
LEMMA SignedOf ==
  ASSUME NEW h \in Nat \ {0}, NEW d \in Int, -h <= d, d < h, NEW k \in Int
  PROVE  ToSigned((2 * h) * k + d, 2 * h) = d
<1> DEFINE v == 2 * h
           n == v * k + d
           q == n \div v
           r == n % v
           c == d + v
           l == k - 1
<1>1. v \in Nat \ {0} /\ v \div 2 = h /\ v = 2 * h
  OBVIOUS
<1>2. v * k \in Int /\ n \in Int /\ n = v * k + d
  BY <1>1
<1> HIDE DEF v, n
<1>3. q \in Int /\ r \in 0..(v - 1) /\ n = v * q + r
  BY ONLY <1>1, <1>2, DivMod, Zenon
<1>4. ToSigned(n, v) = IF r < h THEN r ELSE r - v
  BY ONLY <1>1 DEF ToSigned
<1>5. c \in Int /\ l \in Int /\ c = d + v /\ n = v * l + c
  <2>1. c \in Int /\ l \in Int /\ c = d + v
    BY <1>1
  <2>2. v * (k - 1) = v * k - v
    BY ONLY <1>1, k \in Int
  <2> QED BY ONLY <1>1, <1>2, <2>1, <2>2, d \in Int
<1> HIDE DEF q, r, c, l
<1>6. ASSUME d >= 0 PROVE ToSigned(n, v) = d
  <2>1. d \in 0..(v - 1)
    BY ONLY <1>1, <1>6, h \in Nat \ {0}, d \in Int, d < h
  <2>2. v * k + d = v * q + r
    BY ONLY <1>2, <1>3
  <2>3. d = r
    BY ONLY <1>1, <1>3, <2>1, <2>2, k \in Int, DivModUnique
  <2>4. r < h
    BY ONLY <2>3, d < h
  <2> QED BY ONLY <1>4, <2>3, <2>4
<1>7. ASSUME d < 0 PROVE ToSigned(n, v) = d
  <2>1. c \in 0..(v - 1)
    BY ONLY <1>1, <1>5, <1>7, h \in Nat \ {0}, d \in Int, -h <= d
  <2>2. v * l + c = v * q + r
    BY ONLY <1>3, <1>5
  <2>3. c = r
    <3>1. v \in Nat \ {0} /\ l \in Int /\ q \in Int /\ r \in 0..(v - 1)
      BY ONLY <1>1, <1>3, <1>5
    <3> QED BY ONLY <2>1, <2>2, <3>1, DivModUnique
  <2>4. ~(r < h) /\ r - v = d
    BY ONLY <1>1, <1>5, <1>7, <2>3, h \in Nat \ {0}, d \in Int, -h <= d
  <2> QED BY ONLY <1>4, <2>4
<1>8. ToSigned(n, v) = d
  BY ONLY <1>6, <1>7, d \in Int
<1> QED BY ONLY <1>8 DEF n, v

(* Rounds are even or odd. *)
LEMMA HalfQuotient ==
  ASSUME NEW k \in Nat
  PROVE  \E j \in Nat : k = 2 * j \/ k = 2 * j + 1
<1>1. k \div 2 \in Nat /\ (k = 2 * (k \div 2) \/ k = 2 * (k \div 2) + 1)
  OBVIOUS
<1> QED BY <1>1

(* An int of ticks is a whole number of shorts. *)
LEMMA ShortsInInt ==
  \E g \in Nat \ {0} : HalfInt = (2 * HalfShort) * g
<1> DEFINE w == 2 * HalfShort
           g == HalfInt \div w
           z == HalfInt % w
<1>1. w \in Nat \ {0} /\ HalfInt \in Nat \ {0} /\ w = ShortValues
  BY Widths
<1>2. HalfInt % ShortValues = 0
  BY WidthAssumption DEF HalfInt
<1> HIDE DEF w
<1>3. g \in Nat
  BY ONLY <1>1, DivNat
<1>4. g \in Int /\ HalfInt = w * g + z
  BY ONLY <1>1, DivMod
<1>5. z = 0
  BY <1>1, <1>2
<1> HIDE DEF g, z
<1>6. HalfInt = w * g
  BY ONLY <1>1, <1>3, <1>4, <1>5
<1>7. g # 0
  BY ONLY <1>1, <1>3, <1>6
<1> QED BY ONLY <1>3, <1>6, <1>7 DEF w

(* The widths once more, with names that the provers take for plain numbers. *)
LEMMA Bounds ==
  /\ HalfShort <= TickUs * HalfShort
  /\ 2 * HalfShort <= HalfInt
  /\ HalfInt <= Round
<1>1. ASSUME NEW a \in Nat \ {0}, NEW b \in Nat \ {0} PROVE a <= b * a
  BY <1>1
<1>2. ASSUME NEW a \in Nat \ {0}, NEW b \in Nat \ {0} PROVE 2 * a <= (2 * b) * a
  BY <1>2
<1>3. HalfShort <= TickUs * HalfShort
  BY ONLY Widths, <1>1
<1>4. 2 * HalfShort <= (2 * HalfTick) * HalfShort
  BY ONLY Widths, <1>2
<1>5. TickUs * HalfShort = (2 * HalfTick) * HalfShort
  BY ONLY Widths
<1>6. 2 * HalfShort <= TickUs * HalfShort
  BY ONLY <1>4, <1>5
<1>7. 2 * HalfShort <= HalfInt
  BY ONLY <1>6, Widths
<1>8. HalfInt <= TickUs * HalfInt
  BY ONLY Widths, <1>1
<1> QED BY ONLY <1>3, <1>7, <1>8, Widths

(* What becomes of a delta that is s half rounds of an int away from d: the
   clock moves by d ticks, and a reader finds d. *)
LEMMA Written ==
  ASSUME NEW d \in Int, -HalfShort <= d, d < HalfShort, NEW s \in Int,
         IsSmall(d + s * HalfInt) => s = 0
  PROVE  /\ ToSigned((d + s * HalfInt) * TickUs, IntValues) = TickUs * d
         /\ WriteDelta(d + s * HalfInt).value = d
<1> DEFINE delta == d + s * HalfInt
           e == TickUs * d
<1>1. e \in Int /\ -HalfInt <= e /\ e < HalfInt
  <2>1. ASSUME NEW a \in Nat \ {0}, NEW b \in Nat \ {0}, NEW c \in Int, -b <= c, c < b
        PROVE  a * c \in Int /\ -(a * b) <= a * c /\ a * c < a * b
    <3>1. PICK u \in Nat : c = u - b
      <4>1. c + b \in Nat /\ c = (c + b) - b
        BY <2>1
      <4> QED BY <4>1
    <3>2. PICK w \in Nat : b = c + 1 + w
      <4>1. b - c - 1 \in Nat /\ b = c + 1 + (b - c - 1)
        BY <2>1
      <4> QED BY <4>1
    <3>3. a * c = a * u - a * b /\ a * u \in Nat /\ a * b \in Int
      BY ONLY <3>1, a \in Nat \ {0}, b \in Nat \ {0}
    <3>4. a * b = a * c + a + a * w /\ a * w \in Nat
      BY ONLY <3>2, a \in Nat \ {0}, c \in Int
    <3> QED BY ONLY <3>3, <3>4, a \in Nat \ {0}, a * c \in Int, c \in Int
  <2>2. e \in Int /\ -(TickUs * HalfShort) <= e /\ e < TickUs * HalfShort
    BY ONLY Widths, <2>1, d \in Int, -HalfShort <= d, d < HalfShort
  <2> HIDE DEF e
  <2> QED BY ONLY Widths, <2>2
<1>2. delta * TickUs = (2 * HalfInt) * (s * HalfTick) + e
  <2>1. ASSUME NEW a \in Int, NEW b \in Int
        PROVE  (d + s * a) * (2 * b) = (2 * a) * (s * b) + (2 * b) * d
    BY <2>1
  <2> QED BY ONLY Widths, <2>1
<1>3. ToSigned(delta * TickUs, IntValues) = e
  <2>1. s * HalfTick \in Int
    BY Widths
  <2> HIDE DEF e, delta
  <2>2. ToSigned((2 * HalfInt) * (s * HalfTick) + e, 2 * HalfInt) = e
    BY ONLY Widths, <1>1, <2>1, SignedOf
  <2> QED BY ONLY Widths, <1>2, <2>2
<1>4. PICK g \in Nat \ {0} : HalfInt = (2 * HalfShort) * g
  BY ShortsInInt
<1>5. delta = (2 * HalfShort) * (s * g) + d
  <2>1. ASSUME NEW a \in Int, NEW b \in Int
        PROVE  d + s * ((2 * a) * b) = (2 * a) * (s * b) + d
    BY <2>1
  <2> QED BY ONLY Widths, <1>4, <2>1
<1>6. ToSigned(delta, ShortValues) = d
  <2>1. s * g \in Int
    BY <1>4
  <2> HIDE DEF delta
  <2>2. ToSigned((2 * HalfShort) * (s * g) + d, 2 * HalfShort) = d
    BY ONLY Widths, <2>1, SignedOf, d \in Int, -HalfShort <= d, d < HalfShort
  <2> QED BY ONLY Widths, <1>5, <2>2
<1>7. CASE IsSmall(delta)
  <2>1. delta = d
    <3>1. s = 0
      BY <1>7
    <3>2. s * HalfInt = 0
      BY ONLY <3>1, Widths
    <3> QED BY ONLY <3>2, d \in Int
  <2>2. WriteDelta(delta).value = delta
    BY ONLY <1>7 DEF WriteDelta
  <2> QED BY ONLY <1>3, <2>1, <2>2
<1>8. CASE ~IsSmall(delta)
  <2>1. WriteDelta(delta).value = ToSigned(delta, ShortValues)
    BY ONLY <1>8 DEF WriteDelta
  <2> QED BY ONLY <1>3, <1>6, <2>1
<1> QED BY ONLY <1>7, <1>8

(* A quotient of a number written as a multiple and a remainder. *)
LEMMA QuotientOf ==
  ASSUME NEW k \in Nat \ {0}, NEW q \in Int, NEW r \in 0..(k - 1), NEW n \in Int, n = k * q + r
  PROVE  n \div k = q
<1> DEFINE p == n \div k
           s == n % k
<1>1. p \in Int /\ s \in 0..(k - 1) /\ n = k * p + s
  BY ONLY DivMod, k \in Nat \ {0}, n \in Int
<1> HIDE DEF p, s
<1>2. k * p + s = k * q + r
  BY ONLY <1>1, n = k * q + r
<1>3. p = q
  BY ONLY <1>1, <1>2, DivModUnique, k \in Nat \ {0}, q \in Int, r \in 0..(k - 1)
<1> QED BY ONLY <1>3 DEF p

(* The quotient of a number in a range of multiples of k. *)
LEMMA QuotientRange ==
  ASSUME NEW k \in Nat \ {0}, NEW b \in Nat, NEW x \in Int, -(k * b) <= x, x < k * b
  PROVE  /\ x \div k \in Int /\ -b <= x \div k /\ x \div k < b
         /\ x - k * (x \div k) \in 0..(k - 1)
<1> DEFINE q == x \div k
           r == x % k
           a == -b
<1>1. q \in Int /\ r \in 0..(k - 1) /\ x = k * q + r
  BY ONLY DivMod, k \in Nat \ {0}, x \in Int
<1>2. k * q \in Int /\ k * b \in Int
  BY ONLY <1>1, k \in Nat \ {0}, b \in Nat
<1>3. a \in Int /\ a = -b /\ k * a = -(k * b)
  OBVIOUS
<1> HIDE DEF q, r, a
<1>4. q < b
  <2>1. ASSUME b < q PROVE FALSE
    <3>1. k * b + k <= k * q
      BY ONLY <1>1, <2>1, MultiplesApart, k \in Nat \ {0}, b \in Nat
    <3> QED BY ONLY <1>1, <1>2, <3>1, x < k * b, k \in Nat \ {0}
  <2>2. ASSUME b = q PROVE FALSE
    BY ONLY <1>1, <1>2, <2>2, x < k * b, k \in Nat \ {0}
  <2> QED BY ONLY <1>1, <2>1, <2>2, b \in Nat
<1>5. ~(q < a)
  <2>1. ASSUME q < a PROVE FALSE
    <3>1. k * q + k <= k * a
      BY ONLY <1>1, <1>3, <2>1, MultiplesApart, k \in Nat \ {0}
    <3> QED BY ONLY <1>1, <1>2, <1>3, <3>1, -(k * b) <= x, k \in Nat \ {0}
  <2> QED BY ONLY <2>1
<1>6. x - k * q \in 0..(k - 1)
  BY ONLY <1>1, <1>2, k \in Nat \ {0}
<1>7. q \in Int /\ -b <= q /\ q < b
  BY ONLY <1>1, <1>3, <1>4, <1>5, b \in Nat
<1> QED BY ONLY <1>6, <1>7 DEF q

(* The int of a number of ticks m half rounds away from d. *)
LEMMA IntOf ==
  ASSUME NEW d \in Int, -HalfShort <= d, d < HalfShort, NEW m \in Nat
  PROVE  \E s \in Int : /\ ToSigned(m * HalfInt + d, IntValues) = d + s * HalfInt
                        /\ IsSmall(d + s * HalfInt) => s = 0
<1>1. PICK j \in Nat : m = 2 * j \/ m = 2 * j + 1
  BY HalfQuotient
<1>2. HalfInt \in Nat \ {0} /\ IntValues = 2 * HalfInt /\ HalfShort \in Nat \ {0}
      /\ 2 * HalfShort <= HalfInt /\ SmallMax \in Nat /\ SmallMax < HalfShort
  BY ONLY Widths, Bounds
<1>3. (2 * HalfInt) * j \in Int /\ m * HalfInt \in Int
  BY ONLY <1>1, <1>2, m \in Nat
<1>4. CASE m = 2 * j
  <2>1. m * HalfInt + d = (2 * HalfInt) * j + d
    BY ONLY <1>1, <1>2, <1>4, d \in Int
  <2>2. ToSigned((2 * HalfInt) * j + d, 2 * HalfInt) = d
    <3>1. -HalfInt <= d /\ d < HalfInt /\ j \in Int
      BY ONLY <1>1, <1>2, d \in Int, -HalfShort <= d, d < HalfShort
    <3> QED BY ONLY <1>2, <3>1, SignedOf, d \in Int
  <2>3. d + 0 * HalfInt = d
    BY ONLY <1>2, d \in Int
  <2> QED BY ONLY <1>2, <2>1, <2>2, <2>3, 0 \in Int
<1>5. CASE m = 2 * j + 1 /\ d >= 0
  <2> DEFINE c == d - HalfInt
             h == j + 1
  <2>1. c \in Int /\ h \in Int /\ -HalfInt <= c /\ c < HalfInt /\ c < 0
    BY ONLY <1>1, <1>2, <1>5, d \in Int, d < HalfShort
  <2>2. m * HalfInt + d = (2 * HalfInt) * h + c
    BY ONLY <1>1, <1>2, <1>5, d \in Int
  <2>3. d + (-1) * HalfInt = c
    BY ONLY <1>2, d \in Int
  <2> HIDE DEF c, h
  <2>4. ToSigned((2 * HalfInt) * h + c, 2 * HalfInt) = c
    BY ONLY <1>2, <2>1, SignedOf
  <2>5. ~IsSmall(c)
    BY ONLY <2>1 DEF IsSmall
  <2> QED BY ONLY <1>2, <2>2, <2>3, <2>4, <2>5, -1 \in Int
<1>6. CASE m = 2 * j + 1 /\ d < 0
  <2> DEFINE c == d + HalfInt
  <2>1. c \in Int /\ j \in Int /\ -HalfInt <= c /\ c < HalfInt /\ c > SmallMax
    BY ONLY <1>1, <1>2, <1>6, d \in Int, -HalfShort <= d
  <2>2. m * HalfInt + d = (2 * HalfInt) * j + c
    BY ONLY <1>1, <1>2, <1>6, d \in Int
  <2>3. d + 1 * HalfInt = c
    BY ONLY <1>2, d \in Int
  <2> HIDE DEF c
  <2>4. ToSigned((2 * HalfInt) * j + c, 2 * HalfInt) = c
    BY ONLY <1>2, <2>1, SignedOf
  <2>5. ~IsSmall(c)
    BY ONLY <1>2, <2>1 DEF IsSmall
  <2> QED BY ONLY <1>2, <2>2, <2>3, <2>4, <2>5, 1 \in Int
<1> QED BY ONLY <1>1, <1>4, <1>5, <1>6, d \in Int

(* One delta: from a clock that is m rounds and x behind an arrival, x less
   than a short of ticks, the int Serialize adds to its clock is some d ticks
   that it writes as d, and that lead it to the arrival but for a tick. *)
LEMMA DeltaStep ==
  ASSUME NEW arrival \in Int, NEW clock \in Int, NEW m \in Nat, NEW x \in Int,
         arrival = clock + m * Round + x,
         -(TickUs * HalfShort) < x, x < TickUs * HalfShort
  PROVE  \E d \in Int :
           /\ ToSigned(Delta(arrival, clock) * TickUs, IntValues) = TickUs * d
           /\ WriteDelta(Delta(arrival, clock)).value = d
           /\ -TickUs < x - TickUs * d /\ x - TickUs * d < TickUs
           /\ TickUs * d <= x \/ d <= 0
<1>1. /\ TickUs \in Nat \ {0} /\ HalfShort \in Nat \ {0} /\ HalfInt \in Nat \ {0} /\ Round \in Nat \ {0}
      /\ Round = TickUs * HalfInt /\ TickUs * HalfShort \in Nat /\ TickUs * HalfShort <= HalfInt
      /\ HalfInt <= Round /\ IntValues = 2 * HalfInt
  BY ONLY Widths, Bounds
<1>2. m * Round \in Nat
  BY ONLY <1>1, m \in Nat
<1>3. ASSUME NEW d \in Int, -HalfShort <= d, d < HalfShort, NEW s \in Int,
             Delta(arrival, clock) = d + s * HalfInt, IsSmall(d + s * HalfInt) => s = 0
      PROVE  /\ ToSigned(Delta(arrival, clock) * TickUs, IntValues) = TickUs * d
             /\ WriteDelta(Delta(arrival, clock)).value = d
  <2>1. /\ ToSigned((d + s * HalfInt) * TickUs, IntValues) = TickUs * d
        /\ WriteDelta(d + s * HalfInt).value = d
    BY ONLY <1>3, Written
  <2> QED BY ONLY <1>3, <2>1
<1>4. CASE arrival > clock
  <2> DEFINE d == x \div TickUs
             r == x - TickUs * d
             n == m * HalfInt + d
  <2>1. d \in Int /\ -HalfShort <= d /\ d < HalfShort /\ r \in 0..(TickUs - 1)
    <3>1. -(TickUs * HalfShort) <= x
      BY ONLY <1>1, x \in Int, -(TickUs * HalfShort) < x
    <3> QED BY ONLY <1>1, <3>1, QuotientRange, x \in Int, x < TickUs * HalfShort
  <2>2. TickUs * d \in Int /\ x = TickUs * d + r
    BY ONLY <1>1, <2>1, x \in Int
  <2> HIDE DEF d, r
  <2>3. n \in Int /\ arrival - clock = TickUs * n + r
    <3>1. TickUs * n = m * (TickUs * HalfInt) + TickUs * d
      BY ONLY <1>1, <2>1, m \in Nat
    <3>2. TickUs * n = m * Round + TickUs * d
      BY ONLY <1>1, <3>1
    <3> QED BY ONLY <1>1, <1>2, <2>1, <2>2, <3>2, m \in Nat, arrival \in Int, clock \in Int, x \in Int,
               arrival = clock + m * Round + x
  <2>4. (arrival - clock) \div TickUs = n
    <3>1. arrival - clock \in Int
      OBVIOUS
    <3> HIDE DEF n
    <3> QED BY ONLY <1>1, <2>1, <2>3, <3>1, QuotientOf
  <2>5. PICK s \in Int : ToSigned(n, IntValues) = d + s * HalfInt /\ (IsSmall(d + s * HalfInt) => s = 0)
    BY ONLY <2>1, IntOf, m \in Nat
  <2> HIDE DEF n
  <2>6. Delta(arrival, clock) = d + s * HalfInt
    BY ONLY <1>4, <2>4, <2>5 DEF Delta
  <2>7. -TickUs < x - TickUs * d /\ x - TickUs * d < TickUs /\ TickUs * d <= x
    BY ONLY <1>1, <2>1, <2>2, x \in Int
  <2> QED BY ONLY <1>3, <2>1, <2>5, <2>6, <2>7
<1>5. CASE ~(arrival > clock)
  <2> DEFINE y == -x
             p == y \div TickUs
             r == y - TickUs * p
             d == -p
  <2>1. m = 0
    <3>1. ASSUME m # 0 PROVE FALSE
      <4>1. Round <= m * Round
        BY ONLY <1>1, <3>1, m \in Nat
      <4> QED BY ONLY <1>1, <1>2, <1>5, <4>1, -(TickUs * HalfShort) < x, x \in Int,
                 arrival = clock + m * Round + x, clock \in Int, arrival \in Int
    <3> QED BY ONLY <3>1
  <2>2. m * Round = 0
    BY ONLY <1>1, <2>1
  <2>3. y \in Nat /\ clock - arrival = y /\ y < TickUs * HalfShort /\ -(TickUs * HalfShort) <= y
    BY ONLY <1>1, <1>5, <2>2, -(TickUs * HalfShort) < x, x \in Int, arrival = clock + m * Round + x,
       clock \in Int, arrival \in Int
  <2>4. x = -y
    OBVIOUS
  <2> HIDE DEF y
  <2>5. p \in Int /\ p < HalfShort /\ r \in 0..(TickUs - 1)
    <3>1. y \in Int /\ HalfShort \in Nat
      BY ONLY <1>1, <2>3
    <3> QED BY ONLY <1>1, <2>3, <3>1, QuotientRange
  <2>6. p \in Nat
    BY ONLY <1>1, <2>3, DivNat
  <2>7. TickUs * p \in Int /\ y = TickUs * p + r
    BY ONLY <1>1, <2>3, <2>5
  <2> HIDE DEF p, r
  <2>8. d \in Int /\ -HalfShort <= d /\ d < HalfShort /\ TickUs * d = -(TickUs * p)
    BY ONLY <1>1, <2>5, <2>6
  <2>9. Delta(arrival, clock) = d + 0 * HalfInt
    <3>1. d = -((clock - arrival) \div TickUs)
      BY ONLY <2>3 DEF p
    <3> HIDE DEF d
    <3>2. ToSigned((2 * HalfInt) * 0 + d, 2 * HalfInt) = d
      <4>1. -HalfInt <= d /\ d < HalfInt
        BY ONLY <2>8, Widths, Bounds
      <4> QED BY ONLY <1>1, <2>8, <4>1, SignedOf, 0 \in Int
    <3>3. (2 * HalfInt) * 0 + d = d /\ d + 0 * HalfInt = d
      BY ONLY <1>1, <2>8
    <3>4. Delta(arrival, clock) = ToSigned(d, IntValues)
      BY ONLY <1>5, <3>1 DEF Delta
    <3> QED BY ONLY <1>1, <3>2, <3>3, <3>4
  <2>10. -TickUs < x - TickUs * d /\ x - TickUs * d < TickUs /\ d <= 0
    BY ONLY <1>1, <2>3, <2>4, <2>5, <2>6, <2>7, <2>8, x \in Int
  <2> HIDE DEF d
  <2> QED BY ONLY <1>3, <2>8, <2>9, <2>10, 0 \in Int
<1> QED BY ONLY <1>4, <1>5

(* A value of the 64-bit clock that is a whole number of ticks. *)
OnTick(clock) == clock \in 0..(LongValues - 1) /\ \E e \in Int : clock = TickUs * e

(* Such a clock moves to another one while no arrival lies before the round it
   started in: it does not come below 0, where it would wrap. *)
LEMMA TimeStep ==
  ASSUME NEW arrival \in Int, NEW clock \in Int, NEW m \in Nat, NEW x \in Int,
         arrival = clock + m * Round + x,
         -(TickUs * HalfShort) < x, x < TickUs * HalfShort,
         OnTick(clock), m * Round <= arrival, arrival < LongValues
  PROVE  \E d \in Int :
           /\ NextTime(arrival, clock, Delta(arrival, clock)) = clock + TickUs * d
           /\ OnTick(clock + TickUs * d)
           /\ WriteDelta(Delta(arrival, clock)).value = d
           /\ -TickUs < x - TickUs * d /\ x - TickUs * d < TickUs
<1> DEFINE w == m * Round
           delta == Delta(arrival, clock)
<1>1. TickUs \in Nat \ {0} /\ LongValues \in Nat \ {0} /\ w \in Nat
  <2>1. Round \in Nat /\ TickUs \in Nat \ {0}
    BY ONLY Widths
  <2> QED BY ONLY <2>1, Ticks, m \in Nat
<1>2. PICK d \in Int : /\ ToSigned(delta * TickUs, IntValues) = TickUs * d
                       /\ WriteDelta(delta).value = d
                       /\ -TickUs < x - TickUs * d /\ x - TickUs * d < TickUs
                       /\ TickUs * d <= x \/ d <= 0
  BY DeltaStep
<1>3. PICK e \in Int : clock = TickUs * e
  BY DEF OnTick
<1>4. clock \in 0..(LongValues - 1)
  BY DEF OnTick
<1> DEFINE f == e + d
           v == TickUs * d
           next == clock + v
<1>5. f \in Int /\ v \in Int /\ next \in Int /\ next = TickUs * f
  BY ONLY <1>1, <1>2, <1>3
<1>6. next = clock + v
  OBVIOUS
<1>7. -TickUs < x - v /\ x - v < TickUs /\ (v <= x \/ d <= 0)
  BY ONLY <1>2
<1>8. arrival = clock + w + x /\ w <= arrival
  OBVIOUS
<1>9. d <= 0 => v <= 0
  <2>1. d < 0 => TickUs * d + TickUs <= TickUs * 0
    BY ONLY <1>1, <1>2, MultiplesApart, 0 \in Int
  <2>2. TickUs * 0 = 0
    BY ONLY <1>1
  <2>3. d = 0 => v = 0
    BY ONLY <2>2
  <2>4. v \in Int /\ (d < 0 => v + TickUs <= 0)
    BY ONLY <1>5, <2>1, <2>2
  <2> HIDE DEF v
  <2> QED BY ONLY <1>1, <1>2, <2>3, <2>4
<1> HIDE DEF w, v, f, next
<1>10. next > -TickUs
  BY ONLY <1>1, <1>4, <1>5, <1>6, <1>7, <1>8, arrival \in Int, clock \in Int, x \in Int
<1>11. next >= 0
  <2>1. ASSUME f < 0 PROVE FALSE
    <3>1. TickUs * f + TickUs <= TickUs * 0 /\ TickUs * 0 = 0
      BY ONLY <1>1, <1>5, <2>1, MultiplesApart, 0 \in Int
    <3> QED BY ONLY <1>1, <1>5, <1>10, <3>1
  <2>2. f \in Nat
    BY ONLY <1>5, <2>1
  <2>3. TickUs * f \in Nat
    BY ONLY <1>1, <2>2
  <2> QED BY ONLY <1>5, <2>3
<1>12. next < LongValues
  BY ONLY <1>1, <1>2, <1>4, <1>5, <1>6, <1>7, <1>8, <1>9, arrival \in Int, clock \in Int, x \in Int,
     arrival < LongValues
<1>13. next % LongValues = next
  <2>1. next \in Nat
    BY ONLY <1>5, <1>11
  <2> QED BY ONLY <1>1, <1>12, <2>1, ModSmall
<1>14. NextTime(arrival, clock, delta) = next
  BY ONLY <1>2, <1>13 DEF NextTime, next, v
<1>15. OnTick(next)
  BY ONLY <1>1, <1>5, <1>11, <1>12 DEF OnTick
<1> QED BY ONLY <1>2, <1>14, <1>15 DEF next, v

-----------------------------------------------------------------------------
(* The inductive invariant of feedback messages.                           *)

SignalledBy(delta) == IF IsSmall(delta) THEN SmallDelta ELSE LargeOrNegativeDelta

(* The loop over packets has taken some and has the others left. *)
PacketsPart ==
  /\ DOMAIN packets \subseteq Seqs /\ IsFiniteSet(DOMAIN packets)
  /\ Cardinality(DOMAIN packets) <= MaxPackets
  /\ \A s \in DOMAIN packets : packets[s] \in Times
  /\ packets = <<>> \/ DOMAIN packets # {}
  /\ step \in {"none", "packets", "deltas", "done"}
  /\ order \in Seq([seq : Seqs, clock : Int])
  /\ step = "none" => order = <<>>
  /\ step # "none" => /\ DOMAIN packets # {}
                      /\ left \subseteq DOMAIN packets
                      /\ Len(order) + Cardinality(left) = Cardinality(DOMAIN packets)
  /\ step \in {"deltas", "done"} => left = {}
  /\ \A k \in 1..Len(order) : order[k].seq \in DOMAIN packets

(* Each has its delta, and the symbol for it. *)
SymbolsPart ==
  /\ symbolList \in Seq(0..3) /\ deltas \in Seq(Int)
  /\ Len(deltas) = Len(order) /\ Len(symbolList) = Len(order)
  /\ \A k \in 1..Len(deltas) : symbolList[k] = SignalledBy(deltas[k])

(* The clock a delta is relative to. *)
ClockBefore(k) == IF k = 1 THEN referenceTime * RefUs ELSE order[k - 1].clock

(* An arrival and a clock m rounds behind it that is less than a tick off. *)
Near(arrival, clock, m) ==
  LET error == arrival - (clock + m * Round)
  IN  -TickUs < error /\ error < TickUs

(* While arrivals are close and of one round, Serialize's clock is the one a
   reader will have, its values are whole ticks, and all of them are the same
   number of rounds, and less than a tick, from the arrivals. *)
ClockPart ==
  /\ referenceTime \in Int /\ time \in Int
  /\ order # <<>> => time = order[Len(order)].clock
  /\ Close /\ OneRound =>
       /\ \A k \in 1..Len(order) :
            order[k].clock = ClockBefore(k) + TickUs * WriteDelta(deltas[k]).value
       /\ \E m \in Nat :
            /\ \A s \in DOMAIN packets : m * Round <= packets[s]
            /\ \A k \in 1..Len(order) :
                 OnTick(order[k].clock) /\ Near(packets[order[k].seq], order[k].clock, m)

(* The loop goes through the packets in ascending order, one number after the
   other when none is missing. *)
OrderPart ==
  step # "none" =>
    /\ DOMAIN packets = left \cup {order[k].seq : k \in 1..Len(order)}
    /\ \A k \in 1..Len(order) : \A s \in left : order[k].seq < s
    /\ NoGaps => \A k \in 1..Len(order) : order[k].seq = order[1].seq + k - 1

(* Where the k-th delta of a message starts. *)
Place(m, k) ==
  IF k = 1 THEN HeaderSize + 2 * Len(m.chunks)
  ELSE m.deltas[k - 1].at + (IF m.deltas[k - 1].wide THEN 2 ELSE 1)

(* The size of a message with as many deltas, all of them shorts. *)
Widest(m) == HeaderSize + 2 * Len(m.chunks) + 2 * Len(m.deltas)

Records == [wide : BOOLEAN, value : Int, at : Nat, clock : Int]

(* The message holds the first deltas, one behind the other. *)
MessagePart ==
  step \in {"deltas", "done"} =>
    /\ msg \in [base : Int, count : Int, ref : Int, fb : Int,
                chunks : Seq(Seq(0..3)), deltas : Seq(Records), size : Nat]
    /\ msg.base = order[1].seq /\ msg.count = Cardinality(DOMAIN packets)
    /\ msg.ref = referenceTime /\ msg.chunks = Chunks(symbolList)
    /\ Len(msg.deltas) <= Len(deltas)
    /\ \A k \in 1..Len(msg.deltas) :
         /\ msg.deltas[k].wide = ~IsSmall(deltas[k])
         /\ msg.deltas[k].at = Place(msg, k)
         /\ Close /\ OneRound => msg.deltas[k].clock = order[k].clock
    /\ \A k \in 1..(Len(msg.deltas) + 1) : Place(msg, k) <= msg.size
    /\ Place(msg, Len(msg.deltas) + 1) <= Widest(msg)
    /\ step = "deltas" => msg.size = Place(msg, Len(msg.deltas) + 1)
    /\ step = "done" => /\ Len(msg.deltas) = Len(deltas) /\ msg.size % 4 = 0
                        /\ msg.size - Place(msg, Len(msg.deltas) + 1) \in 0..3

FeedbackInv == PacketsPart /\ SymbolsPart /\ ClockPart /\ OrderPart /\ MessagePart

(* The reader holds a message of another sender or the one of Serialize, and
   has not read past its end. *)
ReaderPart ==
  /\ stage \in {"start", "chunks", "deltas", "done"} /\ cut \in BOOLEAN
  /\ len \in Nat /\ i \in Nat
  /\ stage = "start" => len = 0 /\ statuses = <<>> /\ i = 0 /\ reported = <<>> /\ ~cut
  /\ stage # "start" => wire # <<>>
  /\ wire # <<>> => /\ wire.size \in Nat /\ len <= wire.size
                    /\ step \in {"none", "done"}
                    /\ step = "done" => wire = [size |-> msg.size, count |-> msg.count,
                         chunks |-> [c \in DOMAIN msg.chunks |-> TwoBitChunk(msg.chunks[c])]]

SymbolAt(n) == IF n <= Len(symbolList) THEN symbolList[n] ELSE NotReceived

(* After c chunks there are c * SymbolsInChunk statuses: Serialize's symbols,
   and zeros behind them. *)
ChunksPart ==
  step = "done" /\ stage = "chunks" =>
    /\ ~cut /\ i = 0 /\ reported = <<>>
    /\ statuses \in Seq(0..3) /\ \A n \in 1..Len(statuses) : statuses[n] = SymbolAt(n)
    /\ \E c \in 0..Len(msg.chunks) : len = HeaderSize + 2 * c /\ Len(statuses) = c * SymbolsInChunk

(* Among the deltas, the reader stands where the next one was written. *)
DeltasPart ==
  step = "done" /\ stage \in {"deltas", "done"} =>
    /\ ~cut /\ statuses \in Seq(0..3) /\ Len(statuses) >= Len(symbolList)
    /\ \A n \in 1..Len(symbolList) : statuses[n] = symbolList[n]
    /\ i <= Len(deltas) /\ (stage = "done" => i = Len(deltas)) /\ len = Place(msg, i + 1)
    /\ reported \in Seq([index : Int, status : 0..3, at : Int]) /\ Len(reported) = i
    /\ \A k \in 1..i : reported[k] = [index |-> k - 1, status |-> symbolList[k], at |-> msg.deltas[k].at]

ReportInv == FeedbackInv /\ ReaderPart /\ ChunksPart /\ DeltasPart

-----------------------------------------------------------------------------
(* Serialize keeps the invariant.                                          *)

(* A conversion to a signed type is a number. *)
LEMMA SignedType ==
  ASSUME NEW n \in Int, NEW v \in Nat \ {0}
  PROVE  ToSigned(n, v) \in Int
<1> DEFINE r == n % v
<1>1. r \in Int
  BY DivMod
<1>2. ToSigned(n, v) = IF r < v \div 2 THEN r ELSE r - v
  BY DEF ToSigned
<1> HIDE DEF r
<1>3. r - v \in Int
  BY <1>1
<1> QED BY ONLY <1>1, <1>2, <1>3

(* Deltas and clocks are numbers. *)
LEMMA DeltaTypes ==
  ASSUME NEW arrival \in Int, NEW clock \in Int
  PROVE  /\ Delta(arrival, clock) \in Int
         /\ NextTime(arrival, clock, Delta(arrival, clock)) \in Int
         /\ SignalledBy(Delta(arrival, clock)) \in 1..2
<1>1. TickUs \in Nat \ {0} /\ IntValues \in Nat \ {0}
  BY Widths
<1>2. arrival - clock \in Int /\ clock - arrival \in Int
  OBVIOUS
<1>3. (arrival - clock) \div TickUs \in Int /\ (clock - arrival) \div TickUs \in Int
  BY ONLY <1>1, <1>2, DivMod
<1>4. /\ ToSigned((arrival - clock) \div TickUs, IntValues) \in Int
      /\ ToSigned(-((clock - arrival) \div TickUs), IntValues) \in Int
  <2>1. -((clock - arrival) \div TickUs) \in Int
    BY ONLY <1>3
  <2> QED BY ONLY <1>1, <1>3, <2>1, SignedType
<1>5. Delta(arrival, clock) \in Int
  BY ONLY <1>4 DEF Delta
<1> DEFINE d == Delta(arrival, clock)
<1> HIDE DEF d
<1>6. d * TickUs \in Int
  BY ONLY <1>1, <1>5 DEF d
<1>7. ToSigned(d * TickUs, IntValues) \in Int
  BY ONLY <1>1, <1>6, SignedType
<1>8. NextTime(arrival, clock, d) \in Int
  <2> DEFINE n == clock + ToSigned(d * TickUs, IntValues)
  <2>1. n \in Int /\ LongValues \in Nat \ {0}
    BY ONLY <1>7, Ticks, clock \in Int
  <2> HIDE DEF n
  <2>2. n % LongValues \in Int
    BY ONLY <2>1, DivMod
  <2> QED BY ONLY <2>2 DEF NextTime, n
<1> QED BY ONLY <1>5, <1>8 DEF d, SignalledBy, SmallDelta, LargeOrNegativeDelta

(* What is read of a delta is a number. *)
LEMMA WrittenType ==
  ASSUME NEW d \in Int
  PROVE  /\ WriteDelta(d).value \in Int
         /\ WriteDelta(d).wide = ~IsSmall(d)
<1>1. ToSigned(d, ShortValues) \in Int
  BY Widths, SignedType
<1> QED BY ONLY <1>1, d \in Int DEF WriteDelta

(* Something is put behind a sequence. *)
LEMMA AppendFacts ==
  ASSUME NEW S, NEW s \in Seq(S), NEW e \in S
  PROVE  /\ Append(s, e) \in Seq(S) /\ Len(Append(s, e)) = Len(s) + 1 /\ Len(s) \in Nat
         /\ Append(s, e)[Len(s) + 1] = e
         /\ \A k \in 1..Len(s) : Append(s, e)[k] = s[k]
         /\ \A k \in 1..(Len(s) + 1) : k \in 1..Len(s) \/ k = Len(s) + 1
  OBVIOUS

LEMMA AddStatusPackets ==
  ASSUME FeedbackInv, NEW seq \in Seqs, AddStatus(seq), order' \in Seq([seq : Seqs, clock : Int])
  PROVE  PacketsPart'
<1> DEFINE n == Len(order)
<1>1. /\ step = "packets" /\ step' = "packets" /\ packets' = packets /\ seq \in left
      /\ left' = left \ {seq} /\ order' = Append(order, [seq |-> seq, clock |-> time'])
  BY DEF AddStatus
<1>2. PacketsPart
  BY DEF FeedbackInv
<1>3. left' \subseteq DOMAIN packets' /\ seq \in DOMAIN packets'
  BY <1>1, <1>2 DEF PacketsPart
<1>4. Len(order') = n + 1 /\ n \in Nat /\ order'[n + 1].seq = seq /\ \A k \in 1..n : order'[k] = order[k]
  BY <1>1, <1>2 DEF PacketsPart
<1>5. IsFiniteSet(left) /\ Cardinality(left) \in Nat
  <2>1. IsFiniteSet(DOMAIN packets) /\ left \in SUBSET DOMAIN packets
    BY <1>1, <1>2 DEF PacketsPart
  <2>2. IsFiniteSet(left)
    BY ONLY <2>1, FS_Subset
  <2> QED BY ONLY <2>2, FS_CardinalityType
<1>6. Cardinality(left') = Cardinality(left) - 1
  BY <1>1, <1>5, FS_RemoveElement
<1>7. Len(order') + Cardinality(left') = Cardinality(DOMAIN packets')
  <2>1. n + Cardinality(left) = Cardinality(DOMAIN packets)
    BY <1>1, <1>2 DEF PacketsPart
  <2> QED BY <1>1, <1>4, <1>5, <1>6, <2>1
<1>8. \A k \in 1..Len(order') : order'[k].seq \in DOMAIN packets'
  <2>1. ASSUME NEW k \in 1..(n + 1) PROVE order'[k].seq \in DOMAIN packets'
    <3>1. CASE k \in 1..n
      <4>1. order[k].seq \in DOMAIN packets
        BY <1>2, <3>1 DEF PacketsPart
      <4> QED BY <1>1, <1>4, <3>1, <4>1
    <3>2. CASE k = n + 1
      BY <1>3, <1>4, <3>2
    <3> QED BY <1>4, <3>1, <3>2
  <2> QED BY <1>4, <2>1
<1> QED BY <1>1, <1>2, <1>3, <1>7, <1>8 DEF PacketsPart

LEMMA AddStatusOrder ==
  ASSUME FeedbackInv, NEW seq \in Seqs, AddStatus(seq), order' \in Seq([seq : Seqs, clock : Int])
  PROVE  OrderPart'
<1> DEFINE n == Len(order)
<1>1. /\ step = "packets" /\ step' = "packets" /\ packets' = packets /\ seq \in left
      /\ \A s \in left : seq <= s
      /\ left' = left \ {seq} /\ order' = Append(order, [seq |-> seq, clock |-> time'])
  BY DEF AddStatus
<1>2. PacketsPart /\ OrderPart
  BY DEF FeedbackInv
<1>3. /\ Len(order') = n + 1 /\ n \in Nat /\ order'[n + 1].seq = seq
      /\ \A k \in 1..n : order'[k] = order[k]
  BY <1>1, <1>2 DEF PacketsPart
<1>4. /\ DOMAIN packets = left \cup {order[k].seq : k \in 1..n}
      /\ \A k \in 1..n : \A s \in left : order[k].seq < s
      /\ NoGaps => \A k \in 1..n : order[k].seq = order[1].seq + k - 1
  BY <1>1, <1>2 DEF OrderPart
<1>5. \A s \in DOMAIN packets : s \in Int
  <2>1. DOMAIN packets \subseteq Seqs /\ Seqs \subseteq Int
    BY <1>2, WidthAssumption DEF PacketsPart
  <2> QED BY ONLY <2>1
<1> HIDE DEF n
<1>6. \A k \in 1..(n + 1) : k \in 1..n \/ k = n + 1
  BY ONLY <1>3
<1>7. DOMAIN packets' = left' \cup {order'[k].seq : k \in 1..(n + 1)}
  <2>1. n + 1 \in 1..(n + 1) /\ \A k \in 1..n : k \in 1..(n + 1)
    BY ONLY <1>3
  <2>2. ASSUME NEW s \in left' \cup {order'[k].seq : k \in 1..(n + 1)} PROVE s \in DOMAIN packets
    BY ONLY <1>1, <1>3, <1>4, <1>6, <2>2
  <2>3. ASSUME NEW s \in DOMAIN packets PROVE s \in left' \cup {order'[k].seq : k \in 1..(n + 1)}
    BY ONLY <1>1, <1>3, <1>4, <2>1, <2>3
  <2> QED BY ONLY <1>1, <2>2, <2>3
<1>8. ASSUME NEW k \in 1..(n + 1), NEW s \in left' PROVE order'[k].seq < s
  <2>1. s \in left /\ s # seq /\ seq <= s /\ s \in Int /\ seq \in Int
    BY ONLY <1>1, <1>4, <1>5, <1>8
  <2>2. CASE k \in 1..n
    BY ONLY <1>3, <1>4, <2>1, <2>2
  <2>3. CASE k = n + 1
    BY ONLY <1>3, <2>1, <2>3
  <2> QED BY ONLY <1>6, <1>8, <2>2, <2>3
<1>9. ASSUME NoGaps, NEW k \in 1..(n + 1) PROVE order'[k].seq = order'[1].seq + k - 1
  <2>1. seq \in DOMAIN packets /\ seq \in Int
    BY ONLY <1>1, <1>4, <1>5
  <2>2. CASE n = 0
    <3>1. k = 1 /\ order'[k].seq = seq /\ order'[1].seq = seq
      BY ONLY <1>3, <1>9, <2>2
    <3> QED BY ONLY <2>1, <3>1
  <2>3. CASE n # 0
    <3> DEFINE first == order[1].seq
               last == order[n].seq
    <3>1. 1 \in 1..n /\ n \in 1..n /\ order'[1].seq = first
      BY ONLY <1>3, <2>3
    <3>2. first \in DOMAIN packets /\ last \in DOMAIN packets /\ last < seq
      BY ONLY <1>1, <1>4, <3>1
    <3>3. first \in Int /\ last \in Int /\ last = first + n - 1
      BY ONLY <1>4, <1>5, <1>9, <3>1, <3>2
    <3>4. \A j \in 1..n : order[j].seq = first + j - 1
      BY ONLY <1>4, <1>9
    <3> HIDE DEF first, last
    <3>5. last + 1 \in last..seq
      BY ONLY <2>1, <3>2, <3>3
    <3>6. last + 1 \in DOMAIN packets
      BY ONLY <1>9, <2>1, <3>2, <3>5 DEF NoGaps
    <3>7. last + 1 \in left
      <4>1. ASSUME NEW j \in 1..n, last + 1 = order[j].seq PROVE FALSE
        BY ONLY <1>3, <3>3, <3>4, <4>1
      <4> QED BY ONLY <1>4, <3>6, <4>1
    <3>8. seq = last + 1
      BY ONLY <1>1, <2>1, <3>2, <3>3, <3>7
    <3>9. CASE k \in 1..n
      BY ONLY <1>3, <3>1, <3>4, <3>9
    <3>10. CASE k = n + 1
      BY ONLY <1>3, <3>1, <3>3, <3>8, <3>10
    <3> QED BY ONLY <1>6, <1>9, <3>9, <3>10
  <2> QED BY ONLY <2>2, <2>3
<1>10. NoGaps' <=> NoGaps
  BY ONLY <1>1 DEF NoGaps
<1> QED BY ONLY <1>3, <1>7, <1>8, <1>9, <1>10 DEF OrderPart

LEMMA AddStatusSymbols ==
  ASSUME FeedbackInv, NEW seq \in Seqs, AddStatus(seq), Len(order') = Len(order) + 1,
         NEW d \in Int, deltas' = Append(deltas, d), symbolList' = Append(symbolList, SignalledBy(d)),
         SignalledBy(d) \in 1..2
  PROVE  SymbolsPart'
<1> DEFINE n == Len(deltas)
<1>1. /\ symbolList \in Seq(0..3) /\ deltas \in Seq(Int)
      /\ n = Len(order) /\ Len(symbolList) = Len(order) /\ n \in Nat
      /\ \A k \in 1..n : symbolList[k] = SignalledBy(deltas[k])
  BY DEF FeedbackInv, SymbolsPart
<1>2. SignalledBy(d) \in 0..3
  OBVIOUS
<1>3. /\ deltas' \in Seq(Int) /\ Len(deltas') = n + 1 /\ deltas'[n + 1] = d
      /\ \A k \in 1..n : deltas'[k] = deltas[k]
  BY ONLY <1>1, AppendFacts, d \in Int, deltas' = Append(deltas, d)
<1>4. /\ symbolList' \in Seq(0..3) /\ Len(symbolList') = n + 1 /\ symbolList'[n + 1] = SignalledBy(d)
      /\ \A k \in 1..n : symbolList'[k] = symbolList[k]
  BY ONLY <1>1, <1>2, AppendFacts, symbolList' = Append(symbolList, SignalledBy(d))
<1>5. ASSUME NEW k \in 1..(n + 1) PROVE symbolList'[k] = SignalledBy(deltas'[k])
  <2>1. CASE k \in 1..n
    BY <1>1, <1>3, <1>4, <2>1
  <2>2. CASE k = n + 1
    BY <1>3, <1>4, <2>2
  <2> QED BY <1>1, <2>1, <2>2
<1>6. Len(deltas') = Len(order') /\ Len(symbolList') = Len(order')
  BY <1>1, <1>3, <1>4
<1> QED BY ONLY <1>3, <1>4, <1>5, <1>6 DEF SymbolsPart, SignalledBy, IsSmall

(* The reference time is some rounds, and less than a unit, before the first
   arrival. *)
LEMMA ReferenceBefore ==
  ASSUME NEW arrival \in Nat
  PROVE  /\ ReferenceTime(arrival) \in Nat /\ Rounds(arrival) \in Nat
         /\ \E x \in 0..(RefUs - 1) :
              arrival = ReferenceTime(arrival) * RefUs + Rounds(arrival) * Round + x
         /\ arrival < LongValues => OnTick(ReferenceTime(arrival) * RefUs)
         /\ Rounds(arrival) * Round <= arrival
<1> DEFINE q == arrival \div RefUs
           x == arrival % RefUs
           m == q \div RefValues
           r == q % RefValues
<1>1. RefUs \in Nat \ {0} /\ RefValues \in Nat \ {0}
  BY Widths
<1>2. q \in Int /\ x \in 0..(RefUs - 1) /\ arrival = RefUs * q + x
  BY ONLY <1>1, DivMod, arrival \in Nat, arrival \in Int
<1>3. q \in Nat
  BY ONLY <1>1, DivNat, arrival \in Nat
<1> HIDE DEF q, x
<1>4. m \in Int /\ r \in 0..(RefValues - 1) /\ q = RefValues * m + r
  BY ONLY <1>1, <1>2, DivMod
<1>5. m \in Nat
  BY ONLY <1>1, <1>3, DivNat
<1>6. ReferenceTime(arrival) = r /\ Rounds(arrival) = m
  BY DEF ReferenceTime, Rounds, q
<1> HIDE DEF m, r
<1>7. RefUs * q = r * RefUs + m * Round
  <2>1. ASSUME NEW a \in Int, NEW b \in Int, NEW c \in Int, NEW d \in Int
        PROVE  a * (b * c + d) = d * a + c * (a * b)
    BY <2>1
  <2> QED BY ONLY <1>1, <1>4, <2>1 DEF Round
<1>8. r \in Nat /\ r \in Int
  BY ONLY <1>1, <1>4
<1>9. arrival = r * RefUs + m * Round + x
  BY ONLY <1>2, <1>7
<1>10. m * Round \in Nat /\ r * RefUs \in Nat
  <2>1. Round \in Nat
    BY ONLY Widths
  <2> QED BY ONLY <1>1, <1>5, <1>8, <2>1
<1>11. m * Round <= arrival /\ r * RefUs <= arrival
  BY ONLY <1>1, <1>2, <1>9, <1>10, arrival \in Nat
<1>12. arrival < LongValues => OnTick(r * RefUs)
  <2>1. PICK u \in Nat : RefUs = TickUs * u
    BY ONLY Ticks
  <2>2. TickUs \in Nat /\ LongValues \in Nat
    BY ONLY Widths, Ticks
  <2>3. r * RefUs = TickUs * (r * u) /\ r * u \in Int
    BY ONLY <1>8, <2>1, <2>2
  <2>4. arrival < LongValues => r * RefUs \in 0..(LongValues - 1)
    BY ONLY <1>10, <1>11, <2>2, arrival \in Nat
  <2> QED BY ONLY <2>3, <2>4 DEF OnTick
<1> QED BY ONLY <1>2, <1>5, <1>6, <1>8, <1>9, <1>11, <1>12

(* Arrivals are values of the clock. *)
LEMMA ArrivalType ==
  ASSUME PacketsPart, NEW s \in DOMAIN packets
  PROVE  packets[s] \in Nat /\ packets[s] \in Int /\ packets[s] < LongValues
<1>1. packets[s] \in Times
  BY DEF PacketsPart
<1> QED BY ONLY <1>1, Ticks

LEMMA AddStatusClock ==
  ASSUME FeedbackInv, NEW seq \in Seqs, AddStatus(seq)
  PROVE  /\ ClockPart'
         /\ order' \in Seq([seq : Seqs, clock : Int]) /\ Len(order') = Len(order) + 1
         /\ \E d \in Int : /\ deltas' = Append(deltas, d)
                           /\ symbolList' = Append(symbolList, SignalledBy(d))
                           /\ SignalledBy(d) \in 1..2
<1> DEFINE arrival == packets[seq]
           ref == IF order = <<>> THEN ReferenceTime(arrival) ELSE referenceTime
           clock == IF order = <<>> THEN ref * RefUs ELSE time
           delta == Delta(arrival, clock)
           n == Len(order)
           C == [seq : Seqs, clock : Int]
<1>1. /\ step = "packets" /\ packets' = packets /\ seq \in left
      /\ referenceTime' = ref /\ time' = NextTime(arrival, clock, delta)
      /\ order' = Append(order, [seq |-> seq, clock |-> time'])
      /\ deltas' = Append(deltas, delta) /\ symbolList' = Append(symbolList, SignalledBy(delta))
  BY DEF AddStatus, SignalledBy
<1>2. PacketsPart /\ SymbolsPart /\ ClockPart /\ OrderPart
  BY DEF FeedbackInv
<1>3. seq \in DOMAIN packets /\ order \in Seq(C) /\ n \in Nat
  BY <1>1, <1>2 DEF PacketsPart
<1>4. arrival \in Nat /\ arrival \in Int /\ arrival < LongValues
  BY ONLY <1>2, <1>3, ArrivalType
<1>5. ref \in Int /\ clock \in Int
  <2>1. ReferenceTime(arrival) \in Nat /\ RefUs \in Nat
    BY ONLY <1>4, ReferenceBefore, Widths
  <2>2. referenceTime \in Int /\ time \in Int
    BY <1>2 DEF ClockPart
  <2> HIDE DEF arrival
  <2>3. ref \in Int
    BY ONLY <2>1, <2>2
  <2> HIDE DEF ref
  <2>4. ref * RefUs \in Int
    BY ONLY <2>1, <2>3
  <2> QED BY ONLY <2>2, <2>3, <2>4
<1>6. order = <<>> => ref = ReferenceTime(arrival) /\ clock = ref * RefUs
  OBVIOUS
<1>7. order # <<>> => ref = referenceTime /\ clock = time
  OBVIOUS
<1> HIDE DEF arrival, ref, clock
<1>8. delta \in Int /\ time' \in Int /\ SignalledBy(delta) \in 1..2
  BY ONLY <1>1, <1>4, <1>5, DeltaTypes
<1>9. /\ order' \in Seq(C) /\ Len(order') = n + 1
      /\ order'[n + 1] = [seq |-> seq, clock |-> time'] /\ \A k \in 1..n : order'[k] = order[k]
  <2>1. [seq |-> seq, clock |-> time'] \in C
    BY ONLY <1>8, seq \in Seqs
  <2> HIDE DEF C
  <2> QED BY ONLY <1>1, <1>3, <2>1, AppendFacts
<1>10. /\ deltas \in Seq(Int) /\ Len(deltas) = n
       /\ deltas'[n + 1] = delta /\ \A k \in 1..n : deltas'[k] = deltas[k]
  <2>1. deltas \in Seq(Int) /\ Len(deltas) = n
    BY <1>2 DEF SymbolsPart
  <2> HIDE DEF delta, n
  <2> QED BY ONLY <1>1, <1>8, <2>1, AppendFacts
<1>11. order = <<>> <=> n = 0
  BY ONLY <1>3
<1>12. /\ order' # <<>> => time' = order'[Len(order')].clock
       /\ referenceTime' \in Int
  <2>1. time' = order'[n + 1].clock
    BY ONLY <1>9
  <2> QED BY ONLY <1>1, <1>5, <1>9, <2>1
<1> HIDE DEF delta, n, C
<1>13. ASSUME Close, OneRound
       PROVE  /\ \A k \in 1..(n + 1) :
                   order'[k].clock = ClockBefore(k)' + TickUs * WriteDelta(deltas'[k]).value
              /\ \E m \in Nat :
                   /\ \A s \in DOMAIN packets : m * Round <= packets[s]
                   /\ \A k \in 1..(n + 1) :
                        OnTick(order'[k].clock) /\ Near(packets[order'[k].seq], order'[k].clock, m)
  <2>1. /\ TickUs \in Nat \ {0} /\ Round \in Nat \ {0} /\ TickUs * HalfShort \in Nat
        /\ RefUs \in Nat \ {0} /\ RefUs <= TickUs * HalfShort /\ HalfShort \in Nat \ {0}
    BY ONLY Widths
  <2>2. \A k \in 1..n : order[k].clock = ClockBefore(k) + TickUs * WriteDelta(deltas[k]).value
    BY <1>2, <1>13 DEF ClockPart, n
  <2>3. PICK m \in Nat :
          /\ \A s \in DOMAIN packets : m * Round <= packets[s]
          /\ \A k \in 1..n : OnTick(order[k].clock) /\ Near(packets[order[k].seq], order[k].clock, m)
          /\ OnTick(clock)
          /\ \E x \in Int : /\ arrival = clock + m * Round + x
                            /\ -(TickUs * HalfShort) < x /\ x < TickUs * HalfShort
    <3>1. CASE n = 0
      <4> DEFINE m == Rounds(arrival)
      <4>1. /\ m \in Nat /\ OnTick(ReferenceTime(arrival) * RefUs)
            /\ \E x \in 0..(RefUs - 1) : arrival = ReferenceTime(arrival) * RefUs + m * Round + x
        BY ONLY <1>4, ReferenceBefore
      <4> PICK x \in 0..(RefUs - 1) : arrival = ReferenceTime(arrival) * RefUs + m * Round + x
        BY ONLY <4>1
      <4>2. arrival = clock + m * Round + x /\ OnTick(clock)
        BY ONLY <1>6, <1>11, <3>1, <4>1, arrival = ReferenceTime(arrival) * RefUs + m * Round + x
      <4>3. x \in Int /\ -(TickUs * HalfShort) < x /\ x < TickUs * HalfShort
        BY ONLY <2>1, x \in 0..(RefUs - 1)
      <4>4. 1..n = {}
        BY ONLY <3>1
      <4>5. DOMAIN packets = left /\ \A s \in left : seq <= s
        <5>1. DOMAIN packets = left \cup {order[k].seq : k \in 1..n}
          BY <1>1, <1>2 DEF OrderPart, n
        <5>2. \A s \in left : seq <= s
          BY DEF AddStatus
        <5> QED BY ONLY <4>4, <5>1, <5>2
      <4>6. \A s \in DOMAIN packets : m * Round <= packets[s]
        <5>1. \A s \in DOMAIN packets : packets[s] >= Rounds(packets[seq]) * (RefUs * RefValues)
          BY ONLY <1>3, <1>13, <4>5 DEF OneRound
        <5>2. \A s \in DOMAIN packets : packets[s] \in Int
          BY ONLY <1>2, ArrivalType
        <5>3. m * Round \in Int
          BY ONLY <2>1, <4>1
        <5> DEFINE w == m * Round
        <5>4. w = Rounds(packets[seq]) * (RefUs * RefValues)
          BY ONLY TRUE DEF Round, arrival
        <5>5. \A s \in DOMAIN packets : packets[s] >= w
          BY ONLY <5>1, <5>4
        <5> HIDE DEF w
        <5>6. \A s \in DOMAIN packets : w <= packets[s]
          BY ONLY <5>2, <5>3, <5>5 DEF w
        <5> QED BY ONLY <5>6 DEF w
      <4> HIDE DEF m
      <4> QED BY ONLY <4>1, <4>2, <4>3, <4>4, <4>6
    <3>2. CASE n # 0
      <4>1. PICK m \in Nat :
              /\ \A s \in DOMAIN packets : m * Round <= packets[s]
              /\ \A k \in 1..n :
                   OnTick(order[k].clock) /\ Near(packets[order[k].seq], order[k].clock, m)
        BY <1>2, <1>13 DEF ClockPart, n
      <4> DEFINE last == packets[order[n].seq]
                 e == last - (clock + m * Round)
                 x == arrival - (clock + m * Round)
      <4>2. n \in 1..n
        BY ONLY <1>3, <3>2
      <4>3. clock = order[n].clock
        <5>1. order # <<>>
          BY ONLY <1>11, <3>2
        <5>2. time = order[n].clock
          BY <1>2, <5>1 DEF ClockPart, n
        <5> QED BY ONLY <1>7, <5>1, <5>2
      <4>4. -TickUs < e /\ e < TickUs /\ OnTick(clock)
        BY ONLY <4>1, <4>2, <4>3 DEF Near
      <4>5. order[n].seq \in DOMAIN packets
        BY <1>2, <4>2 DEF PacketsPart, n
      <4>6. last \in Int
        BY ONLY <1>2, <4>5, ArrivalType
      <4>7. arrival - last < TickUs * HalfShort - TickUs /\ last - arrival < TickUs * HalfShort - TickUs
        <5>1. TickUs * (HalfShort - 1) = TickUs * HalfShort - TickUs
          BY ONLY <2>1
        <5>2. \A s, t \in DOMAIN packets : packets[s] - packets[t] < TickUs * (HalfShort - 1)
          BY ONLY <1>13 DEF Close, HalfShort
        <5> QED BY ONLY <1>3, <4>5, <5>1, <5>2 DEF arrival
      <4> HIDE DEF last
      <4>8. m * Round \in Int
        BY ONLY <2>1, <4>1
      <4>9. /\ x \in Int /\ arrival = clock + m * Round + x
            /\ -(TickUs * HalfShort) < x /\ x < TickUs * HalfShort
        <5> DEFINE w == m * Round
                   u == TickUs * HalfShort
        <5>1. w \in Int /\ u \in Nat
          BY ONLY <2>1, <4>8
        <5> HIDE DEF w, u
        <5>2. x = arrival - (clock + w) /\ e = last - (clock + w)
          BY DEF w
        <5>3. -TickUs < last - (clock + w) /\ last - (clock + w) < TickUs
          BY ONLY <4>4, <5>2
        <5>4. arrival - last < u - TickUs /\ last - arrival < u - TickUs
          BY ONLY <4>7 DEF u
        <5>5. x \in Int /\ arrival = clock + w + x /\ -u < x /\ x < u
          BY ONLY <1>4, <1>5, <2>1, <4>6, <5>1, <5>2, <5>3, <5>4
        <5> QED BY ONLY <5>5 DEF u, w
      <4> HIDE DEF x
      <4> QED BY ONLY <4>1, <4>4, <4>9
    <3> QED BY ONLY <3>1, <3>2
  <2>4. PICK x \in Int : /\ arrival = clock + m * Round + x
                         /\ -(TickUs * HalfShort) < x /\ x < TickUs * HalfShort
    BY ONLY <2>3
  <2>5. PICK d \in Int : /\ time' = clock + TickUs * d /\ WriteDelta(delta).value = d
                         /\ -TickUs < x - TickUs * d /\ x - TickUs * d < TickUs
                         /\ OnTick(time')
    <3>1. m * Round <= arrival
      BY ONLY <1>3, <2>3 DEF arrival
    <3> QED BY ONLY <1>1, <1>4, <1>5, <2>3, <2>4, <3>1, TimeStep DEF delta
  <2>6. order'[n + 1].clock = time' /\ order'[n + 1].seq = seq
    BY ONLY <1>9
  <2>7. ASSUME NEW k \in 1..(n + 1)
        PROVE  order'[k].clock = ClockBefore(k)' + TickUs * WriteDelta(deltas'[k]).value
    <3>1. CASE k = n + 1
      <4>1. ClockBefore(k)' = clock
        <5>1. CASE n = 0
          BY ONLY <1>1, <1>6, <1>11, <3>1, <5>1 DEF ClockBefore
        <5>2. CASE n # 0
          <6>1. n \in 1..n /\ k # 1 /\ k - 1 = n
            BY ONLY <1>3, <3>1, <5>2
          <6>2. order # <<>>
            BY ONLY <1>11, <5>2
          <6>3. time = order[n].clock
            BY <1>2, <6>2 DEF ClockPart, n
          <6>4. order'[n] = order[n]
            BY ONLY <1>9, <6>1
          <6> QED BY ONLY <1>7, <6>1, <6>2, <6>3, <6>4 DEF ClockBefore
        <5> QED BY ONLY <5>1, <5>2
      <4> QED BY ONLY <1>10, <2>5, <2>6, <3>1, <4>1
    <3>2. CASE k \in 1..n
      <4>1. order'[k] = order[k] /\ deltas'[k] = deltas[k]
        BY ONLY <1>9, <1>10, <3>2
      <4>2. ClockBefore(k)' = ClockBefore(k)
        <5>1. n # 0
          BY ONLY <3>2
        <5>2. referenceTime' = referenceTime
          BY ONLY <1>1, <1>7, <1>11, <5>1
        <5>3. k # 1 => k - 1 \in 1..n
          BY ONLY <1>3, <3>2
        <5>4. k # 1 => order'[k - 1] = order[k - 1]
          BY ONLY <1>9, <5>3
        <5> QED BY ONLY <5>2, <5>4 DEF ClockBefore
      <4> QED BY ONLY <2>2, <3>2, <4>1, <4>2
    <3> QED BY ONLY <1>3, <2>7, <3>1, <3>2
  <2>8. ASSUME NEW k \in 1..(n + 1)
        PROVE  OnTick(order'[k].clock) /\ Near(packets[order'[k].seq], order'[k].clock, m)
    <3>1. CASE k = n + 1
      <4> DEFINE w == m * Round
                 v == TickUs * d
      <4>1. w \in Int /\ v \in Int
        BY ONLY <2>1, <2>3, <2>5
      <4> HIDE DEF w, v
      <4>2. time' = clock + v /\ arrival = clock + w + x /\ -TickUs < x - v /\ x - v < TickUs
        BY ONLY <2>4, <2>5 DEF v, w
      <4>3. arrival - (time' + w) = x - v
        BY ONLY <1>4, <1>5, x \in Int, <4>1, <4>2
      <4>4. packets[order'[k].seq] = arrival /\ order'[k].clock = time'
        BY ONLY <2>6, <3>1 DEF arrival
      <4> QED BY ONLY <2>5, <4>2, <4>3, <4>4 DEF Near, w
    <3>2. CASE k \in 1..n
      <4>1. order'[k] = order[k]
        BY ONLY <1>9, <3>2
      <4> QED BY ONLY <2>3, <3>2, <4>1
    <3> QED BY ONLY <1>3, <2>8, <3>1, <3>2
  <2> QED BY ONLY <2>3, <2>7, <2>8
<1>14. (Close' <=> Close) /\ (OneRound' <=> OneRound)
  BY ONLY <1>1 DEF Close, OneRound
<1>15. ClockPart'
  BY ONLY <1>1, <1>8, <1>9, <1>12, <1>13, <1>14 DEF ClockPart, OnTick, Near
<1> QED BY ONLY <1>1, <1>8, <1>9, <1>15 DEF C, n

(* Behind the loop over packets, its results stay. *)
LEMMA LoopDone ==
  ASSUME FeedbackInv, step \in {"packets", "deltas"}, left = {},
         UNCHANGED <<packets, looping>>, step' \in {"deltas", "done"}
  PROVE  PacketsPart' /\ SymbolsPart' /\ ClockPart' /\ OrderPart'
<1>1. PacketsPart /\ SymbolsPart /\ ClockPart /\ OrderPart
  BY DEF FeedbackInv
<1>2. UNCHANGED <<packets, left, order, referenceTime, time, symbolList, deltas>>
  BY DEF looping
<1>3. PacketsPart'
  BY <1>1, <1>2 DEF PacketsPart
<1>4. SymbolsPart'
  BY ONLY <1>1, <1>2 DEF SymbolsPart, SignalledBy, IsSmall, SmallDelta, LargeOrNegativeDelta
<1>5. ClockPart'
  BY ONLY <1>1, <1>2 DEF ClockPart, Close, OneRound, ClockBefore, OnTick, Near
<1>6. OrderPart'
  <2>1. step # "none"
    OBVIOUS
  <2> QED BY ONLY <1>1, <1>2, <2>1 DEF OrderPart, NoGaps
<1> QED BY ONLY <1>3, <1>4, <1>5, <1>6

(* The chunks are as many as hold the symbols and no more, of SymbolsInChunk
   symbols each. *)
LEMMA ChunkFacts ==
  ASSUME NEW ss \in Seq(0..3)
  PROVE  /\ Chunks(ss) \in Seq(Seq(0..3)) /\ Len(Chunks(ss)) \in Nat
         /\ \A c \in 1..Len(Chunks(ss)) :
              /\ Chunks(ss)[c] \in Seq(0..3) /\ Len(Chunks(ss)[c]) = SymbolsInChunk
              /\ \A j \in 1..SymbolsInChunk :
                   LET n == (c - 1) * SymbolsInChunk + j
                   IN  Chunks(ss)[c][j] = IF n <= Len(ss) THEN ss[n] ELSE NotReceived
         /\ \A c \in Nat : c < Len(Chunks(ss)) <=> c * SymbolsInChunk < Len(ss)
<1> DEFINE l == Len(ss)
           k == SymbolsInChunk
           a == l + k - 1
           q == a \div k
           Symbol(n) == IF n <= l THEN ss[n] ELSE NotReceived
           C(c) == [j \in 1..k |-> Symbol((c - 1) * k + j)]
<1>1. k \in Nat \ {0} /\ l \in Nat
  BY WidthAssumption
<1>2. a \in Nat
  BY ONLY <1>1
<1>3. q \in Nat
  BY ONLY <1>1, <1>2, DivNat
<1>4. Chunks(ss) = [c \in 1..q |-> C(c)]
  BY DEF Chunks
<1>5. ASSUME NEW c \in 1..q, NEW j \in 1..k PROVE Symbol((c - 1) * k + j) \in 0..3
  <2> DEFINE n == (c - 1) * k + j
  <2>1. n \in Int /\ n >= 1
    <3>1. (c - 1) * k \in Nat
      BY ONLY <1>1, <1>3, <1>5
    <3> QED BY ONLY <1>1, <1>5, <3>1
  <2> HIDE DEF n
  <2>2. n <= l => n \in 1..l
    BY ONLY <1>1, <2>1
  <2>3. \A m \in 1..l : ss[m] \in 0..3
    BY SequenceFacts
  <2>4. NotReceived \in 0..3
    BY DEF NotReceived
  <2> QED BY ONLY <2>2, <2>3, <2>4 DEF n
<1>6. ASSUME NEW c \in 1..q PROVE C(c) \in [1..k -> 0..3]
  BY ONLY <1>5, <1>6
<1>7. ASSUME NEW c \in 1..q PROVE C(c) \in Seq(0..3) /\ Len(C(c)) = k
  <2>1. C(c) \in [1..k -> 0..3] /\ k \in Nat
    BY ONLY <1>1, <1>6, <1>7
  <2> HIDE DEF C, k
  <2> QED BY ONLY <2>1, FunctionIsSequence
<1>8. Chunks(ss) \in Seq(Seq(0..3)) /\ Len(Chunks(ss)) = q
  <2>1. [c \in 1..q |-> C(c)] \in [1..q -> Seq(0..3)]
    BY ONLY <1>7
  <2>2. Chunks(ss) \in [1..q -> Seq(0..3)]
    BY ONLY <1>4, <2>1
  <2> HIDE DEF q
  <2> QED BY ONLY <1>3, <2>2, FunctionIsSequence
<1>9. ASSUME NEW c \in 1..q
      PROVE  /\ Chunks(ss)[c] \in Seq(0..3) /\ Len(Chunks(ss)[c]) = k
             /\ \A j \in 1..k : Chunks(ss)[c][j] = Symbol((c - 1) * k + j)
  <2>1. Chunks(ss)[c] = C(c)
    BY ONLY <1>4, <1>9
  <2>2. \A j \in 1..k : C(c)[j] = Symbol((c - 1) * k + j)
    OBVIOUS
  <2> HIDE DEF C, Symbol
  <2> QED BY ONLY <1>7, <1>9, <2>1, <2>2
<1>10. ASSUME NEW c \in Nat PROVE c < q <=> c * k < l
  <2> DEFINE r == a % k
  <2>1. q \in Int /\ r \in 0..(k - 1) /\ a = k * q + r
    BY ONLY <1>1, <1>2, DivMod, a \in Int
  <2>2. a = l + k - 1
    OBVIOUS
  <2> HIDE DEF q, r, a, l, k
  <2>3. k * q \in Int /\ k * c \in Int /\ c * k = k * c
    BY ONLY <1>1, <2>1, c \in Nat
  <2>4. ASSUME c < q PROVE k * c < l
    <3>1. k * c + k <= k * q
      BY ONLY <1>1, <2>1, <2>4, MultiplesApart, c \in Nat, c \in Int
    <3> QED BY ONLY <1>1, <2>1, <2>2, <2>3, <3>1
  <2>5. ASSUME q <= c PROVE ~(k * c < l)
    <3>1. k * q <= k * c
      <4>1. CASE q = c
        BY ONLY <2>3, <4>1
      <4>2. CASE q < c
        <5>1. k * q + k <= k * c
          BY ONLY <1>1, <2>1, <4>2, MultiplesApart, c \in Nat, c \in Int
        <5> QED BY ONLY <1>1, <2>3, <5>1
      <4> QED BY ONLY <2>1, <2>5, <4>1, <4>2, c \in Nat
    <3> QED BY ONLY <1>1, <2>1, <2>2, <2>3, <3>1
  <2> QED BY ONLY <2>1, <2>3, <2>4, <2>5, c \in Nat
<1> HIDE DEF q, l, k
<1>11. \A c \in 1..q : \A j \in 1..k :
         LET n == (c - 1) * k + j IN Chunks(ss)[c][j] = IF n <= l THEN ss[n] ELSE NotReceived
  BY ONLY <1>9
<1> HIDE DEF Symbol, C
<1> QED BY ONLY <1>3, <1>8, <1>9, <1>10, <1>11 DEF k, l

LEMMA WriteChunksStep ==
  ASSUME FeedbackInv, WriteChunks
  PROVE  FeedbackInv'
<1>1. /\ step = "packets" /\ left = {} /\ step' = "deltas" /\ UNCHANGED <<packets, looping>>
      /\ UNCHANGED <<order, referenceTime, symbolList, deltas>>
  BY DEF WriteChunks, looping
<1> DEFINE chunks == Chunks(symbolList)
           m == [base |-> order[1].seq % SeqValues, count |-> Cardinality(DOMAIN packets) % SeqValues,
                 ref |-> referenceTime, fb |-> WriteFbCount(feedbackPacketCount),
                 chunks |-> chunks, deltas |-> <<>>, size |-> HeaderSize + 2 * Len(chunks)]
<1>2. msg' = m
  BY DEF WriteChunks, BaseSeqNumber, PacketStatusCount
<1>3. PacketsPart' /\ SymbolsPart' /\ ClockPart' /\ OrderPart'
  BY <1>1, LoopDone
<1>4. /\ symbolList \in Seq(0..3) /\ referenceTime \in Int /\ deltas \in Seq(Int)
      /\ IsFiniteSet(DOMAIN packets) /\ DOMAIN packets # {}
      /\ Cardinality(DOMAIN packets) <= MaxPackets
      /\ order \in Seq([seq : Seqs, clock : Int])
      /\ Len(order) + Cardinality({}) = Cardinality(DOMAIN packets)
  BY <1>1 DEF FeedbackInv, PacketsPart, SymbolsPart, ClockPart
<1>5. chunks \in Seq(Seq(0..3)) /\ Len(chunks) \in Nat
  BY ONLY <1>4, ChunkFacts
<1>6. /\ SeqValues \in Nat \ {0} /\ MaxPackets \in Nat /\ MaxPackets < SeqValues
      /\ Seqs \subseteq 0..(SeqValues - 1)
  BY WidthAssumption
<1> DEFINE p == Cardinality(DOMAIN packets)
<1>7. p \in Nat /\ p # 0 /\ Len(order) = p
  <2>1. p \in Nat
    BY ONLY <1>4, FS_CardinalityType
  <2>2. p # 0 /\ Cardinality({}) = 0
    BY ONLY <1>4, FS_EmptySet
  <2> QED BY ONLY <1>4, <2>1, <2>2
<1> HIDE DEF p
<1>8. p % SeqValues = p /\ p \in Int
  <2>1. p < SeqValues
    BY ONLY <1>4, <1>6, <1>7 DEF p
  <2> QED BY ONLY <1>6, <1>7, <2>1, ModSmall
<1>9. order[1].seq % SeqValues = order[1].seq /\ order[1].seq \in Int
  <2>1. 1 \in 1..Len(order)
    BY ONLY <1>7
  <2>2. order[1] \in [seq : Seqs, clock : Int]
    BY ONLY <1>4, <2>1, SequenceFacts
  <2>3. order[1].seq \in Nat /\ order[1].seq < SeqValues
    <3>1. order[1].seq \in Seqs
      BY ONLY <2>2
    <3>2. \A q \in Seqs : q \in Nat /\ q < SeqValues
      BY ONLY <1>6
    <3> QED BY ONLY <3>1, <3>2
  <2> QED BY ONLY <1>6, <2>3, ModSmall
<1>10. HeaderSize + 2 * Len(chunks) \in Nat
  BY ONLY <1>5 DEF HeaderSize
<1>11. WriteFbCount(feedbackPacketCount) \in Int
  BY DEF WriteFbCount
<1>12. <<>> \in Seq(Records) /\ Len(<<>>) = 0
  OBVIOUS
<1>13. /\ m.base = order[1].seq /\ m.count = p /\ m.ref = referenceTime
       /\ m.chunks = chunks /\ m.deltas = <<>> /\ m.size = HeaderSize + 2 * Len(chunks)
  BY ONLY <1>8, <1>9 DEF p
<1>14. m \in [base : Int, count : Int, ref : Int, fb : Int,
              chunks : Seq(Seq(0..3)), deltas : Seq(Records), size : Nat]
  <2> DEFINE SS == Seq(Seq(0..3))
             SR == Seq(Records)
             size == HeaderSize + 2 * Len(chunks)
             base == order[1].seq % SeqValues
             fb == WriteFbCount(feedbackPacketCount)
             count == Cardinality(DOMAIN packets) % SeqValues
             none == <<>>
  <2>1. /\ base \in Int /\ count \in Int /\ fb \in Int /\ size \in Nat /\ none \in SR /\ chunks \in SS
    BY ONLY <1>5, <1>8, <1>9, <1>10, <1>11, <1>12 DEF p
  <2>2. m = [base |-> base, count |-> count, ref |-> referenceTime, fb |-> fb,
             chunks |-> chunks, deltas |-> none, size |-> size]
    OBVIOUS
  <2> HIDE DEF SS, SR, size, base, fb, count, none, chunks, m
  <2>3. m \in [base : Int, count : Int, ref : Int, fb : Int, chunks : SS, deltas : SR, size : Nat]
    BY ONLY <1>4, <2>1, <2>2
  <2> QED BY ONLY <2>3 DEF SS, SR
<1> HIDE DEF m
<1>15. 1..0 = {} /\ Len(deltas) \in Nat
  BY <1>4
<1>16. Place(m, 1) = HeaderSize + 2 * Len(chunks)
  BY ONLY <1>13 DEF Place
<1>17. \A k \in 1..(0 + 1) : Place(m, k) <= m.size
  <2>1. \A k \in 1..(0 + 1) : k = 1
    OBVIOUS
  <2>2. Place(m, 1) <= m.size
    BY ONLY <1>10, <1>13, <1>16
  <2> QED BY ONLY <2>1, <2>2
<1>18. Place(m, 0 + 1) <= Widest(m)
  <2>1. Widest(m) = (HeaderSize + 2 * Len(chunks)) + 2 * 0
    BY ONLY <1>12, <1>13 DEF Widest
  <2> QED BY ONLY <1>10, <1>16, <2>1
<1>19. MessagePart'
  BY ONLY <1>1, <1>2, <1>12, <1>13, <1>14, <1>15, <1>16, <1>17, <1>18 DEF MessagePart, p
<1> QED BY ONLY <1>3, <1>19 DEF FeedbackInv

(* Deltas start at numbers. *)
LEMMA PlaceType ==
  ASSUME NEW m \in [base : Int, count : Int, ref : Int, fb : Int,
                    chunks : Seq(Seq(0..3)), deltas : Seq(Records), size : Nat],
         NEW k \in 1..(Len(m.deltas) + 1)
  PROVE  Place(m, k) \in Nat
<1>1. m.deltas \in Seq(Records) /\ Len(m.deltas) \in Nat /\ Len(m.chunks) \in Nat
  OBVIOUS
<1>2. CASE k = 1
  <2>1. HeaderSize + 2 * Len(m.chunks) \in Nat
    BY ONLY <1>1 DEF HeaderSize
  <2> QED BY ONLY <1>2, <2>1 DEF Place
<1>3. CASE k # 1
  <2>1. k - 1 \in 1..Len(m.deltas)
    BY ONLY <1>1, <1>3, k \in 1..(Len(m.deltas) + 1)
  <2>2. m.deltas[k - 1] \in Records
    BY ONLY <1>1, <2>1, SequenceFacts
  <2>3. m.deltas[k - 1].at \in Nat
    BY ONLY <2>2 DEF Records
  <2> QED BY ONLY <1>3, <2>3 DEF Place
<1> QED BY ONLY <1>2, <1>3

LEMMA WriteNextDeltaStep ==
  ASSUME FeedbackInv, WriteNextDelta
  PROVE  FeedbackInv'
<1> DEFINE n == Len(msg.deltas)
           d == WriteDelta(deltas[n + 1])
           w == IF d.wide THEN 2 ELSE 1
           r == [wide |-> d.wide, value |-> d.value, at |-> msg.size,
                 clock |-> ReaderClock(msg) + TickUs * d.value]
           M == [base : Int, count : Int, ref : Int, fb : Int,
                 chunks : Seq(Seq(0..3)), deltas : Seq(Records), size : Nat]
<1>1. /\ step = "deltas" /\ step' = "deltas" /\ n < Len(deltas) /\ UNCHANGED <<packets, looping>>
      /\ UNCHANGED <<order, referenceTime, symbolList, deltas>>
      /\ msg' = [msg EXCEPT !.deltas = Append(@, r), !.size = @ + w]
  BY DEF WriteNextDelta, looping
<1>2. PacketsPart /\ SymbolsPart /\ ClockPart /\ MessagePart
  BY DEF FeedbackInv
<1>3. left = {}
  BY <1>1, <1>2 DEF PacketsPart
<1>4. PacketsPart' /\ SymbolsPart' /\ ClockPart' /\ OrderPart'
  BY <1>1, <1>3, LoopDone
<1>5. /\ msg \in M /\ msg.ref = referenceTime /\ msg.base = order[1].seq
      /\ msg.count = Cardinality(DOMAIN packets) /\ msg.chunks = Chunks(symbolList)
      /\ \A k \in 1..n : /\ msg.deltas[k].wide = ~IsSmall(deltas[k])
                         /\ msg.deltas[k].at = Place(msg, k)
                         /\ Close /\ OneRound => msg.deltas[k].clock = order[k].clock
      /\ \A k \in 1..(n + 1) : Place(msg, k) <= msg.size
      /\ msg.size = Place(msg, n + 1) /\ Place(msg, n + 1) <= Widest(msg)
  BY <1>1, <1>2 DEF MessagePart
<1>6. deltas \in Seq(Int) /\ Len(deltas) \in Nat /\ Len(order) = Len(deltas) /\ referenceTime \in Int
  BY <1>2 DEF SymbolsPart, ClockPart
<1>7. msg.deltas \in Seq(Records) /\ n \in Nat /\ msg.size \in Nat /\ msg.ref \in Int
  BY ONLY <1>5
<1>8. n + 1 \in 1..Len(deltas)
  BY ONLY <1>1, <1>6, <1>7
<1>9. d.value \in Int /\ d.wide = ~IsSmall(deltas[n + 1])
  <2>1. deltas[n + 1] \in Int
    BY ONLY <1>6, <1>8
  <2> HIDE DEF n
  <2> QED BY ONLY <2>1, WrittenType
<1>10. TickUs \in Nat /\ RefUs \in Nat
  BY Widths
<1>11. ReaderClock(msg) \in Int
  <2>1. msg.ref * RefUs \in Int
    BY ONLY <1>7, <1>10
  <2>2. msg.deltas # <<>> => n \in 1..n
    BY ONLY <1>7
  <2>3. msg.deltas # <<>> => msg.deltas[n].clock \in Int
    <3>1. msg.deltas # <<>> => msg.deltas[n] \in Records
      BY ONLY <1>7, <2>2, SequenceFacts
    <3>2. \A x \in Records : x.clock \in Int
      BY DEF Records
    <3> QED BY ONLY <3>1, <3>2
  <2> QED BY ONLY <2>1, <2>3 DEF ReaderClock
<1>12. r \in Records /\ r.wide = d.wide /\ r.at = msg.size
       /\ r.clock = ReaderClock(msg) + TickUs * d.value
  <2> DEFINE c == ReaderClock(msg) + TickUs * d.value
  <2>1. c \in Int
    <3>1. TickUs * d.value \in Int
      BY ONLY <1>9, <1>10
    <3> QED BY ONLY <1>11, <3>1
  <2>2. d.wide \in BOOLEAN
    BY ONLY <1>9
  <2> HIDE DEF c, d
  <2>3. [wide |-> d.wide, value |-> d.value, at |-> msg.size, clock |-> c] \in Records
    BY ONLY <1>7, <1>9, <2>1, <2>2 DEF Records
  <2> QED BY ONLY <2>3 DEF c
<1> HIDE DEF r
<1>13. w \in {1, 2}
  OBVIOUS
<1>14. w = IF r.wide THEN 2 ELSE 1
  BY ONLY <1>12
<1> HIDE DEF d, w
<1> DEFINE ds == Append(msg.deltas, r)
<1>15. /\ ds \in Seq(Records) /\ Len(ds) = n + 1 /\ ds[n + 1] = r /\ \A k \in 1..n : ds[k] = msg.deltas[k]
  BY ONLY <1>7, <1>12, AppendFacts
<1>16. /\ msg' \in M /\ msg'.count = msg.count /\ msg'.ref = msg.ref /\ msg'.chunks = msg.chunks
       /\ msg'.deltas = ds /\ msg'.size = msg.size + w /\ msg'.base = msg.base
  <2>1. msg' = [msg EXCEPT !.deltas = ds, !.size = msg.size + w]
    BY ONLY <1>1, <1>5
  <2>2. msg.size + w \in Nat
    BY ONLY <1>7, <1>13
  <2> DEFINE SS == Seq(Seq(0..3))
             SR == Seq(Records)
             z == msg.size + w
  <2>3. ds \in SR /\ z \in Nat
    BY ONLY <1>15, <2>2
  <2>4. msg \in [base : Int, count : Int, ref : Int, fb : Int, chunks : SS, deltas : SR, size : Nat]
    BY ONLY <1>5
  <2>5. msg' = [msg EXCEPT !.deltas = ds, !.size = z]
    BY ONLY <2>1
  <2> HIDE DEF SS, SR, ds, z
  <2>6. /\ msg' \in [base : Int, count : Int, ref : Int, fb : Int, chunks : SS, deltas : SR, size : Nat]
        /\ msg'.count = msg.count /\ msg'.ref = msg.ref /\ msg'.chunks = msg.chunks
        /\ msg'.deltas = ds /\ msg'.size = z /\ msg'.base = msg.base
    BY ONLY <2>3, <2>4, <2>5
  <2> QED BY ONLY <2>6 DEF SS, SR, z
<1> HIDE DEF ds, n, M
<1>17. ASSUME NEW k \in 1..(n + 1) PROVE Place(msg', k) = Place(msg, k)
  <2>1. k # 1 => k - 1 \in 1..n
    BY ONLY <1>7, <1>17
  <2>2. k # 1 => ds[k - 1] = msg.deltas[k - 1]
    BY ONLY <1>15, <2>1
  <2> QED BY ONLY <1>16, <2>2 DEF Place
<1>18. Close /\ OneRound => r.clock = order[n + 1].clock
  <2>1. SUFFICES ASSUME Close, OneRound PROVE r.clock = order[n + 1].clock
    OBVIOUS
  <2>2. order[n + 1].clock = ClockBefore(n + 1) + TickUs * d.value
    <3>1. n + 1 \in 1..Len(order)
      BY ONLY <1>6, <1>8
    <3> QED BY <1>2, <2>1, <3>1 DEF ClockPart, d
  <2>3. ReaderClock(msg) = ClockBefore(n + 1)
    <3>1. CASE n = 0
      <4>1. msg.deltas = <<>>
        BY ONLY <1>7, <3>1 DEF n
      <4>2. n + 1 = 1
        BY ONLY <3>1
      <4> QED BY ONLY <1>5, <4>1, <4>2 DEF ReaderClock, ClockBefore
    <3>2. CASE n # 0
      <4>1. msg.deltas # <<>> /\ n \in 1..n /\ n + 1 # 1 /\ (n + 1) - 1 = n
        BY ONLY <1>7, <3>2 DEF n
      <4>2. msg.deltas[n].clock = order[n].clock
        BY ONLY <1>5, <2>1, <4>1
      <4>3. ReaderClock(msg) = msg.deltas[n].clock
        BY ONLY <4>1 DEF ReaderClock, n
      <4>4. ClockBefore(n + 1) = order[n].clock
        BY ONLY <4>1 DEF ClockBefore
      <4> QED BY ONLY <4>2, <4>3, <4>4
    <3> QED BY ONLY <3>1, <3>2
  <2> QED BY ONLY <1>12, <2>2, <2>3
<1>19. ASSUME NEW k \in 1..(n + 1)
       PROVE  /\ ds[k].wide = ~IsSmall(deltas[k])
              /\ ds[k].at = Place(msg', k)
              /\ Close /\ OneRound => ds[k].clock = order[k].clock
  <2>1. CASE k \in 1..n
    BY ONLY <1>5, <1>15, <1>17, <1>19, <2>1
  <2>2. CASE k = n + 1
    BY ONLY <1>5, <1>9, <1>12, <1>15, <1>17, <1>18, <1>19, <2>2
  <2> QED BY ONLY <1>7, <1>19, <2>1, <2>2
<1>20. msg'.size = Place(msg', (n + 1) + 1)
  <2>1. n + 1 \in 1..(n + 1) /\ ((n + 1) + 1) - 1 = n + 1 /\ (n + 1) + 1 # 1
    BY ONLY <1>7
  <2>2. Place(msg', (n + 1) + 1) = ds[n + 1].at + (IF ds[n + 1].wide THEN 2 ELSE 1)
    BY ONLY <1>16, <2>1 DEF Place
  <2> QED BY ONLY <1>12, <1>14, <1>15, <1>16, <2>2
<1>21. (Close' <=> Close) /\ (OneRound' <=> OneRound)
  BY ONLY <1>1 DEF Close, OneRound
<1>22. n + 1 <= Len(deltas)
  BY ONLY <1>6, <1>8
<1>23. MessagePart'
  <2>1. /\ msg'.count = Cardinality(DOMAIN packets') /\ msg'.ref = referenceTime'
        /\ msg'.chunks = Chunks(symbolList') /\ msg'.base = order'[1].seq
    BY ONLY <1>1, <1>5, <1>16
  <2>2. Len(msg'.deltas) = n + 1 /\ Len(msg'.deltas) <= Len(deltas')
    BY ONLY <1>1, <1>15, <1>16, <1>22
  <2>3. \A k \in 1..Len(msg'.deltas) :
          /\ msg'.deltas[k].wide = ~IsSmall(deltas'[k])
          /\ msg'.deltas[k].at = Place(msg', k)
          /\ Close' /\ OneRound' => msg'.deltas[k].clock = order'[k].clock
    BY ONLY <1>1, <1>16, <1>19, <1>21, <2>2
  <2>4. msg'.size = Place(msg', Len(msg'.deltas) + 1)
    BY ONLY <1>20, <2>2
  <2>5. \A k \in 1..(Len(msg'.deltas) + 1) : Place(msg', k) <= msg'.size
    <3>1. ASSUME NEW k \in 1..((n + 1) + 1) PROVE Place(msg', k) <= msg'.size
      <4>1. CASE k \in 1..(n + 1)
        <5>1. Place(msg', k) = msg.size \/ Place(msg', k) <= msg.size
          BY ONLY <1>5, <1>17, <4>1
        <5>2. Place(msg, k) \in Nat
          <6>1. msg \in M /\ k \in 1..(Len(msg.deltas) + 1)
            BY ONLY <1>5, <4>1 DEF n
          <6> QED BY ONLY <6>1, PlaceType DEF M
        <5>3. Place(msg', k) \in Int
          BY ONLY <1>17, <4>1, <5>2
        <5> QED BY ONLY <1>7, <1>13, <1>16, <5>1, <5>3
      <4>2. CASE k = (n + 1) + 1
        <5>1. msg'.size \in Nat
          BY ONLY <1>7, <1>13, <1>16
        <5> QED BY ONLY <1>20, <4>2, <5>1
      <4> QED BY ONLY <1>7, <3>1, <4>1, <4>2
    <3> QED BY ONLY <2>2, <3>1
  <2>6. Place(msg', Len(msg'.deltas) + 1) <= Widest(msg')
    <3> DEFINE h == HeaderSize + 2 * Len(msg.chunks)
    <3>1. Len(msg.chunks) \in Nat
      BY ONLY <1>5 DEF M
    <3>2. h \in Nat
      BY ONLY <3>1 DEF HeaderSize
    <3>3. Widest(msg) = h + 2 * n /\ Widest(msg') = h + 2 * (n + 1)
      BY ONLY <1>16, <2>2 DEF Widest, n
    <3> HIDE DEF h
    <3>4. msg.size <= h + 2 * n
      BY ONLY <1>5, <3>3
    <3>5. msg.size + w <= h + 2 * (n + 1)
      BY ONLY <1>7, <1>13, <3>2, <3>4
    <3> QED BY ONLY <1>16, <2>4, <3>3, <3>5
  <2> QED BY ONLY <1>1, <1>16, <2>1, <2>2, <2>3, <2>4, <2>5, <2>6 DEF MessagePart, M
<1> QED BY ONLY <1>4, <1>23 DEF FeedbackInv

LEMMA PadStep ==
  ASSUME FeedbackInv, Pad
  PROVE  FeedbackInv'
<1> DEFINE n == Len(msg.deltas)
           z == 4 * ((msg.size + 3) \div 4)
           SS == Seq(Seq(0..3))
           SR == Seq(Records)
           M == [base : Int, count : Int, ref : Int, fb : Int, chunks : SS, deltas : SR, size : Nat]
<1>1. /\ step = "deltas" /\ step' = "done" /\ n = Len(deltas) /\ UNCHANGED <<packets, looping>>
      /\ UNCHANGED <<order, referenceTime, symbolList, deltas>>
      /\ msg' = [msg EXCEPT !.size = 4 * ((@ + 3) \div 4)]
  BY DEF Pad, Padded, looping
<1>2. PacketsPart /\ MessagePart
  BY DEF FeedbackInv
<1>3. left = {}
  BY <1>1, <1>2 DEF PacketsPart
<1>4. PacketsPart' /\ SymbolsPart' /\ ClockPart' /\ OrderPart'
  BY <1>1, <1>3, LoopDone
<1>5. /\ msg \in M /\ msg.ref = referenceTime /\ msg.base = order[1].seq
      /\ msg.count = Cardinality(DOMAIN packets) /\ msg.chunks = Chunks(symbolList)
      /\ \A k \in 1..n : /\ msg.deltas[k].wide = ~IsSmall(deltas[k])
                         /\ msg.deltas[k].at = Place(msg, k)
                         /\ Close /\ OneRound => msg.deltas[k].clock = order[k].clock
      /\ \A k \in 1..(n + 1) : Place(msg, k) <= msg.size
      /\ msg.size = Place(msg, n + 1) /\ Place(msg, n + 1) <= Widest(msg)
  BY <1>1, <1>2 DEF MessagePart
<1>6. z \in Nat /\ z - msg.size \in 0..3 /\ z % 4 = 0
  <2>1. msg.size \in Nat
    BY ONLY <1>5
  <2>2. ASSUME NEW q \in Nat PROVE (4 * q) % 4 = 0
    BY ONLY q \in Nat
  <2>3. (msg.size + 3) \div 4 \in Nat
    BY ONLY <2>1
  <2>4. z % 4 = 0
    BY ONLY <2>2, <2>3
  <2> QED BY ONLY <2>1, <2>4
<1> HIDE DEF SS, SR
<1>7. /\ msg' \in M /\ msg'.count = msg.count /\ msg'.ref = msg.ref /\ msg'.chunks = msg.chunks
      /\ msg'.deltas = msg.deltas /\ msg'.size = z /\ msg'.base = msg.base
  <2>1. msg' = [msg EXCEPT !.size = z]
    BY ONLY <1>1, <1>5
  <2> HIDE DEF z
  <2> QED BY ONLY <1>5, <1>6, <2>1
<1> HIDE DEF z, n
<1>8. (\A k : Place(msg', k) = Place(msg, k)) /\ Widest(msg') = Widest(msg)
  BY ONLY <1>7 DEF Place, Widest
<1>9. (Close' <=> Close) /\ (OneRound' <=> OneRound)
  BY ONLY <1>1 DEF Close, OneRound
<1>10. Len(deltas) <= Len(deltas)
  <2>1. deltas \in Seq(Int)
    BY DEF FeedbackInv, SymbolsPart
  <2> QED BY ONLY <2>1
<1>11. msg'.size - Place(msg', n + 1) \in 0..3
  BY ONLY <1>5, <1>6, <1>7, <1>8
<1>12. ASSUME NEW k \in 1..(n + 1) PROVE Place(msg', k) <= msg'.size
  <2>1. Place(msg, k) <= msg.size /\ msg.size \in Nat
    BY ONLY <1>5, <1>12
  <2>2. Place(msg, k) \in Nat
    BY ONLY <1>5, <1>12, PlaceType DEF M, n, SS, SR
  <2> QED BY ONLY <1>6, <1>7, <1>8, <2>1, <2>2
<1>13. MessagePart'
  BY ONLY <1>1, <1>5, <1>6, <1>7, <1>8, <1>9, <1>10, <1>11, <1>12 DEF MessagePart, M, IsSmall, n, SS, SR
<1> QED BY ONLY <1>4, <1>13 DEF FeedbackInv

LEMMA InsertStep ==
  ASSUME FeedbackInv, NEW seq \in Seqs, NEW arrival \in Times, InsertPacket(seq, arrival)
  PROVE  FeedbackInv'
<1> DEFINE D == DOMAIN packets \cup {seq}
<1>1. /\ step = "none" /\ step' = "none" /\ Cardinality(D) <= MaxPackets
      /\ packets' = [s \in D |-> IF s = seq THEN arrival ELSE packets[s]]
      /\ UNCHANGED <<left, order, referenceTime, time, symbolList, deltas, msg>>
  BY DEF InsertPacket, looping
<1>2. PacketsPart /\ SymbolsPart /\ ClockPart
  BY DEF FeedbackInv
<1>3. order = <<>> /\ order' = <<>>
  BY <1>1, <1>2 DEF PacketsPart
<1>4. PacketsPart'
  <2>1. DOMAIN packets' = D
    BY ONLY <1>1
  <2>2. IsFiniteSet(D)
    BY <1>2, FS_AddElement DEF PacketsPart
  <2>3. D \subseteq Seqs /\ D # {}
    BY <1>2 DEF PacketsPart
  <2>4. ASSUME NEW s \in D PROVE packets'[s] \in Times
    <3>1. s # seq => s \in DOMAIN packets /\ packets[s] \in Times
      BY <1>2, <2>4 DEF PacketsPart
    <3> QED BY ONLY <1>1, <2>4, <3>1, arrival \in Times
  <2>5. order' \in Seq([seq : Seqs, clock : Int]) /\ Len(order') = 0
    BY <1>3
  <2>6. 1..0 = {}
    OBVIOUS
  <2> HIDE DEF D
  <2> QED BY ONLY <1>1, <1>3, <2>1, <2>2, <2>3, <2>4, <2>5, <2>6 DEF PacketsPart
<1>5. SymbolsPart'
  BY ONLY <1>1, <1>2 DEF SymbolsPart, SignalledBy, IsSmall, SmallDelta, LargeOrNegativeDelta
<1>6. ClockPart'
  <2>1. Len(order') = 0 /\ 1..0 = {} /\ 0 \in Nat
    BY ONLY <1>3
  <2>2. referenceTime' \in Int /\ time' \in Int
    BY ONLY <1>1, <1>2 DEF ClockPart
  <2>3. \A s \in DOMAIN packets' : 0 * Round <= packets'[s]
    <3>1. PacketsPart' => \A s \in DOMAIN packets' : packets'[s] \in Times
      BY DEF PacketsPart
    <3>2. 0 * Round = 0
      BY ONLY Widths
    <3> QED BY ONLY <1>4, <3>1, <3>2, Ticks
  <2> QED BY ONLY <1>3, <2>1, <2>2, <2>3 DEF ClockPart
<1>7. MessagePart' /\ OrderPart'
  BY ONLY <1>1 DEF MessagePart, OrderPart
<1> QED BY ONLY <1>4, <1>5, <1>6, <1>7 DEF FeedbackInv

LEMMA SerializeStep ==
  ASSUME FeedbackInv, Serialize
  PROVE  FeedbackInv'
<1>1. /\ step = "none" /\ step' = "packets" /\ packets # <<>> /\ left' = DOMAIN packets
      /\ UNCHANGED <<packets, order, referenceTime, time, symbolList, deltas, msg>>
  BY DEF Serialize
<1>2. PacketsPart /\ SymbolsPart /\ ClockPart
  BY DEF FeedbackInv
<1>3. PacketsPart'
  <2>1. order = <<>> /\ DOMAIN packets # {} /\ IsFiniteSet(DOMAIN packets)
    BY <1>1, <1>2 DEF PacketsPart
  <2>2. Cardinality(DOMAIN packets) \in Nat
    BY ONLY <2>1, FS_CardinalityType
  <2>3. Len(order') + Cardinality(left') = Cardinality(DOMAIN packets')
    BY ONLY <1>1, <2>1, <2>2
  <2> QED BY <1>1, <1>2, <2>1, <2>3 DEF PacketsPart
<1>4. SymbolsPart'
  BY ONLY <1>1, <1>2 DEF SymbolsPart, SignalledBy, IsSmall, SmallDelta, LargeOrNegativeDelta
<1>5. ClockPart'
  BY ONLY <1>1, <1>2 DEF ClockPart, Close, OneRound, ClockBefore, OnTick, Near
<1>6. MessagePart'
  BY ONLY <1>1 DEF MessagePart
<1>7. OrderPart'
  <2>1. order' = <<>> /\ Len(order') = 0 /\ 1..0 = {} /\ DOMAIN packets' = left'
    BY <1>1, <1>2 DEF PacketsPart
  <2> QED BY ONLY <2>1 DEF OrderPart
<1> QED BY ONLY <1>3, <1>4, <1>5, <1>6, <1>7 DEF FeedbackInv

(* Every step of the sender keeps its invariant. *)
LEMMA FeedbackStep ==
  ASSUME FeedbackInv, FeedbackNext
  PROVE  FeedbackInv'
<1>1. CASE \E seq \in Seqs, arrival \in Times : InsertPacket(seq, arrival)
  BY <1>1, InsertStep
<1>2. CASE Serialize
  BY <1>2, SerializeStep
<1>3. CASE \E seq \in Seqs : AddStatus(seq)
  <2>1. PICK seq \in Seqs : AddStatus(seq)
    BY <1>3
  <2>2. /\ ClockPart' /\ order' \in Seq([seq : Seqs, clock : Int]) /\ Len(order') = Len(order) + 1
        /\ \E d \in Int : /\ deltas' = Append(deltas, d)
                          /\ symbolList' = Append(symbolList, SignalledBy(d))
                          /\ SignalledBy(d) \in 1..2
    BY ONLY <2>1, AddStatusClock, FeedbackInv
  <2>3. SymbolsPart'
    BY ONLY <2>1, <2>2, AddStatusSymbols, FeedbackInv
  <2>4. PacketsPart'
    BY ONLY <2>1, <2>2, AddStatusPackets, FeedbackInv
  <2>5. MessagePart'
    <3>1. step' = "packets"
      BY <2>1 DEF AddStatus
    <3> QED BY ONLY <3>1 DEF MessagePart
  <2>6. OrderPart'
    BY ONLY <2>1, <2>2, AddStatusOrder, FeedbackInv
  <2> QED BY ONLY <2>2, <2>3, <2>4, <2>5, <2>6 DEF FeedbackInv
<1>4. CASE WriteChunks
  BY <1>4, WriteChunksStep
<1>5. CASE WriteNextDelta
  BY <1>5, WriteNextDeltaStep
<1>6. CASE Pad
  BY <1>6, PadStep
<1> QED BY <1>1, <1>2, <1>3, <1>4, <1>5, <1>6 DEF FeedbackNext

-----------------------------------------------------------------------------
(* Parse keeps the invariant.                                              *)

(* Parse changes nothing of the sender. *)
LEMMA FeedbackSame ==
  ASSUME FeedbackInv, UNCHANGED feedback
  PROVE  FeedbackInv'
<1>1. PacketsPart /\ SymbolsPart /\ ClockPart /\ OrderPart /\ MessagePart
  BY DEF FeedbackInv
<1>2. UNCHANGED <<packets, step, left, order, referenceTime, time, symbolList, deltas, msg>>
  BY DEF feedback, looping
<1>3. PacketsPart'
  BY ONLY <1>1, <1>2 DEF PacketsPart
<1>4. SymbolsPart'
  BY ONLY <1>1, <1>2 DEF SymbolsPart, SignalledBy, IsSmall, SmallDelta, LargeOrNegativeDelta
<1>5. ClockPart'
  BY ONLY <1>1, <1>2 DEF ClockPart, Close, OneRound, ClockBefore, OnTick, Near
<1>6. MessagePart'
  BY ONLY <1>1, <1>2 DEF MessagePart, Close, OneRound
<1>7. OrderPart'
  BY ONLY <1>1, <1>2 DEF OrderPart, NoGaps
<1> QED BY ONLY <1>3, <1>4, <1>5, <1>6, <1>7 DEF FeedbackInv

(* A message of Serialize: as many symbols, deltas and reported packets as
   there are packets. *)
LEMMA SerializedFacts ==
  ASSUME FeedbackInv, step = "done"
  PROVE  /\ msg \in [base : Int, count : Int, ref : Int, fb : Int,
                     chunks : Seq(Seq(0..3)), deltas : Seq(Records), size : Nat]
         /\ symbolList \in Seq(0..3) /\ Len(symbolList) \in Nat
         /\ Len(deltas) = Len(symbolList) /\ Len(msg.deltas) = Len(symbolList)
         /\ msg.count = Len(symbolList) /\ Cardinality(DOMAIN packets) = Len(symbolList)
         /\ Len(order) = Len(symbolList)
         /\ msg.chunks = Chunks(symbolList) /\ Len(msg.chunks) \in Nat
         /\ Place(msg, 1) = HeaderSize + 2 * Len(msg.chunks)
         /\ Place(msg, 1) <= msg.size /\ msg.size \in Nat
<1> DEFINE SS == Seq(Seq(0..3))
           SR == Seq(Records)
           M == [base : Int, count : Int, ref : Int, fb : Int, chunks : SS, deltas : SR, size : Nat]
<1>1. /\ symbolList \in Seq(0..3) /\ Len(symbolList) \in Nat
      /\ Len(deltas) = Len(order) /\ Len(symbolList) = Len(order)
  BY DEF FeedbackInv, SymbolsPart
<1>2. /\ msg \in M /\ msg.count = Cardinality(DOMAIN packets) /\ msg.chunks = Chunks(symbolList)
      /\ Len(msg.deltas) = Len(deltas)
      /\ \A k \in 1..(Len(msg.deltas) + 1) : Place(msg, k) <= msg.size
  BY DEF FeedbackInv, MessagePart
<1>3. Len(order) = Cardinality(DOMAIN packets)
  <2>1. /\ Len(order) + Cardinality(left) = Cardinality(DOMAIN packets) /\ left = {}
        /\ IsFiniteSet(DOMAIN packets)
    BY DEF FeedbackInv, PacketsPart
  <2>2. Cardinality({}) = 0 /\ Cardinality(DOMAIN packets) \in Nat
    BY ONLY <2>1, FS_EmptySet, FS_CardinalityType
  <2> QED BY ONLY <1>1, <2>1, <2>2
<1>4. Len(msg.chunks) \in Nat
  BY ONLY <1>1, <1>2, ChunkFacts
<1>5. 1 \in 1..(Len(msg.deltas) + 1)
  BY ONLY <1>1, <1>2
<1>6. Place(msg, 1) <= msg.size
  BY ONLY <1>2, <1>5
<1>7. Place(msg, 1) = HeaderSize + 2 * Len(msg.chunks)
  BY ONLY DEF Place
<1> HIDE DEF SS, SR
<1>8. msg.size \in Nat
  BY ONLY <1>2
<1> QED BY ONLY <1>1, <1>2, <1>3, <1>4, <1>6, <1>7, <1>8 DEF M, SS, SR

(* A chunk of the message on the wire. *)
LEMMA WireFacts ==
  ASSUME ReportInv, step = "done", wire # <<>>
  PROVE  /\ wire.size = msg.size /\ wire.count = Len(symbolList)
         /\ Len(wire.chunks) = Len(msg.chunks)
         /\ \A c \in 1..Len(msg.chunks) : wire.chunks[c] = TwoBitChunk(msg.chunks[c])
<1> DEFINE f == [c \in DOMAIN msg.chunks |-> TwoBitChunk(msg.chunks[c])]
           R == {TwoBitChunk(msg.chunks[c]) : c \in DOMAIN msg.chunks}
<1>1. wire = [size |-> msg.size, count |-> msg.count, chunks |-> f]
  BY DEF ReportInv, ReaderPart
<1>2. msg.count = Len(symbolList) /\ msg.chunks = Chunks(symbolList) /\ symbolList \in Seq(0..3)
      /\ Len(msg.chunks) \in Nat
  BY SerializedFacts DEF ReportInv
<1>3. msg.chunks \in Seq(Seq(0..3))
  BY ONLY <1>2, ChunkFacts
<1>4. DOMAIN msg.chunks = 1..Len(msg.chunks)
  BY ONLY <1>3
<1>5. f \in [1..Len(msg.chunks) -> R]
  BY ONLY <1>4
<1>6. \A c \in 1..Len(msg.chunks) : f[c] = TwoBitChunk(msg.chunks[c])
  BY ONLY <1>4
<1> HIDE DEF f, R
<1>7. Len(f) = Len(msg.chunks)
  BY ONLY <1>2, <1>5, FunctionIsSequence
<1> QED BY ONLY <1>1, <1>2, <1>6, <1>7

LEMMA TransmitStep ==
  ASSUME ReportInv, Transmit
  PROVE  ReportInv'
<1>1. /\ step = "done" /\ wire = <<>>
      /\ wire' = [size |-> msg.size, count |-> msg.count,
                  chunks |-> [c \in DOMAIN msg.chunks |-> TwoBitChunk(msg.chunks[c])]]
      /\ UNCHANGED <<feedback, stage, len, statuses, i, reported, cut>>
  BY DEF Transmit
<1>2. UNCHANGED <<step, msg>>
  BY <1>1 DEF feedback
<1>3. FeedbackInv'
  BY <1>1, FeedbackSame DEF ReportInv
<1>4. stage = "start" /\ len = 0 /\ len \in Nat /\ i \in Nat /\ statuses = <<>> /\ i = 0
      /\ reported = <<>> /\ ~cut /\ cut \in BOOLEAN
  BY <1>1 DEF ReportInv, ReaderPart
<1>5. msg.size \in Nat
  BY <1>1, SerializedFacts DEF ReportInv
<1>6. wire'.size = msg.size
  BY ONLY <1>1
<1>7. 0 <= msg.size
  BY ONLY <1>5
<1>8. ReaderPart'
  BY ONLY <1>1, <1>2, <1>4, <1>5, <1>6, <1>7 DEF ReaderPart
<1>9. ChunksPart' /\ DeltasPart'
  BY ONLY <1>1, <1>4 DEF ChunksPart, DeltasPart
<1> QED BY ONLY <1>3, <1>8, <1>9 DEF ReportInv

(* A step of Parse keeps to the message it was called with. *)
LEMMA ReaderKept ==
  ASSUME ReaderPart, wire # <<>>, UNCHANGED <<feedback, wire>>,
         stage' \in {"chunks", "deltas", "done"}, cut' \in BOOLEAN, i' \in Nat,
         len' \in Nat, len' <= wire.size
  PROVE  ReaderPart'
<1>1. UNCHANGED <<step, msg>>
  BY DEF feedback
<1>2. /\ wire.size \in Nat /\ step \in {"none", "done"}
      /\ step = "done" => wire = [size |-> msg.size, count |-> msg.count,
                           chunks |-> [c \in DOMAIN msg.chunks |-> TwoBitChunk(msg.chunks[c])]]
  BY DEF ReaderPart
<1>3. stage' # "start"
  OBVIOUS
<1> QED BY <1>1, <1>2, <1>3 DEF ReaderPart

LEMMA ReadHeaderStep ==
  ASSUME ReportInv, ReadHeader
  PROVE  ReportInv'
<1>1. /\ stage = "start" /\ wire # <<>> /\ UNCHANGED <<feedback, wire, statuses, i, reported>>
      /\ \/ wire.size < HeaderSize /\ stage' = "done" /\ cut' = TRUE /\ len' = len
         \/ ~(wire.size < HeaderSize) /\ stage' = "chunks" /\ len' = HeaderSize /\ cut' = cut
  BY DEF ReadHeader
<1>2. UNCHANGED <<step, msg, symbolList, deltas>>
  BY <1>1 DEF feedback, looping
<1>3. FeedbackInv'
  BY <1>1, FeedbackSame DEF ReportInv
<1>4. /\ len = 0 /\ statuses = <<>> /\ i = 0 /\ reported = <<>> /\ ~cut /\ cut \in BOOLEAN
      /\ wire.size \in Nat /\ step \in {"none", "done"}
      /\ step = "done" => wire = [size |-> msg.size, count |-> msg.count,
                           chunks |-> [c \in DOMAIN msg.chunks |-> TwoBitChunk(msg.chunks[c])]]
  BY <1>1 DEF ReportInv, ReaderPart
<1>5. step = "done" => ~(wire.size < HeaderSize) /\ Len(msg.chunks) \in Nat
  <2>1. SUFFICES ASSUME step = "done" PROVE ~(wire.size < HeaderSize) /\ Len(msg.chunks) \in Nat
    OBVIOUS
  <2>2. /\ Place(msg, 1) = HeaderSize + 2 * Len(msg.chunks) /\ Len(msg.chunks) \in Nat
        /\ Place(msg, 1) <= msg.size /\ msg.size \in Nat
    BY <2>1, SerializedFacts DEF ReportInv
  <2>3. wire.size = msg.size
    BY <1>1, <2>1, WireFacts
  <2> QED BY ONLY <2>2, <2>3 DEF HeaderSize
<1>6. ReaderPart'
  <2>1. len' \in Nat /\ len' <= wire.size
    BY ONLY <1>1, <1>4 DEF HeaderSize
  <2>2. cut' \in BOOLEAN /\ i' \in Nat /\ stage' \in {"chunks", "deltas", "done"}
    BY ONLY <1>1, <1>4
  <2> QED BY <1>1, <2>1, <2>2, ReaderKept DEF ReportInv
<1>7. ChunksPart'
  <2>1. SUFFICES ASSUME step' = "done", stage' = "chunks" PROVE ChunksPart'
    BY DEF ChunksPart
  <2>2. /\ ~cut' /\ i' = 0 /\ reported' = <<>> /\ statuses' = <<>> /\ len' = HeaderSize
        /\ Len(msg'.chunks) \in Nat
    BY ONLY <1>1, <1>2, <1>4, <1>5, <2>1
  <2>3. <<>> \in Seq(0..3) /\ Len(<<>>) = 0 /\ 1..0 = {}
    OBVIOUS
  <2>4. 0 \in 0..Len(msg'.chunks) /\ HeaderSize = HeaderSize + 2 * 0 /\ 0 = 0 * SymbolsInChunk
    <3>1. SymbolsInChunk \in Nat
      BY WidthAssumption
    <3> QED BY ONLY <2>2, <3>1 DEF HeaderSize
  <2>5. \E c \in 0..Len(msg'.chunks) : len' = HeaderSize + 2 * c /\ Len(statuses') = c * SymbolsInChunk
    BY ONLY <2>2, <2>3, <2>4
  <2>6. statuses' \in Seq(0..3) /\ \A n \in 1..Len(statuses') : statuses'[n] = SymbolAt(n)'
    BY ONLY <2>2, <2>3
  <2> QED BY ONLY <2>2, <2>5, <2>6 DEF ChunksPart
<1>8. DeltasPart'
  BY ONLY <1>1, <1>2, <1>5 DEF DeltasPart
<1> QED BY ONLY <1>3, <1>6, <1>7, <1>8 DEF ReportInv

(* A chunk of Serialize is read where it was written, and gives its symbols. *)
LEMMA ReadChunkAt ==
  ASSUME ReportInv, step = "done", wire # <<>>, NEW c \in Nat, c < Len(msg.chunks),
         len = HeaderSize + 2 * c
  PROVE  /\ ~Past(2) /\ StatusesOf(ChunkAt(len)) = Chunks(symbolList)[c + 1]
         /\ c + 1 \in 1..Len(msg.chunks)
<1>1. /\ Len(msg.chunks) \in Nat /\ msg.chunks = Chunks(symbolList)
      /\ Place(msg, 1) = HeaderSize + 2 * Len(msg.chunks)
      /\ Place(msg, 1) <= msg.size /\ msg.size \in Nat
  BY SerializedFacts DEF ReportInv
<1>2. /\ wire.size = msg.size /\ Len(wire.chunks) = Len(msg.chunks)
      /\ \A k \in 1..Len(msg.chunks) : wire.chunks[k] = TwoBitChunk(msg.chunks[k])
  BY WireFacts
<1>3. ~Past(2)
  BY ONLY <1>1, <1>2, c \in Nat, c < Len(msg.chunks), len = HeaderSize + 2 * c DEF Past, HeaderSize
<1>4. (len - HeaderSize) \div 2 + 1 = c + 1
  BY ONLY c \in Nat, len = HeaderSize + 2 * c DEF HeaderSize
<1>5. c + 1 \in 1..Len(msg.chunks) /\ c + 1 <= Len(wire.chunks)
  BY ONLY <1>1, <1>2, c \in Nat, c < Len(msg.chunks)
<1>6. ChunkAt(len) = TwoBitChunk(msg.chunks[c + 1])
  BY ONLY <1>2, <1>4, <1>5 DEF ChunkAt
<1>7. StatusesOf(TwoBitChunk(msg.chunks[c + 1])) = msg.chunks[c + 1]
  BY DEF StatusesOf, TwoBitChunk
<1> QED BY ONLY <1>1, <1>3, <1>5, <1>6, <1>7

(* The symbols of chunk c + 1, behind those of c chunks. *)
LEMMA StatusesGrow ==
  ASSUME symbolList \in Seq(0..3), NEW c \in Nat, c + 1 \in 1..Len(Chunks(symbolList)),
         NEW old \in Seq(0..3), Len(old) = c * SymbolsInChunk,
         \A n \in 1..Len(old) : old[n] = SymbolAt(n)
  PROVE  LET new == old \o Chunks(symbolList)[c + 1]
         IN  /\ new \in Seq(0..3) /\ Len(new) = (c + 1) * SymbolsInChunk
             /\ \A n \in 1..Len(new) : new[n] = SymbolAt(n)
<1> DEFINE ch == Chunks(symbolList)[c + 1]
           k == SymbolsInChunk
           a == c * k
           new == old \o ch
<1>1. k \in Nat
  BY WidthAssumption
<1>2. a \in Nat /\ (c + 1) * k = a + k /\ ((c + 1) - 1) * k = a
  BY ONLY <1>1, c \in Nat
<1>3. /\ ch \in Seq(0..3) /\ Len(ch) = k
      /\ \A j \in 1..k : LET n == ((c + 1) - 1) * k + j
                         IN  ch[j] = IF n <= Len(symbolList) THEN symbolList[n] ELSE NotReceived
  BY ONLY ChunkFacts, symbolList \in Seq(0..3), c + 1 \in 1..Len(Chunks(symbolList))
<1>4. \A j \in 1..k : ch[j] = SymbolAt(a + j)
  BY ONLY <1>2, <1>3 DEF SymbolAt
<1>5. Len(old) = a
  OBVIOUS
<1> HIDE DEF ch, k, a
<1>6. /\ new \in Seq(0..3) /\ Len(new) = a + k
      /\ \A n \in 1..a : new[n] = old[n]
  BY ONLY <1>3, <1>5, Concatenation, old \in Seq(0..3)
<1>7. \A j \in 1..k : new[a + j] = ch[j]
  BY ONLY <1>3, <1>5, Concatenation, old \in Seq(0..3)
<1> HIDE DEF new
<1>8. ASSUME NEW n \in 1..(a + k) PROVE new[n] = SymbolAt(n)
  <2>1. CASE n \in 1..a
    BY ONLY <1>5, <1>6, <2>1, \A m \in 1..Len(old) : old[m] = SymbolAt(m)
  <2>2. CASE n \notin 1..a
    <3>1. n - a \in 1..k /\ a + (n - a) = n
      BY ONLY <1>1, <1>2, <1>8, <2>2
    <3> QED BY ONLY <1>4, <1>7, <3>1
  <2> QED BY ONLY <2>1, <2>2
<1> QED BY ONLY <1>2, <1>6, <1>8 DEF new, ch, k

LEMMA ReadChunkStep ==
  ASSUME ReportInv, ReadChunk
  PROVE  ReportInv'
<1>1. /\ stage = "chunks" /\ Missing /\ UNCHANGED <<feedback, wire, i, reported>>
      /\ \/ Past(2) /\ stage' = "done" /\ cut' = TRUE /\ len' = len /\ statuses' = statuses
         \/ /\ ~Past(2) /\ statuses' = statuses \o StatusesOf(ChunkAt(len)) /\ len' = len + 2
            /\ stage' = stage /\ cut' = cut
  BY DEF ReadChunk
<1>2. UNCHANGED <<step, msg, symbolList, deltas>>
  BY <1>1 DEF feedback, looping
<1>3. FeedbackInv'
  BY <1>1, FeedbackSame DEF ReportInv
<1>4. /\ wire # <<>> /\ wire.size \in Nat /\ len \in Nat /\ len <= wire.size /\ i \in Nat
      /\ cut \in BOOLEAN /\ ReaderPart
  BY <1>1 DEF ReportInv, ReaderPart
<1>5. ReaderPart'
  <2>1. len' \in Nat /\ len' <= wire.size
    BY ONLY <1>1, <1>4 DEF Past
  <2>2. cut' \in BOOLEAN /\ i' \in Nat /\ stage' \in {"chunks", "deltas", "done"}
    BY ONLY <1>1, <1>4
  <2> QED BY ONLY <1>1, <1>4, <2>1, <2>2, ReaderKept
<1>6. CASE step # "done"
  BY ONLY <1>2, <1>3, <1>5, <1>6 DEF ReportInv, ChunksPart, DeltasPart
<1>7. CASE step = "done"
  <2>1. /\ ~cut /\ i = 0 /\ reported = <<>> /\ statuses \in Seq(0..3)
        /\ \A n \in 1..Len(statuses) : statuses[n] = SymbolAt(n)
    BY <1>1, <1>7 DEF ReportInv, ChunksPart
  <2>2. PICK c \in 0..Len(msg.chunks) : len = HeaderSize + 2 * c /\ Len(statuses) = c * SymbolsInChunk
    BY <1>1, <1>7 DEF ReportInv, ChunksPart
  <2>3. msg.chunks = Chunks(symbolList) /\ symbolList \in Seq(0..3) /\ Len(msg.chunks) \in Nat
    BY <1>7, SerializedFacts DEF ReportInv
  <2>4. c \in Nat /\ c < Len(msg.chunks)
    <3>1. c \in Nat
      BY ONLY <2>2, <2>3
    <3>2. wire.count = Len(symbolList)
      BY ONLY <1>4, <1>7, WireFacts, ReportInv
    <3>3. c * SymbolsInChunk < Len(symbolList)
      BY ONLY <1>1, <2>2, <3>2 DEF Missing
    <3> QED BY ONLY <2>3, <3>1, <3>3, ChunkFacts
  <2>5. /\ ~Past(2) /\ StatusesOf(ChunkAt(len)) = Chunks(symbolList)[c + 1]
        /\ c + 1 \in 1..Len(msg.chunks)
    BY ONLY <1>4, <1>7, <2>2, <2>4, ReadChunkAt, ReportInv
  <2>6. /\ statuses' = statuses \o Chunks(symbolList)[c + 1] /\ len' = len + 2
        /\ stage' = "chunks" /\ cut' = cut
    BY ONLY <1>1, <2>5
  <2>7. /\ statuses' \in Seq(0..3) /\ Len(statuses') = (c + 1) * SymbolsInChunk
        /\ \A n \in 1..Len(statuses') : statuses'[n] = SymbolAt(n)
    BY ONLY <2>1, <2>2, <2>3, <2>4, <2>5, <2>6, StatusesGrow
  <2>8. \A n : SymbolAt(n)' = SymbolAt(n)
    BY ONLY <1>2 DEF SymbolAt
  <2>9. c + 1 \in 0..Len(msg'.chunks) /\ len' = HeaderSize + 2 * (c + 1)
    BY ONLY <1>2, <2>2, <2>3, <2>4, <2>5, <2>6 DEF HeaderSize
  <2>10. \E e \in 0..Len(msg'.chunks) : len' = HeaderSize + 2 * e /\ Len(statuses') = e * SymbolsInChunk
    BY ONLY <2>7, <2>9
  <2>11. ~cut' /\ i' = 0 /\ reported' = <<>>
    BY ONLY <1>1, <2>1, <2>6
  <2>12. \A n \in 1..Len(statuses') : statuses'[n] = SymbolAt(n)'
    BY ONLY <2>7, <2>8
  <2>13. ChunksPart'
    BY ONLY <2>7, <2>10, <2>11, <2>12 DEF ChunksPart
  <2>14. DeltasPart'
    BY ONLY <2>6 DEF DeltasPart
  <2> QED BY ONLY <1>3, <1>5, <2>13, <2>14 DEF ReportInv
<1> QED BY ONLY <1>6, <1>7

LEMMA ChunksReadStep ==
  ASSUME ReportInv, ChunksRead
  PROVE  ReportInv'
<1>1. /\ stage = "chunks" /\ ~Missing /\ stage' = "deltas"
      /\ UNCHANGED <<feedback, wire, len, statuses, i, reported, cut>>
  BY DEF ChunksRead
<1>2. UNCHANGED <<step, msg, symbolList, deltas>>
  BY <1>1 DEF feedback, looping
<1>3. FeedbackInv'
  BY <1>1, FeedbackSame DEF ReportInv
<1>4. /\ wire # <<>> /\ len \in Nat /\ len <= wire.size /\ i \in Nat /\ cut \in BOOLEAN /\ ReaderPart
  BY <1>1 DEF ReportInv, ReaderPart
<1>5. ReaderPart'
  BY ONLY <1>1, <1>4, ReaderKept
<1>6. ChunksPart'
  BY ONLY <1>1 DEF ChunksPart
<1>7. CASE step # "done"
  BY ONLY <1>2, <1>3, <1>5, <1>6, <1>7 DEF ReportInv, DeltasPart
<1>8. CASE step = "done"
  <2>1. /\ ~cut /\ i = 0 /\ reported = <<>> /\ statuses \in Seq(0..3)
        /\ \A n \in 1..Len(statuses) : statuses[n] = SymbolAt(n)
    BY <1>1, <1>8 DEF ReportInv, ChunksPart
  <2>2. PICK c \in 0..Len(msg.chunks) : len = HeaderSize + 2 * c /\ Len(statuses) = c * SymbolsInChunk
    BY <1>1, <1>8 DEF ReportInv, ChunksPart
  <2>3. /\ msg.chunks = Chunks(symbolList) /\ symbolList \in Seq(0..3) /\ Len(msg.chunks) \in Nat
        /\ Place(msg, 1) = HeaderSize + 2 * Len(msg.chunks)
        /\ Len(symbolList) \in Nat /\ Len(deltas) = Len(symbolList)
    BY <1>8, SerializedFacts DEF ReportInv
  <2>4. wire.count = Len(symbolList)
    BY ONLY <1>4, <1>8, WireFacts, ReportInv
  <2>5. ~(Len(statuses) < Len(symbolList)) /\ Len(statuses) \in Nat
    BY ONLY <1>1, <2>1, <2>4 DEF Missing
  <2>6. len = Place(msg, 1)
    <3>1. c \in Nat
      BY ONLY <2>2, <2>3
    <3>2. ~(c < Len(msg.chunks))
      BY ONLY <2>2, <2>3, <2>5, <3>1, ChunkFacts
    <3>3. c = Len(msg.chunks)
      BY ONLY <2>2, <2>3, <3>1, <3>2
    <3> QED BY ONLY <2>2, <2>3, <3>3
  <2>7. \A n \in 1..Len(symbolList) : statuses[n] = symbolList[n]
    <3>1. \A n \in 1..Len(symbolList) : n \in 1..Len(statuses) /\ n <= Len(symbolList)
      BY ONLY <2>3, <2>5
    <3> QED BY ONLY <2>1, <3>1 DEF SymbolAt
  <2>8. Len(statuses) >= Len(symbolList) /\ 0 <= Len(deltas) /\ 0 + 1 = 1 /\ 1..0 = {}
    BY ONLY <2>3, <2>5
  <2>9. <<>> \in Seq([index : Int, status : 0..3, at : Int]) /\ Len(<<>>) = 0
    OBVIOUS
  <2>10. /\ ~cut' /\ i' = 0 /\ reported' = <<>> /\ stage' # "done" /\ statuses' \in Seq(0..3)
         /\ len' = Place(msg', 0 + 1)
         /\ Len(statuses') >= Len(symbolList') /\ 0 <= Len(deltas')
         /\ \A n \in 1..Len(symbolList') : statuses'[n] = symbolList'[n]
    BY ONLY <1>1, <1>2, <2>1, <2>6, <2>7, <2>8
  <2>11. DeltasPart'
    BY ONLY <2>8, <2>9, <2>10 DEF DeltasPart
  <2> QED BY ONLY <1>3, <1>5, <1>6, <2>11 DEF ReportInv
<1> QED BY ONLY <1>7, <1>8

(* A delta of Serialize: its symbol, its width, and where the next one is. *)
LEMMA DeltaAt ==
  ASSUME FeedbackInv, step = "done", NEW k \in 1..Len(symbolList)
  PROVE  /\ symbolList[k] \in {SmallDelta, LargeOrNegativeDelta}
         /\ symbolList[k] = IF msg.deltas[k].wide THEN LargeOrNegativeDelta ELSE SmallDelta
         /\ msg.deltas[k].at = Place(msg, k) /\ Place(msg, k) \in Nat
         /\ Place(msg, k + 1) = Place(msg, k) + Width(symbolList[k])
         /\ Place(msg, k + 1) <= msg.size
<1>1. /\ Len(symbolList) \in Nat /\ Len(deltas) = Len(symbolList) /\ Len(msg.deltas) = Len(symbolList)
      /\ msg \in [base : Int, count : Int, ref : Int, fb : Int,
                  chunks : Seq(Seq(0..3)), deltas : Seq(Records), size : Nat]
  BY SerializedFacts
<1>2. symbolList[k] = SignalledBy(deltas[k])
  BY <1>1 DEF FeedbackInv, SymbolsPart
<1>3. /\ msg.deltas[k].wide = ~IsSmall(deltas[k]) /\ msg.deltas[k].at = Place(msg, k)
      /\ \A j \in 1..(Len(msg.deltas) + 1) : Place(msg, j) <= msg.size
  BY <1>1 DEF FeedbackInv, MessagePart
<1>4. /\ k \in 1..(Len(msg.deltas) + 1) /\ k + 1 \in 1..(Len(msg.deltas) + 1)
      /\ k + 1 # 1 /\ (k + 1) - 1 = k
  BY ONLY <1>1, k \in 1..Len(symbolList)
<1>5. Place(msg, k) \in Nat
  BY ONLY <1>1, <1>4, PlaceType
<1>6. Place(msg, k + 1) = msg.deltas[k].at + (IF msg.deltas[k].wide THEN 2 ELSE 1)
  BY ONLY <1>4 DEF Place
<1>7. symbolList[k] = IF msg.deltas[k].wide THEN LargeOrNegativeDelta ELSE SmallDelta
  BY ONLY <1>2, <1>3 DEF SignalledBy
<1>8. Width(symbolList[k]) = IF msg.deltas[k].wide THEN 2 ELSE 1
  BY ONLY <1>7 DEF Width, SmallDelta, LargeOrNegativeDelta
<1> QED BY ONLY <1>3, <1>4, <1>5, <1>6, <1>7, <1>8

LEMMA ReadDeltaStep ==
  ASSUME ReportInv, ReadDelta
  PROVE  ReportInv'
<1> DEFINE status == statuses[i + 1]
           E == [index |-> i, status |-> status, at |-> len]
<1>1. /\ stage = "deltas" /\ i < wire.count /\ UNCHANGED <<feedback, wire, statuses>>
      /\ \/ PastDelta(status) /\ stage' = "done" /\ cut' = TRUE /\ UNCHANGED <<len, i, reported>>
         \/ /\ ~PastDelta(status) /\ len' = len + Width(status) /\ i' = i + 1
            /\ reported' = IF status = Reserved THEN reported ELSE Append(reported, E)
            /\ stage' = stage /\ cut' = cut
  BY DEF ReadDelta
<1>2. UNCHANGED <<step, msg, symbolList, deltas>>
  BY <1>1 DEF feedback, looping
<1>3. FeedbackInv'
  BY <1>1, FeedbackSame DEF ReportInv
<1>4. /\ wire # <<>> /\ wire.size \in Nat /\ len \in Nat /\ len <= wire.size /\ i \in Nat
      /\ cut \in BOOLEAN /\ ReaderPart
  BY <1>1 DEF ReportInv, ReaderPart
<1> HIDE DEF status
<1>5. ReaderPart'
  <2>1. Width(status) \in {0, 1, 2}
    BY DEF Width
  <2>2. len' \in Nat /\ len' <= wire.size /\ i' \in Nat
    BY ONLY <1>1, <1>4, <2>1 DEF PastDelta, Past
  <2>3. cut' \in BOOLEAN /\ stage' \in {"chunks", "deltas", "done"}
    BY ONLY <1>1, <1>4
  <2> QED BY ONLY <1>1, <1>4, <2>2, <2>3, ReaderKept
<1>6. ChunksPart'
  BY ONLY <1>1 DEF ChunksPart
<1>7. CASE step # "done"
  BY ONLY <1>2, <1>3, <1>5, <1>6, <1>7 DEF ReportInv, DeltasPart
<1>8. CASE step = "done"
  <2> DEFINE T == [index : Int, status : 0..3, at : Int]
  <2>1. /\ ~cut /\ statuses \in Seq(0..3) /\ Len(statuses) >= Len(symbolList)
        /\ \A n \in 1..Len(symbolList) : statuses[n] = symbolList[n]
        /\ len = Place(msg, i + 1) /\ reported \in Seq(T) /\ Len(reported) = i
        /\ \A k \in 1..i : reported[k] = [index |-> k - 1, status |-> symbolList[k], at |-> msg.deltas[k].at]
    BY <1>1, <1>8 DEF ReportInv, DeltasPart
  <2>2. wire.count = Len(symbolList) /\ wire.size = msg.size
    BY ONLY <1>4, <1>8, WireFacts, ReportInv
  <2>3. Len(symbolList) \in Nat /\ Len(deltas) = Len(symbolList)
    BY <1>8, SerializedFacts DEF ReportInv
  <2>4. i + 1 \in 1..Len(symbolList)
    BY ONLY <1>1, <1>4, <2>2, <2>3
  <2>5. status = symbolList[i + 1]
    BY ONLY <2>1, <2>4 DEF status
  <2>6. /\ status \in {SmallDelta, LargeOrNegativeDelta}
        /\ msg.deltas[i + 1].at = Place(msg, i + 1) /\ Place(msg, i + 1) \in Nat
        /\ Place(msg, (i + 1) + 1) = Place(msg, i + 1) + Width(status)
        /\ Place(msg, (i + 1) + 1) <= msg.size
    BY ONLY <1>8, <2>4, <2>5, DeltaAt, ReportInv DEF ReportInv
  <2>7. status # Reserved /\ status \in 0..3 /\ Width(status) \in {1, 2}
    BY ONLY <2>6 DEF Reserved, SmallDelta, LargeOrNegativeDelta, Width
  <2>8. ~PastDelta(status)
    BY ONLY <2>1, <2>2, <2>6, <2>7, <1>4 DEF PastDelta, Past
  <2>9. /\ len' = Place(msg, (i + 1) + 1) /\ i' = i + 1 /\ reported' = Append(reported, E)
        /\ stage' = "deltas" /\ cut' = cut
    BY ONLY <1>1, <2>1, <2>6, <2>7, <2>8
  <2>10. E \in T
    BY ONLY <1>4, <2>7
  <2>11. E = [index |-> (i + 1) - 1, status |-> symbolList[i + 1], at |-> msg.deltas[i + 1].at]
    <3>1. (i + 1) - 1 = i
      BY ONLY <1>4
    <3> QED BY ONLY <2>1, <2>5, <2>6, <3>1
  <2> HIDE DEF E, T
  <2>12. /\ reported' \in Seq(T) /\ Len(reported') = i + 1 /\ reported'[i + 1] = E
         /\ \A k \in 1..i : reported'[k] = reported[k]
    BY ONLY <2>1, <2>9, <2>10, AppendFacts
  <2>13. ASSUME NEW k \in 1..(i + 1)
         PROVE  reported'[k] = [index |-> k - 1, status |-> symbolList[k], at |-> msg.deltas[k].at]
    <3>1. CASE k \in 1..i
      BY ONLY <2>1, <2>12, <3>1
    <3>2. CASE k = i + 1
      BY ONLY <2>11, <2>12, <3>2
    <3> QED BY ONLY <1>4, <2>13, <3>1, <3>2
  <2>14. i' <= Len(deltas') /\ stage' # "done"
    BY ONLY <1>2, <1>4, <2>3, <2>4, <2>9
  <2>15. /\ ~cut' /\ statuses' \in Seq(0..3) /\ Len(statuses') >= Len(symbolList')
         /\ \A n \in 1..Len(symbolList') : statuses'[n] = symbolList'[n]
    BY ONLY <1>1, <1>2, <2>1, <2>9
  <2>16. /\ len' = Place(msg', i' + 1) /\ reported' \in Seq(T) /\ Len(reported') = i'
         /\ \A k \in 1..i' :
              reported'[k] = [index |-> k - 1, status |-> symbolList'[k], at |-> msg'.deltas[k].at]
    BY ONLY <1>2, <2>9, <2>12, <2>13
  <2>17. DeltasPart'
    BY ONLY <2>14, <2>15, <2>16 DEF DeltasPart, T
  <2> QED BY ONLY <1>3, <1>5, <1>6, <2>17 DEF ReportInv
<1> QED BY ONLY <1>7, <1>8

LEMMA ParsePaddingStep ==
  ASSUME ReportInv, ParsePadding
  PROVE  ReportInv'
<1>1. /\ stage = "deltas" /\ i >= wire.count /\ stage' = "done"
      /\ UNCHANGED <<feedback, wire, len, statuses, i, reported, cut>>
  BY DEF ParsePadding
<1>2. UNCHANGED <<step, msg, symbolList, deltas>>
  BY <1>1 DEF feedback, looping
<1>3. FeedbackInv'
  BY <1>1, FeedbackSame DEF ReportInv
<1>4. /\ wire # <<>> /\ len \in Nat /\ len <= wire.size /\ i \in Nat /\ cut \in BOOLEAN /\ ReaderPart
  BY <1>1 DEF ReportInv, ReaderPart
<1>5. ReaderPart'
  BY ONLY <1>1, <1>4, ReaderKept
<1>6. ChunksPart'
  BY ONLY <1>1 DEF ChunksPart
<1>7. DeltasPart'
  <2>1. CASE step # "done"
    BY ONLY <1>2, <2>1 DEF DeltasPart
  <2>2. CASE step = "done"
    <3>1. i = Len(deltas)
      <4>1. i <= Len(deltas)
        BY <1>1, <2>2 DEF ReportInv, DeltasPart
      <4>2. wire.count = Len(symbolList)
        BY ONLY <1>4, <2>2, WireFacts, ReportInv
      <4>3. Len(symbolList) \in Nat /\ Len(deltas) = Len(symbolList)
        BY <2>2, SerializedFacts DEF ReportInv
      <4> QED BY ONLY <1>1, <1>4, <4>1, <4>2, <4>3
    <3>2. DeltasPart
      BY DEF ReportInv
    <3> QED BY ONLY <1>1, <1>2, <2>2, <3>1, <3>2 DEF DeltasPart
  <2> QED BY ONLY <2>1, <2>2
<1> QED BY ONLY <1>3, <1>5, <1>6, <1>7 DEF ReportInv

-----------------------------------------------------------------------------
(* The theorems about feedback messages.                                   *)

LEMMA ReportInit == ParseInit => ReportInv
<1> SUFFICES ASSUME ParseInit PROVE ReportInv
  OBVIOUS
<1>1. /\ packets = <<>> /\ step = "none" /\ left = {} /\ order = <<>>
      /\ referenceTime = 0 /\ time = 0 /\ symbolList = <<>> /\ deltas = <<>>
      /\ wire \in Foreign \cup {<<>>} /\ stage = "start" /\ len = 0 /\ statuses = <<>> /\ i = 0
      /\ reported = <<>> /\ cut = FALSE
  BY DEF ParseInit, FeedbackInit
<1>2. DOMAIN packets = {} /\ Len(<<>>) = 0 /\ 1..0 = {}
  BY <1>1
<1>3. IsFiniteSet({}) /\ Cardinality({}) = 0 /\ MaxPackets \in Nat
  BY FS_EmptySet, WidthAssumption
<1>4. PacketsPart
  <2>1. <<>> \in Seq([seq : Seqs, clock : Int])
    OBVIOUS
  <2>2. 0 <= MaxPackets
    BY ONLY <1>3
  <2> QED BY ONLY <1>1, <1>2, <1>3, <2>1, <2>2 DEF PacketsPart
<1>5. SymbolsPart
  <2>1. <<>> \in Seq(0..3) /\ <<>> \in Seq(Int)
    OBVIOUS
  <2> QED BY ONLY <1>1, <1>2, <2>1 DEF SymbolsPart
<1>6. ClockPart
  <2>1. 0 \in Nat /\ 0 \in Int
    OBVIOUS
  <2> QED BY ONLY <1>1, <1>2, <2>1 DEF ClockPart
<1>7. MessagePart /\ OrderPart
  BY ONLY <1>1 DEF MessagePart, OrderPart
<1>8. ReaderPart
  <2>1. wire # <<>> => wire.size \in Nat
    BY ONLY <1>1, ForeignAssumption
  <2>2. wire # <<>> => 0 <= wire.size
    BY ONLY <2>1
  <2> QED BY ONLY <1>1, <2>1, <2>2 DEF ReaderPart
<1>9. ChunksPart /\ DeltasPart
  BY ONLY <1>1 DEF ChunksPart, DeltasPart
<1> QED BY ONLY <1>4, <1>5, <1>6, <1>7, <1>8, <1>9 DEF ReportInv, FeedbackInv

LEMMA ReportStep == ReportInv /\ [ParseNext]_<<feedback, parseVars>> => ReportInv'
<1> SUFFICES ASSUME ReportInv, [ParseNext]_<<feedback, parseVars>> PROVE ReportInv'
  OBVIOUS
<1>1. CASE wire = <<>> /\ FeedbackNext /\ UNCHANGED parseVars
  <2>1. FeedbackInv'
    BY <1>1, FeedbackStep DEF ReportInv
  <2>2. UNCHANGED <<wire, stage, len, statuses, i, reported, cut>>
    BY <1>1 DEF parseVars
  <2>3. ReaderPart /\ stage = "start"
    BY <1>1 DEF ReportInv, ReaderPart
  <2>4. ReaderPart'
    BY ONLY <1>1, <2>2, <2>3 DEF ReaderPart
  <2>5. ChunksPart' /\ DeltasPart'
    BY ONLY <2>2, <2>3 DEF ChunksPart, DeltasPart
  <2> QED BY ONLY <2>1, <2>4, <2>5 DEF ReportInv
<1>2. CASE Transmit
  BY <1>2, TransmitStep
<1>3. CASE Parse
  BY <1>3, ReadHeaderStep, ReadChunkStep, ChunksReadStep, ReadDeltaStep, ParsePaddingStep DEF Parse
<1>4. CASE UNCHANGED <<feedback, parseVars>>
  <2>1. FeedbackInv' /\ UNCHANGED <<step, msg, symbolList, deltas>>
    BY <1>4, FeedbackSame DEF ReportInv, feedback, looping
  <2>2. UNCHANGED <<wire, stage, len, statuses, i, reported, cut>>
    BY <1>4 DEF parseVars
  <2>3. ReaderPart /\ ChunksPart /\ DeltasPart
    BY DEF ReportInv
  <2>4. ReaderPart'
    BY ONLY <2>1, <2>2, <2>3 DEF ReaderPart
  <2>5. ChunksPart'
    BY ONLY <2>1, <2>2, <2>3 DEF ChunksPart, SymbolAt
  <2>6. DeltasPart'
    BY ONLY <2>1, <2>2, <2>3 DEF DeltasPart
  <2> QED BY ONLY <2>1, <2>4, <2>5, <2>6 DEF ReportInv
<1> QED BY <1>1, <1>2, <1>3, <1>4 DEF ParseNext

(* Sender and reader agree at every step on how far the message has come. *)
LEMMA ReportInvariant == ParseSpec => []ReportInv
  BY ReportInit, ReportStep, PTL DEF ParseSpec

(* However many packets a message of Serialize reports, and however far its
   clock has turned: while the arrivals are close, and none lies in an earlier
   round than that of the lowest number, the deltas lead a reader to every
   arrival, less than a tick and whole rounds of the reference time off; and
   from base on when no number is missing. *)
THEOREM ArrivalsAlwaysReported == ParseSpec => []ArrivalsReported
<1>1. ReportInv => ArrivalsReported
  <2> SUFFICES ASSUME ReportInv, step = "done", Close, OneRound
               PROVE  /\ Len(msg.deltas) = msg.count
                      /\ \A k \in 1..Len(msg.deltas) :
                           LET round == RefUs * RefValues
                               error == (packets[order[k].seq] - msg.deltas[k].clock) % round
                           IN  /\ error < TickUs \/ error > round - TickUs
                               /\ NoGaps => order[k].seq = msg.base + k - 1
    BY DEF ArrivalsReported
  <2>1. Len(msg.deltas) = msg.count /\ Len(order) = Len(msg.deltas)
    <3>1. Len(msg.deltas) = Cardinality(DOMAIN packets) /\ Len(order) = Len(msg.deltas)
      BY SerializedFacts DEF ReportInv
    <3>2. msg.count = Cardinality(DOMAIN packets)
      BY DEF ReportInv, FeedbackInv, MessagePart
    <3> QED BY ONLY <3>1, <3>2
  <2>2. \A k \in 1..Len(msg.deltas) : msg.deltas[k].clock = order[k].clock
    BY DEF ReportInv, FeedbackInv, MessagePart
  <2>3. PICK m \in Nat : \A k \in 1..Len(order) : Near(packets[order[k].seq], order[k].clock, m)
    BY DEF ReportInv, FeedbackInv, ClockPart
  <2>4. ASSUME NEW k \in 1..Len(msg.deltas)
        PROVE  LET error == (packets[order[k].seq] - msg.deltas[k].clock) % Round
               IN  error < TickUs \/ error > Round - TickUs
    <3> DEFINE a == packets[order[k].seq]
               c == order[k].clock
               n == a - c
               e == a - (c + m * Round)
               q == n \div Round
               r == n % Round
    <3>1. k \in 1..Len(order)
      BY ONLY <2>1, <2>4
    <3>2. a \in Int /\ c \in Int
      <4>1. PacketsPart
        BY DEF ReportInv, FeedbackInv
      <4>2. order[k].seq \in DOMAIN packets /\ order \in Seq([seq : Seqs, clock : Int])
        BY ONLY <3>1, <4>1 DEF PacketsPart
      <4>3. order[k] \in [seq : Seqs, clock : Int]
        BY ONLY <3>1, <4>2, SequenceFacts
      <4> QED BY ONLY <4>1, <4>2, <4>3, ArrivalType
    <3>3. -TickUs < e /\ e < TickUs
      BY ONLY <2>3, <3>1 DEF Near
    <3>4. TickUs \in Nat \ {0} /\ Round \in Nat \ {0} /\ TickUs <= Round
      <4>1. ASSUME NEW x \in Nat \ {0}, NEW y \in Nat \ {0} PROVE x <= x * y
        BY <4>1
      <4> QED BY ONLY Widths, <4>1
    <3>5. msg.deltas[k].clock = c
      BY ONLY <2>2, <2>4
    <3>6. m * Round \in Int /\ m * Round = Round * m /\ m \in Int
      BY ONLY <2>3, <3>4
    <3> HIDE DEF a, c
    <3>7. n \in Int /\ e \in Int /\ n = Round * m + e
      BY ONLY <3>2, <3>6
    <3> HIDE DEF n, e
    <3>8. q \in Int /\ r \in 0..(Round - 1) /\ n = Round * q + r
      BY ONLY <3>4, <3>7, DivMod
    <3> HIDE DEF q, r
    <3>9. r < TickUs \/ r > Round - TickUs
      <4>1. CASE e >= 0
        <5>1. e \in 0..(Round - 1)
          BY ONLY <3>3, <3>4, <3>7, <4>1
        <5>2. Round * m + e = Round * q + r
          BY ONLY <3>7, <3>8
        <5>3. e = r
          <6>1. q \in Int /\ r \in 0..(Round - 1)
            BY ONLY <3>8
          <6> QED BY ONLY <3>4, <3>6, <5>1, <5>2, <6>1, DivModUnique
        <5> QED BY ONLY <3>3, <5>3
      <4>2. CASE e < 0
        <5> DEFINE l == m - 1
                   f == Round + e
        <5>1. l \in Int /\ f \in 0..(Round - 1) /\ f > Round - TickUs
          BY ONLY <2>3, <3>3, <3>4, <3>7, <4>2
        <5>2. Round * l + f = Round * q + r
          <6>1. Round * (m - 1) = Round * m - Round /\ Round * m \in Int
            BY ONLY <2>3, <3>4
          <6>2. Round * l + f = n
            BY ONLY <3>4, <3>7, <6>1
          <6> QED BY ONLY <3>8, <6>2
        <5> HIDE DEF l, f
        <5>3. f = r
          <6>1. q \in Int /\ r \in 0..(Round - 1)
            BY ONLY <3>8
          <6>2. l \in Int /\ f \in 0..(Round - 1)
            BY ONLY <5>1
          <6> QED BY ONLY <3>4, <5>2, <6>1, <6>2, DivModUnique
        <5> QED BY ONLY <5>1, <5>3
      <4> QED BY ONLY <3>7, <4>1, <4>2
    <3> QED BY ONLY <3>5, <3>9 DEF r, n, a
  <2>5. ASSUME NoGaps PROVE \A k \in 1..Len(order) : order[k].seq = msg.base + k - 1
    <3>1. \A k \in 1..Len(order) : order[k].seq = order[1].seq + k - 1
      BY <2>5 DEF ReportInv, FeedbackInv, OrderPart
    <3>2. msg.base = order[1].seq
      BY DEF ReportInv, FeedbackInv, MessagePart
    <3> QED BY ONLY <3>1, <3>2
  <2> QED BY ONLY <2>1, <2>4, <2>5 DEF Round
<1> QED BY <1>1, ReportInvariant, PTL

(* A message whose packets would fit in the buffer of one feedback packet with
   the widest deltas stays in it, padding included, however many they are. *)
THEOREM FieldAlwaysFits == ParseSpec => []FieldFits
<1>1. ReportInv => FieldFits
  <2> SUFFICES ASSUME ReportInv, step = "done",
                      HeaderSize + 2 * Len(msg.chunks) + 2 * msg.count <= FieldSpace
               PROVE  msg.size <= FieldSpace
    BY DEF FieldFits
  <2> DEFINE n == Len(msg.deltas)
             last == Place(msg, n + 1)
  <2>1. /\ msg \in [base : Int, count : Int, ref : Int, fb : Int,
                    chunks : Seq(Seq(0..3)), deltas : Seq(Records), size : Nat]
        /\ last <= Widest(msg) /\ msg.size % 4 = 0 /\ msg.size - last \in 0..3
        /\ msg.count = Cardinality(DOMAIN packets)
    BY DEF ReportInv, FeedbackInv, MessagePart
  <2>2. n = msg.count
    <3>1. n = Cardinality(DOMAIN packets)
      BY SerializedFacts DEF ReportInv
    <3> QED BY ONLY <2>1, <3>1
  <2>3. n \in Nat /\ Len(msg.chunks) \in Nat /\ msg.size \in Nat
    BY ONLY <2>1
  <2>4. last \in Nat
    <3>1. n + 1 \in 1..(n + 1)
      BY ONLY <2>3
    <3> QED BY ONLY <2>1, <3>1, PlaceType
  <2>5. Widest(msg) <= FieldSpace /\ Widest(msg) \in Nat
    <3>1. Widest(msg) = HeaderSize + 2 * Len(msg.chunks) + 2 * msg.count
      BY ONLY <2>2 DEF Widest
    <3>2. Widest(msg) \in Nat
      <4>1. \A a, b \in Nat : 8 + 2 * a + 2 * b \in Nat
        OBVIOUS
      <4> QED BY ONLY <2>3, <4>1 DEF Widest, HeaderSize
    <3> QED BY ONLY <3>1, <3>2, HeaderSize + 2 * Len(msg.chunks) + 2 * msg.count <= FieldSpace
  <2>6. FieldSpace \in Nat /\ FieldSpace % 4 = 0
    BY WidthAssumption
  <2>7. ASSUME NEW x \in Nat, NEW y \in Nat, NEW w \in Nat, x - y \in 0..3, y <= w, w <= FieldSpace,
               x % 4 = 0
        PROVE  x <= FieldSpace
    BY ONLY <2>6, <2>7
  <2> HIDE DEF last, n
  <2> QED BY ONLY <2>1, <2>3, <2>4, <2>5, <2>7
<1> QED BY <1>1, ReportInvariant, PTL

(* Parse reads every message of Serialize to its padding, and takes each delta
   from where it was written, as wide as it was written. *)
THEOREM ReaderAlwaysInStep == ParseSpec => []ReaderInStep
<1>1. ReportInv => ReaderInStep
  <2> SUFFICES ASSUME ReportInv, stage = "done", step = "done"
               PROVE  /\ ~cut /\ wire.size - len \in 0..3
                      /\ Len(reported) = Cardinality(DOMAIN packets)
                      /\ \A k \in 1..Len(reported) :
                           LET delta == msg.deltas[k]
                           IN  reported[k] = [index |-> k - 1, at |-> delta.at,
                                 status |-> IF delta.wide THEN LargeOrNegativeDelta ELSE SmallDelta]
    BY DEF ReaderInStep
  <2>1. /\ ~cut /\ i = Len(deltas) /\ len = Place(msg, i + 1) /\ Len(reported) = i
        /\ \A k \in 1..i : reported[k] = [index |-> k - 1, status |-> symbolList[k], at |-> msg.deltas[k].at]
    BY DEF ReportInv, DeltasPart
  <2>2. /\ Len(deltas) = Len(symbolList) /\ Cardinality(DOMAIN packets) = Len(symbolList)
        /\ Len(msg.deltas) = Len(symbolList)
    BY SerializedFacts DEF ReportInv
  <2>3. wire.size = msg.size
    <3>1. wire # <<>>
      BY DEF ReportInv, ReaderPart
    <3> QED BY <3>1, WireFacts
  <2>4. msg.size - Place(msg, Len(msg.deltas) + 1) \in 0..3
    BY DEF ReportInv, FeedbackInv, MessagePart
  <2>5. \A k \in 1..Len(symbolList) :
          symbolList[k] = IF msg.deltas[k].wide THEN LargeOrNegativeDelta ELSE SmallDelta
    BY DeltaAt DEF ReportInv
  <2>6. wire.size - len \in 0..3 /\ Len(reported) = Cardinality(DOMAIN packets)
    BY ONLY <2>1, <2>2, <2>3, <2>4
  <2>7. ASSUME NEW k \in 1..Len(reported)
        PROVE  reported[k] = [index |-> k - 1, at |-> msg.deltas[k].at,
                              status |-> IF msg.deltas[k].wide THEN LargeOrNegativeDelta ELSE SmallDelta]
    <3>1. reported[k] = [index |-> k - 1, status |-> symbolList[k], at |-> msg.deltas[k].at]
      BY ONLY <2>1, <2>7
    <3>2. symbolList[k] = IF msg.deltas[k].wide THEN LargeOrNegativeDelta ELSE SmallDelta
      BY ONLY <2>1, <2>2, <2>5, <2>7
    <3> QED BY ONLY <3>1, <3>2
  <2> QED BY ONLY <2>1, <2>6, <2>7
<1> QED BY <1>1, ReportInvariant, PTL

(* Parse reads no byte behind a message, whoever sent it, whatever count and
   chunks it carries and wherever it is cut off. *)
THEOREM ParseStaysInMessage == ParseSpec => []ReadsInMessage
<1>1. ReportInv => ReadsInMessage
  <2>1. ASSUME ReportInv, len # 0 PROVE len <= wire.size
    <3>1. wire # <<>>
      BY <2>1 DEF ReportInv, ReaderPart
    <3> QED BY <2>1, <3>1 DEF ReportInv, ReaderPart
  <2> QED BY <2>1 DEF ReadsInMessage
<1> QED BY <1>1, ReportInvariant, PTL

=============================================================================
