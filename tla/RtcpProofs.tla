----------------------------- MODULE RtcpProofs -----------------------------
(***************************************************************************)
(* Proofs about Rtcp for datagrams of any number of packets, packets of    *)
(* any content, and every scale of the report times.                       *)
(***************************************************************************)
EXTENDS Rtcp, BasicLemmas

-----------------------------------------------------------------------------
(* Times.                                                                  *)

(* The fraction of a report's time is read back as it was, though it is cut when
   it is written and rounded when it is read: the cut loses less than a quarter
   of what the rounding restores. *)
LEMMA FractionInverts ==
  ASSUME NEW r \in Nat, NEW frac \in Nat, NEW cut \in 0..(SecUs - 1),
         r * FracValues = SecUs * frac + cut
  PROVE  RoundToQuarter(frac) = r
<1> DEFINE S == SecUs
           F == FracValues
           n == 8 * frac * S + F
<1>1. S \in Nat \ {0} /\ F \in Nat \ {0} /\ F > 8 * S
  BY ScaleAssumption
<1>2. n = 8 * (r * F) - 8 * cut + F
  <2>1. 8 * frac * S = 8 * (S * frac)
    BY <1>1
  <2>2. S * frac = r * F - cut /\ S * frac \in Int /\ r * F \in Int
    BY <1>1
  <2> QED BY <2>1, <2>2
<1>3. n = (2 * F) * (4 * r) + (F - 8 * cut)
  <2>1. (2 * F) * (4 * r) = 8 * (r * F)
    BY <1>1
  <2>2. r * F \in Int /\ cut \in Int
    BY <1>1
  <2> QED BY <1>1, <1>2, <2>1, <2>2
<1>4. 2 * F \in Nat \ {0} /\ F - 8 * cut \in 0..(2 * F - 1) /\ n \in Int /\ 4 * r \in Int
  BY <1>1, <1>3
<1> DEFINE k == 2 * F
           q == 4 * r
           m == F - 8 * cut
<1>5. k \in Nat \ {0} /\ m \in 0..(k - 1) /\ n \in Int /\ q \in Int /\ n = k * q + m
  BY <1>3, <1>4
<1>6. RoundToQuarter(frac) = (n \div k) \div 4
  BY DEF RoundToQuarter
<1> HIDE DEF S, F, n, k, q, m
<1>7. n \div k = q
  <2>1. n \div k \in Int /\ n % k \in 0..(k - 1) /\ n = k * (n \div k) + (n % k)
    BY <1>5, DivMod
  <2> QED BY <1>5, <2>1, DivModUnique
<1> QED BY <1>6, <1>7 DEF q

(* GetTimestamp inverts SetTimestamp. *)
LEMMA TimeInverts ==
  ASSUME NEW t \in Nat, Seconds(t) + EpochOffset < NtpValues
  PROVE  GetTimestamp(SetTimestamp(t)) = t
<1> DEFINE sec == t \div SecUs
           r == t % SecUs
<1>1. SecUs \in Nat \ {0} /\ FracValues \in Nat \ {0} /\ EpochOffset \in Nat /\ NtpValues \in Nat \ {0}
  BY ScaleAssumption
<1>2. sec \in Int /\ r \in 0..(SecUs - 1) /\ t = SecUs * sec + r
  <2>1. t \in Int
    OBVIOUS
  <2> QED BY ONLY <1>1, <2>1, DivMod, Zenon
<1>3. sec \in Nat
  BY <1>1, DivNat, Zenon
<1>4. Seconds(t) = sec /\ t - sec * SecUs = r
  <2>1. sec * SecUs = SecUs * sec /\ SecUs * sec \in Int
    BY <1>1, <1>3
  <2> QED BY <1>2, <2>1 DEF Seconds
<1> HIDE DEF sec, r
<1>5. NtpSeconds(t) = sec + EpochOffset
  <2>1. sec + EpochOffset \in Nat /\ sec + EpochOffset < NtpValues
    BY <1>1, <1>3, <1>4
  <2> QED BY <1>1, <1>4, <2>1, ModSmall DEF NtpSeconds
<1> DEFINE frac == (r * FracValues) \div SecUs
           cut == (r * FracValues) % SecUs
<1>6. r \in Nat /\ r * FracValues \in Nat
  BY <1>1, <1>2
<1>7. /\ frac \in Int /\ cut \in 0..(SecUs - 1)
      /\ r * FracValues = SecUs * frac + cut
  <2>1. r * FracValues \in Int
    BY <1>6
  <2> QED BY ONLY <1>1, <2>1, DivMod, Zenon
<1>8. frac \in Nat
  BY <1>1, <1>6, DivNat, Zenon
<1>9. Fraction(t) = frac
  BY <1>4 DEF Fraction
<1> HIDE DEF frac, cut
<1>10. RoundToQuarter(frac) = r
  BY <1>6, <1>7, <1>8, FractionInverts
<1>11. GetTimestamp(SetTimestamp(t)) = ((sec + EpochOffset) - EpochOffset) * SecUs + r
  <2>1. GetTimestamp(SetTimestamp(t)) = (NtpSeconds(t) - EpochOffset) * SecUs + RoundToQuarter(Fraction(t))
    BY DEF GetTimestamp, SetTimestamp
  <2>2. RoundToQuarter(Fraction(t)) = r
    BY <1>9, <1>10, Zenon
  <2>3. NtpSeconds(t) - EpochOffset = (sec + EpochOffset) - EpochOffset
    BY <1>5, Zenon
  <2> QED BY ONLY <2>1, <2>2, <2>3, Zenon
<1>12. (sec + EpochOffset) - EpochOffset = sec /\ sec * SecUs = SecUs * sec
  BY <1>1, <1>3
<1>13. SecUs * sec \in Int /\ r \in Int
  BY <1>1, <1>2
<1> QED BY ONLY <1>2, <1>11, <1>12, <1>13

(* A number of 32 bits is the number its word stands for. *)
LEMMA NumberInverts ==
  ASSUME NEW n \in Nat
  PROVE  NumberOf(WordOf(n)) = n
<1> DEFINE q == n \div 65536
<1>1. q \in Nat /\ n % 65536 \in Nat /\ n = 65536 * q + (n % 65536)
  OBVIOUS
<1> HIDE DEF q
<1>2. q \div 256 \in Nat /\ q % 256 \in Nat /\ q = 256 * (q \div 256) + (q % 256)
  BY <1>1
<1>3. NumberOf(WordOf(n)) = ((q \div 256) * 256 + (q % 256)) * 65536 + (n % 65536)
  BY DEF NumberOf, WordOf, q
<1> QED BY <1>1, <1>2, <1>3

-----------------------------------------------------------------------------
(* The invariant.                                                          *)

(* A word as a Serialize method writes it; that of a time is as large as the
   scale of the times makes it. *)
Words == [b0 : Nat, pt : Nat, len : Nat]

(* Values of sent and of output. *)
Entry == [packet : Packets, at : Nat]
Report ==
  [kind : {"SR"}, nth : Nat, fields : [1..6 -> Words]] \cup [kind : {"RR"}, nth : Nat]

TypePart ==
  /\ wire \in Seq(Words) /\ rest \in 0..3 /\ sent \in Seq(Entry)
  /\ pc \in {"compose", "blocks", "walk", "done"}
  /\ draft \in Seq(Words) /\ i \in Nat
  /\ data \in Nat /\ len \in Int /\ output \in Seq(Report) /\ cnt \in Nat

(* The packet type in the header of a packet. *)
TypeOf(p) == CASE p.kind = "SR" -> SenderReport
               [] p.kind = "RR" -> ReceiverReport
               [] p.kind = "FB" -> RTPFeedback

(* What Serialize has written so far: only a receiver report without blocks is
   shorter than its header says. *)
DraftPart ==
  /\ pc # "blocks" => i = 0
  /\ pc = "blocks" =>
       /\ packet \in Packets /\ draft # <<>> /\ draft[1].pt = TypeOf(packet)
       /\ packet.kind = "SR" => draft = SerializeSR(packet)
       /\ packet.kind = "RR" => draft[1].len = 7 /\ Len(draft) = IF i = 0 THEN 2 ELSE 8
       /\ packet.kind = "FB" => draft[1].len + 1 = Len(draft)

(* The words before the nth packet; behind the last one they are all words. *)
Start(n) == IF n <= Len(sent) THEN sent[n].at ELSE Len(wire)

(* The words of w behind the first s and up to the first e are those of p. *)
PlacedAt(p, s, e, w) ==
  /\ s \in Nat /\ e \in Nat /\ s < e /\ e <= Len(w)
  /\ w[s + 1].pt = TypeOf(p)
  /\ Counted(p) => w[s + 1].len + 1 = e - s
  /\ p.kind = "SR" => e - s = 7 /\ \A j \in 1..6 : w[(s + 1) + j] = SerializeSR(p)[j + 1]

(* Where the packets of the datagram lie, and what their words are. *)
Placed(n) == PlacedAt(sent[n].packet, Start(n), Start(n + 1), wire)

WirePart ==
  /\ wire = <<>> \/ sent # <<>> => rest = 0 /\ Start(1) = 0
  /\ pc = "blocks" => wire = <<>> \/ sent # <<>>
  /\ \A n \in 1..Len(sent) : Placed(n)

(* The kth report of out was made from one of the first c packets of ps, from a
   later one than the reports before it, and has its kind and its words. *)
ReportOf(out, k, c, ps) ==
  LET nth == out[k].nth
  IN  /\ nth \in 1..c /\ \A l \in 1..(k - 1) : out[l].nth < nth
      /\ out[k].kind = ps[nth].packet.kind
      /\ out[k].kind = "SR" =>
           \A j \in 1..6 : out[k].fields[j] = SerializeSR(ps[nth].packet)[j + 1]

(* Parse stands at the start of a packet. *)
InStep ==
  /\ cnt <= Len(sent) /\ data = 4 * Start(cnt + 1)
  /\ pc = "done" => cnt = Len(sent)
  /\ \A n \in 1..cnt :
       sent[n].packet.kind # "FB" => \E k \in 1..Len(output) : output[k].nth = n
  /\ \A k \in 1..Len(output) : ReportOf(output, k, cnt, sent)

ParsePart ==
  /\ pc \in {"compose", "blocks"} => data = 0 /\ output = <<>> /\ cnt = 0
  /\ pc = "walk" => data + len = Size
  /\ pc \in {"walk", "done"} /\ AllCounted => InStep

WalkInv == TypePart /\ DraftPart /\ WirePart /\ ParsePart

-----------------------------------------------------------------------------
(* What the Serialize methods write.                                       *)

(* The seconds and the fraction of a time. *)
LEMMA TimeFields ==
  ASSUME NEW t \in Nat
  PROVE  NtpSeconds(t) \in Nat /\ Fraction(t) \in Nat
<1> DEFINE sec == t \div SecUs
           r == t % SecUs
<1>1. SecUs \in Nat \ {0} /\ FracValues \in Nat /\ EpochOffset \in Nat /\ NtpValues \in Nat \ {0}
  BY ScaleAssumption
<1>2. t \in Int
  OBVIOUS
<1>3. sec \in Int /\ r \in 0..(SecUs - 1) /\ t = SecUs * sec + r
  BY ONLY <1>1, <1>2, DivMod, Zenon
<1>4. sec \in Nat
  BY <1>1, DivNat, Zenon
<1>5. Seconds(t) = sec
  BY DEF Seconds
<1> HIDE DEF sec, r
<1>6. t - sec * SecUs = r /\ r \in Nat
  <2>1. sec * SecUs = SecUs * sec /\ SecUs * sec \in Int
    BY <1>1, <1>4
  <2> QED BY <1>1, <1>3, <2>1
<1>7. NtpSeconds(t) \in Nat
  <2>1. sec + EpochOffset \in Int
    BY <1>1, <1>4
  <2>2. (sec + EpochOffset) % NtpValues \in 0..(NtpValues - 1)
    BY ONLY <1>1, <2>1, DivMod, Zenon
  <2>3. (sec + EpochOffset) % NtpValues \in Nat
    BY ONLY <1>1, <2>2
  <2> QED BY <1>5, <2>3 DEF NtpSeconds
<1>8. Fraction(t) \in Nat
  <2>1. r * FracValues \in Nat
    BY <1>1, <1>6
  <2>2. (r * FracValues) \div SecUs \in Nat
    BY ONLY <1>1, <2>1, DivNat, Zenon
  <2>3. Fraction(t) = (r * FracValues) \div SecUs
    BY <1>5, <1>6 DEF Fraction
  <2> QED BY ONLY <2>2, <2>3
<1> QED BY <1>7, <1>8

(* A number's word. *)
LEMMA NumberWord ==
  ASSUME NEW n \in Nat
  PROVE  WordOf(n) \in Words
<1> DEFINE q == n \div 65536
<1>1. q \in Nat /\ n % 65536 \in Nat
  OBVIOUS
<1>2. WordOf(n) = [b0 |-> q \div 256, pt |-> q % 256, len |-> n % 65536]
  BY DEF WordOf
<1> HIDE DEF q
<1>3. q \div 256 \in Nat /\ q % 256 \in Nat
  BY <1>1
<1> QED BY ONLY <1>1, <1>2, <1>3 DEF Words

(* What arrives is made of words too. *)
LEMMA WordIsWords == Word \subseteq Words
<1> DEFINE A == 0..255
           B == 0..65535
<1>1. A \subseteq Nat /\ B \subseteq Nat
  OBVIOUS
<1>2. Word = [b0 : A, pt : A, len : B]
  BY DEF Word
<1> HIDE DEF A, B
<1> QED BY ONLY <1>1, <1>2 DEF Words

(* The header of a packet of m words; a buffer holds 300. *)
LEMMA HeaderWords ==
  ASSUME NEW count \in Nat, NEW type \in Nat, NEW m \in Nat \ {0}, m <= 300
  PROVE  LET h == SerializeHeader(Header(count, type, 4 * m))
         IN  h \in Words /\ h.pt = type /\ h.len = m - 1
<1> DEFINE h == SerializeHeader(Header(count, type, 4 * m))
           l == (4 * m) \div 4 - 1
           k == 65536
<1>1. h = [b0 |-> 128 + (count % 32), pt |-> type, len |-> l % k]
  <2> DEFINE g == Header(count, type, 4 * m)
  <2>1. g.padding = FALSE /\ g.count = count /\ g.packetType = type /\ g.length = 4 * m
    BY DEF Header
  <2> HIDE DEF g
  <2>2. SerializeHeader(g) = [b0 |-> 128 + (count % 32), pt |-> type, len |-> ((4 * m) \div 4 - 1) % 65536]
    <3>1. (IF g.padding THEN 160 ELSE 128) = 128
      BY <2>1
    <3> QED BY ONLY <2>1, <3>1 DEF SerializeHeader
  <2> QED BY <2>2 DEF g
<1>2. l = m - 1
  OBVIOUS
<1>3. m - 1 \in Nat
  OBVIOUS
<1> HIDE DEF l, k
<1>4. l % k = m - 1
  <2>1. m - 1 < k /\ k \in Nat \ {0}
    BY DEF k
  <2>2. (m - 1) % k = m - 1
    BY ONLY <1>3, <2>1, ModSmall, Zenon
  <2> QED BY ONLY <1>2, <2>2
<1>5. 128 + (count % 32) \in Nat
  OBVIOUS
<1> HIDE DEF h
<1>6. h \in Words /\ h.pt = type /\ h.len = m - 1
  BY ONLY <1>1, <1>3, <1>4, <1>5, type \in Nat DEF Words
<1> QED BY <1>6 DEF h

(* The kinds of packets. *)
LEMMA Kinds ==
  ASSUME NEW p \in Packets
  PROVE  /\ p.kind \in {"SR", "RR", "FB"} /\ p.ssrc \in Words
         /\ p.kind = "SR" => p.time \in Nat /\ p.reports \in Nat /\ \A k \in 1..3 : p.counters[k] \in Words
         /\ p.kind = "RR" => p.reports \in Seq([1..6 -> Words])
         /\ p.kind = "FB" => /\ p.field.type \in Nat /\ p.field.words \in Seq(Words)
                             /\ Len(p.field.words) \in 0..297
<1>1. Packet(p)
  BY PacketsAssumption
<1>2. CASE /\ p.kind = "SR" /\ p.ssrc \in Word /\ p.time \in Nat /\ p.time >= EarliestTime
           /\ p.counters \in [1..3 -> Word] /\ p.reports \in Nat
  BY <1>2, WordIsWords
<1>3. CASE p.kind = "RR" /\ p.ssrc \in Word /\ p.reports \in Seq([1..6 -> Word])
  <2>1. [1..6 -> Word] \subseteq [1..6 -> Words]
    BY WordIsWords
  <2>2. p.reports \in Seq([1..6 -> Words])
    BY <1>3, <2>1, SeqMonotonic
  <2> QED BY <1>3, <2>2, WordIsWords
<1>4. CASE /\ p.kind = "FB" /\ p.ssrc \in Word /\ p.field.words \in Seq(Word)
           /\ \/ p.field.type = NACK /\ Len(p.field.words) = 2
              \/ p.field.type = TransportWideFeedbackMessage /\ 4 * Len(p.field.words) <= FieldBytes
  <2>1. p.field.words \in Seq(Words)
    BY <1>4, WordIsWords, SeqMonotonic
  <2>2. Len(p.field.words) \in Nat
    BY <1>4, LenProperties
  <2>3. p.field.type \in Nat
    BY <1>4 DEF NACK, TransportWideFeedbackMessage
  <2>4. Len(p.field.words) \in 0..297
    <3> DEFINE n == Len(p.field.words)
    <3>1. n \in Nat /\ (n = 2 \/ 4 * n <= 1188)
      BY <1>4, <2>2 DEF FieldBytes, FeedbackBytes, RTCPCommonHeaderSize
    <3> HIDE DEF n
    <3>2. n \in 0..297
      BY ONLY <3>1
    <3> QED BY <3>2 DEF n
  <2>5. p.kind = "FB" /\ p.ssrc \in Words
    BY <1>4, WordIsWords
  <2> QED BY ONLY <2>1, <2>3, <2>4, <2>5
<1> QED BY <1>1, <1>2, <1>3, <1>4 DEF Packet

(* A sender report has seven words, as its header says. *)
LEMMA SenderReportWords ==
  ASSUME NEW p \in Packets, p.kind = "SR"
  PROVE  /\ SerializeSR(p) \in Seq(Words) /\ Len(SerializeSR(p)) = 7
         /\ SerializeSR(p)[1].pt = SenderReport /\ SerializeSR(p)[1].len = 6
         /\ SerializeSR(p)[3] = WordOf(NtpSeconds(p.time))
         /\ SerializeSR(p)[4] = WordOf(Fraction(p.time))
<1> DEFINE h == SerializeHeader(Header(p.reports, SenderReport, SenderReportBytes))
           a == p.ssrc
           b == WordOf(NtpSeconds(p.time))
           c == WordOf(Fraction(p.time))
           d == p.counters[1]
           e == p.counters[2]
           f == p.counters[3]
<1>1. h \in Words /\ h.pt = SenderReport /\ h.len = 6
  <2>1. SenderReportBytes = 4 * 7 /\ SenderReport \in Nat /\ 7 \in Nat \ {0} /\ 7 <= 300
    BY DEF SenderReportBytes, RTCPCommonHeaderSize, SenderReportSize, SenderReport
  <2>2. p.reports \in Nat
    BY Kinds
  <2>3. h \in Words /\ h.pt = SenderReport /\ h.len = 7 - 1
    <3> DEFINE g == SerializeHeader(Header(p.reports, SenderReport, 4 * 7))
    <3>1. h = g
      BY <2>1
    <3>2. g \in Words /\ g.pt = SenderReport /\ g.len = 7 - 1
      BY ONLY <2>1, <2>2, HeaderWords, Zenon
    <3> HIDE DEF g
    <3> QED BY ONLY <3>1, <3>2, Zenon
  <2> QED BY ONLY <2>3
<1>2. a \in Words /\ d \in Words /\ e \in Words /\ f \in Words
  BY Kinds
<1>3. b \in Words /\ c \in Words
  <2>1. p.time \in Nat
    BY Kinds
  <2>2. NtpSeconds(p.time) \in Nat /\ Fraction(p.time) \in Nat
    BY ONLY <2>1, TimeFields, Zenon
  <2> QED BY ONLY <2>2, NumberWord, Zenon
<1>4. SerializeSR(p) = <<h, a, b, c, d, e, f>>
  BY DEF SerializeSR, SetTimestamp
<1> HIDE DEF h, a, b, c, d, e, f
<1>5. /\ <<h, a, b, c, d, e, f>> \in Seq(Words) /\ Len(<<h, a, b, c, d, e, f>>) = 7
      /\ <<h, a, b, c, d, e, f>>[1] = h /\ <<h, a, b, c, d, e, f>>[3] = b /\ <<h, a, b, c, d, e, f>>[4] = c
  BY ONLY <1>1, <1>2, <1>3
<1>6. /\ SerializeSR(p) \in Seq(Words) /\ Len(SerializeSR(p)) = 7
      /\ SerializeSR(p)[1] = h /\ SerializeSR(p)[3] = b /\ SerializeSR(p)[4] = c
  BY ONLY <1>4, <1>5, Zenon
<1>7. SerializeSR(p)[1].pt = SenderReport /\ SerializeSR(p)[1].len = 6
  BY ONLY <1>1, <1>6, Zenon
<1> QED BY ONLY <1>6, <1>7 DEF b, c

(* A receiver report up to its blocks: a header that says one block, and an
   SSRC. *)
LEMMA ReceiverReportWords ==
  ASSUME NEW p \in Packets, p.kind = "RR"
  PROVE  /\ SerializeRR(p) \in Seq(Words) /\ Len(SerializeRR(p)) = 2
         /\ SerializeRR(p)[1].pt = ReceiverReport /\ SerializeRR(p)[1].len = 7
<1> DEFINE h == SerializeHeader(Header(Len(p.reports), ReceiverReport, ReceiverReportBytes))
           a == p.ssrc
<1>1. h \in Words /\ h.pt = ReceiverReport /\ h.len = 7
  <2>1. ReceiverReportBytes = 4 * 8 /\ ReceiverReport \in Nat /\ 8 \in Nat \ {0} /\ 8 <= 300
    BY DEF ReceiverReportBytes, RTCPCommonHeaderSize, ReceiverReportSize, ReceiverReport
  <2>2. Len(p.reports) \in Nat
    BY Kinds
  <2>3. h \in Words /\ h.pt = ReceiverReport /\ h.len = 8 - 1
    <3> DEFINE g == SerializeHeader(Header(Len(p.reports), ReceiverReport, 4 * 8))
    <3>1. h = g
      BY <2>1
    <3>2. g \in Words /\ g.pt = ReceiverReport /\ g.len = 8 - 1
      BY ONLY <2>1, <2>2, HeaderWords, Zenon
    <3> HIDE DEF g
    <3> QED BY ONLY <3>1, <3>2, Zenon
  <2> QED BY ONLY <2>3
<1>2. a \in Words
  BY Kinds
<1>3. SerializeRR(p) = <<h, a>>
  BY DEF SerializeRR
<1> HIDE DEF h, a
<1>4. <<h, a>> \in Seq(Words) /\ Len(<<h, a>>) = 2 /\ <<h, a>>[1] = h
  BY ONLY <1>1, <1>2
<1> QED BY ONLY <1>1, <1>3, <1>4, Zenon

(* A feedback packet is as long as its header says, whatever its field. *)
LEMMA FeedbackWords ==
  ASSUME NEW p \in Packets, p.kind = "FB"
  PROVE  /\ SerializeFB(p) \in Seq(Words) /\ Len(SerializeFB(p)) \in 1..300
         /\ SerializeFB(p)[1].pt = RTPFeedback /\ SerializeFB(p)[1].len + 1 = Len(SerializeFB(p))
<1> DEFINE ws == p.field.words
           n == Len(ws)
           h == SerializeHeader(Header(p.field.type, RTPFeedback, FeedbackLength(4 * n)))
           a == p.ssrc
<1>1. ws \in Seq(Words) /\ n \in 0..297 /\ p.field.type \in Nat /\ a \in Words
  BY Kinds
<1>2. Zero \in Words
  BY PacketsAssumption DEF Words
<1>3. SerializeFB(p) = <<h, Zero, a>> \o ws
  BY DEF SerializeFB, SerializeField
<1> HIDE DEF n
<1>4. h \in Words /\ h.pt = RTPFeedback /\ h.len = n + 2
  <2>1. FeedbackLength(4 * n) = 4 * (n + 3) /\ RTPFeedback \in Nat /\ n + 3 \in Nat \ {0} /\ n + 3 <= 300
    BY <1>1 DEF FeedbackLength, RTCPCommonHeaderSize, RTPFeedback
  <2>2. h \in Words /\ h.pt = RTPFeedback /\ h.len = (n + 3) - 1
    <3> DEFINE g == SerializeHeader(Header(p.field.type, RTPFeedback, 4 * (n + 3)))
    <3>1. h = g
      BY <2>1
    <3>2. g \in Words /\ g.pt = RTPFeedback /\ g.len = (n + 3) - 1
      BY ONLY <1>1, <2>1, HeaderWords, Zenon
    <3> HIDE DEF g
    <3> QED BY ONLY <3>1, <3>2, Zenon
  <2> QED BY ONLY <1>1, <2>2
<1> HIDE DEF ws, h, a
<1>5. <<h, Zero, a>> \in Seq(Words) /\ Len(<<h, Zero, a>>) = 3 /\ <<h, Zero, a>>[1] = h
  BY ONLY <1>1, <1>2, <1>4
<1> DEFINE s == <<h, Zero, a>>
           u == s \o ws
<1>6. s \in Seq(Words) /\ Len(s) = 3 /\ s[1] = h
  BY ONLY <1>5
<1> HIDE DEF s
<1>7. u \in Seq(Words) /\ Len(u) = Len(s) + Len(ws) /\ \A k \in 1..Len(s) : u[k] = s[k]
  BY ONLY <1>1, <1>6, Concatenation, Zenon
<1> HIDE DEF u
<1>8. Len(u) = 3 + n /\ u[1] = h
  BY ONLY <1>6, <1>7 DEF n
<1>9. Len(u) \in 1..300 /\ u[1].pt = RTPFeedback /\ u[1].len + 1 = Len(u)
  BY ONLY <1>1, <1>4, <1>8
<1>10. SerializeFB(p) = u
  BY ONLY <1>3 DEF u, s
<1> QED BY ONLY <1>7, <1>9, <1>10, Zenon

(* What Serialize has written before its loop over the blocks. *)
LEMMA SerializeWords ==
  ASSUME NEW p \in Packets
  PROVE  /\ Serialize(p) \in Seq(Words) /\ Len(Serialize(p)) \in Nat \ {0}
         /\ Serialize(p)[1].pt = TypeOf(p)
         /\ p.kind = "SR" => Serialize(p) = SerializeSR(p)
         /\ p.kind = "RR" => Serialize(p)[1].len = 7 /\ Len(Serialize(p)) = 2
         /\ p.kind = "FB" => Serialize(p)[1].len + 1 = Len(Serialize(p))
<1>1. p.kind \in {"SR", "RR", "FB"}
  BY Kinds
<1>2. CASE p.kind = "SR"
  <2>1. Serialize(p) = SerializeSR(p) /\ TypeOf(p) = SenderReport
    BY <1>2 DEF Serialize, TypeOf
  <2>2. SerializeSR(p) \in Seq(Words) /\ Len(SerializeSR(p)) = 7 /\ SerializeSR(p)[1].pt = SenderReport
    BY <1>2, SenderReportWords
  <2>3. 7 \in Nat \ {0}
    OBVIOUS
  <2>4. p.kind # "RR" /\ p.kind # "FB"
    BY <1>2
  <2> QED BY ONLY <2>1, <2>2, <2>3, <2>4, Zenon
<1>3. CASE p.kind = "RR"
  <2>1. Serialize(p) = SerializeRR(p) /\ TypeOf(p) = ReceiverReport
    BY <1>3 DEF Serialize, TypeOf
  <2>2. /\ SerializeRR(p) \in Seq(Words) /\ Len(SerializeRR(p)) = 2
        /\ SerializeRR(p)[1].pt = ReceiverReport /\ SerializeRR(p)[1].len = 7
    BY <1>3, ReceiverReportWords
  <2>3. 2 \in Nat \ {0}
    OBVIOUS
  <2>4. p.kind # "SR" /\ p.kind # "FB"
    BY <1>3
  <2> QED BY ONLY <2>1, <2>2, <2>3, <2>4, Zenon
<1>4. CASE p.kind = "FB"
  <2>1. Serialize(p) = SerializeFB(p) /\ TypeOf(p) = RTPFeedback
    BY <1>4 DEF Serialize, TypeOf
  <2>2. /\ SerializeFB(p) \in Seq(Words) /\ Len(SerializeFB(p)) \in 1..300
        /\ SerializeFB(p)[1].pt = RTPFeedback /\ SerializeFB(p)[1].len + 1 = Len(SerializeFB(p))
    BY <1>4, FeedbackWords
  <2>3. \A n \in 1..300 : n \in Nat \ {0}
    OBVIOUS
  <2>4. p.kind # "SR" /\ p.kind # "RR"
    BY <1>4
  <2> QED BY ONLY <2>1, <2>2, <2>3, <2>4, Zenon
<1> QED BY <1>1, <1>2, <1>3, <1>4

(* The blocks the loop goes through are blocks the packet has. *)
LEMMA BlockWords ==
  ASSUME NEW p \in Packets, NEW k \in Nat, k < Blocks(p)
  PROVE  p.kind = "RR" /\ p.reports[k + 1] \in Seq(Words) /\ Len(p.reports[k + 1]) = 6
<1>1. p.kind = "RR"
  <2>1. p.kind # "RR" => Blocks(p) = 0
    BY DEF Blocks
  <2>2. ~(k < 0)
    OBVIOUS
  <2> QED BY ONLY <2>1, <2>2, k < Blocks(p), Zenon
<1>2. p.reports \in Seq([1..6 -> Words])
  BY <1>1, Kinds
<1> DEFINE n == Len(p.reports)
<1>3. n \in Nat /\ \A l \in 1..n : p.reports[l] \in [1..6 -> Words]
  BY <1>2, SequenceFacts
<1>4. k < n % 256
  BY <1>1 DEF Blocks
<1> HIDE DEF n
<1>5. n % 256 <= n
  BY <1>3
<1>6. k + 1 \in 1..n
  <2>1. n % 256 \in Int
    BY <1>3
  <2> QED BY ONLY <1>3, <1>4, <1>5, <2>1, k \in Nat
<1>7. p.reports[k + 1] \in [1..6 -> Words]
  BY <1>3, <1>6
<1> DEFINE f == p.reports[k + 1]
<1> HIDE DEF f
<1>8. f \in Seq(Words) /\ Len(f) = 6
  <2>1. f \in [1..6 -> Words] /\ 6 \in Nat
    BY <1>7 DEF f
  <2> QED BY ONLY <2>1, FunctionIsSequence
<1> QED BY <1>1, <1>8 DEF f

-----------------------------------------------------------------------------
(* Serialize preserves the invariant.                                      *)

(* The first state. *)
LEMMA WalkInvInit == Init => WalkInv
<1> SUFFICES ASSUME Init PROVE WalkInv
  OBVIOUS
<1> USE DEF Init
<1>1. TypePart
  BY DEF TypePart
<1>2. DraftPart
  BY DEF DraftPart
<1>3. WirePart
  BY DEF WirePart, Start
<1>4. ParsePart
  BY DEF ParsePart, AllCounted
<1> QED BY <1>1, <1>2, <1>3, <1>4 DEF WalkInv

(* Steps that leave the draft alone. *)
LEMMA DraftKept ==
  ASSUME DraftPart, UNCHANGED serializing, pc' # "blocks", pc # "blocks"
  PROVE  DraftPart'
  BY DEF DraftPart, serializing

(* Serialize is called. *)
LEMMA ComposeDraft ==
  ASSUME WalkInv, NEW p \in Packets, Compose(p)
  PROVE  draft' \in Seq(Words) /\ DraftPart'
<1>1. pc' = "blocks" /\ packet' = p /\ draft' = Serialize(p) /\ i' = 0
  BY DEF WalkInv, DraftPart, Compose
<1>2. /\ Serialize(p) \in Seq(Words) /\ Len(Serialize(p)) \in Nat \ {0}
      /\ Serialize(p)[1].pt = TypeOf(p)
      /\ p.kind = "SR" => Serialize(p) = SerializeSR(p)
      /\ p.kind = "RR" => Serialize(p)[1].len = 7 /\ Len(Serialize(p)) = 2
      /\ p.kind = "FB" => Serialize(p)[1].len + 1 = Len(Serialize(p))
  BY SerializeWords
<1> DEFINE d == Serialize(p)
<1> HIDE DEF d
<1>3. d # <<>>
  BY <1>2 DEF d
<1>4. draft' \in Seq(Words) /\ draft' # <<>> /\ draft'[1].pt = TypeOf(packet')
  BY ONLY <1>1, <1>2, <1>3, Zenon DEF d
<1>5. packet'.kind = "SR" => draft' = SerializeSR(packet')
  BY ONLY <1>1, <1>2, Zenon
<1>6. packet'.kind = "RR" => draft'[1].len = 7 /\ Len(draft') = 2
  BY ONLY <1>1, <1>2, Zenon
<1>7. packet'.kind = "FB" => draft'[1].len + 1 = Len(draft')
  BY ONLY <1>1, <1>2, Zenon
<1> QED BY ONLY <1>1, <1>4, <1>5, <1>6, <1>7, p \in Packets DEF DraftPart

(* One report block more, of which only the first is written. *)
LEMMA BlockDraft ==
  ASSUME WalkInv, SerializeBlock
  PROVE  draft' \in Seq(Words) /\ DraftPart'
<1> DEFINE b == packet.reports[i + 1]
<1>1. /\ pc = "blocks" /\ pc' = "blocks" /\ packet \in Packets /\ packet' = packet
      /\ i \in Nat /\ i < Blocks(packet) /\ i' = i + 1
      /\ draft' = Block(draft, b) /\ draft \in Seq(Words) /\ draft # <<>>
      /\ draft[1].pt = TypeOf(packet)
  BY DEF WalkInv, TypePart, DraftPart, SerializeBlock
<1>2. packet.kind = "RR" /\ b \in Seq(Words) /\ Len(b) = 6
  BY <1>1, BlockWords
<1>3. draft[1].len = 7 /\ Len(draft) = IF i = 0 THEN 2 ELSE 8
  BY <1>1, <1>2 DEF WalkInv, DraftPart
<1> HIDE DEF b
<1>4. /\ draft' \in Seq(Words) /\ Len(draft') = 8 /\ draft' # <<>> /\ draft'[1] = draft[1]
  <2>1. CASE i = 0
    <3>1. Len(draft) = 2 /\ draft' = draft \o b
      BY <1>1, <1>3, <2>1
         DEF Block, ReceiverReportBytes, RTCPCommonHeaderSize, ReceiverReportSize
    <3>2. /\ draft \o b \in Seq(Words) /\ Len(draft \o b) = Len(draft) + Len(b)
          /\ \A k \in 1..Len(draft) : (draft \o b)[k] = draft[k]
      BY ONLY <1>1, <1>2, Concatenation
    <3> QED BY ONLY <1>2, <3>1, <3>2
  <2>2. CASE i # 0
    <3>1. Len(draft) = 8 /\ draft' = draft
      BY <1>1, <1>3, <2>2
         DEF Block, ReceiverReportBytes, RTCPCommonHeaderSize, ReceiverReportSize
    <3> QED BY ONLY <1>1, <3>1
  <2> QED BY <2>1, <2>2
<1>5. i' # 0
  BY <1>1
<1> QED BY ONLY <1>1, <1>2, <1>3, <1>4, <1>5 DEF DraftPart

-----------------------------------------------------------------------------
(* The datagram grows packet by packet.                                    *)

(* The words of a packet that Serialize has done with. *)
LEMMA DraftDone ==
  ASSUME WalkInv, Serialized
  PROVE  /\ packet \in Packets /\ draft \in Seq(Words) /\ Len(draft) \in Nat \ {0}
         /\ draft[1].pt = TypeOf(packet)
         /\ Counted(packet) => draft[1].len + 1 = Len(draft)
         /\ packet.kind = "SR" => Len(draft) = 7 /\ \A j \in 1..6 : draft[1 + j] = SerializeSR(packet)[j + 1]
<1>1. /\ packet \in Packets /\ draft \in Seq(Words) /\ draft # <<>> /\ draft[1].pt = TypeOf(packet)
      /\ i \in Nat /\ i >= Blocks(packet)
      /\ packet.kind = "SR" => draft = SerializeSR(packet)
      /\ packet.kind = "RR" => draft[1].len = 7 /\ Len(draft) = IF i = 0 THEN 2 ELSE 8
      /\ packet.kind = "FB" => draft[1].len + 1 = Len(draft)
  BY DEF WalkInv, TypePart, DraftPart, Serialized
<1>2. packet.kind \in {"SR", "RR", "FB"}
  BY <1>1, Kinds
<1>3. Len(draft) \in Nat \ {0}
  BY ONLY <1>1
<1>4. CASE packet.kind = "SR"
  <2>1. Len(draft) = 7 /\ draft[1].len = 6 /\ draft = SerializeSR(packet)
    BY <1>1, <1>4, SenderReportWords
  <2>2. \A j \in 1..6 : draft[1 + j] = SerializeSR(packet)[j + 1]
    <3>1. \A j \in 1..6 : 1 + j = j + 1
      OBVIOUS
    <3> QED BY ONLY <2>1, <3>1, Zenon
  <2>3. draft[1].len + 1 = Len(draft)
    BY ONLY <2>1
  <2> QED BY ONLY <1>1, <1>3, <2>1, <2>2, <2>3, Zenon
<1>5. CASE packet.kind = "RR"
  <2>1. ASSUME Counted(packet) PROVE draft[1].len + 1 = Len(draft)
    <3>1. Blocks(packet) # 0
      BY <1>5, <2>1 DEF Counted
    <3>2. Blocks(packet) \in Nat
      <4> DEFINE n == Len(packet.reports)
      <4>1. n \in Nat
        BY <1>1, <1>5, Kinds
      <4>2. Blocks(packet) = n % 256
        BY <1>5 DEF Blocks
      <4> HIDE DEF n
      <4> QED BY ONLY <4>1, <4>2
    <3>3. i # 0
      BY ONLY <1>1, <3>1, <3>2
    <3> QED BY ONLY <1>1, <1>5, <3>3
  <2>2. packet.kind # "SR"
    BY <1>5
  <2> QED BY ONLY <1>1, <1>3, <2>1, <2>2
<1>6. CASE packet.kind = "FB"
  BY ONLY <1>1, <1>3, <1>6
<1> QED BY <1>2, <1>4, <1>5, <1>6

(* What the datagram is after Serialize has returned. *)
LEMMA SerializedWire ==
  ASSUME WalkInv, Serialized
  PROVE  /\ wire' \in Seq(Words) /\ sent' \in Seq(Entry)
         /\ Len(wire) \in Nat /\ Len(sent) \in Nat /\ Len(draft) \in Nat \ {0}
         /\ Len(wire') = Len(wire) + Len(draft) /\ Len(sent') = Len(sent) + 1
         /\ \A k \in 1..Len(wire) : wire'[k] = wire[k]
         /\ \A k \in 1..Len(draft) : wire'[Len(wire) + k] = draft[k]
         /\ \A k \in 1..Len(sent) : sent'[k] = sent[k]
         /\ sent'[Len(sent) + 1] = [packet |-> packet, at |-> Len(wire)]
<1> DEFINE e == [packet |-> packet, at |-> Len(wire)]
<1>1. wire \in Seq(Words) /\ sent \in Seq(Entry) /\ wire' = wire \o draft /\ sent' = Append(sent, e)
  BY DEF WalkInv, TypePart, Serialized
<1>2. packet \in Packets /\ draft \in Seq(Words) /\ Len(draft) \in Nat \ {0}
  BY DraftDone
<1>3. Len(wire) \in Nat /\ Len(sent) \in Nat
  BY ONLY <1>1, LenProperties
<1>4. e \in Entry
  BY ONLY <1>2, <1>3 DEF Entry
<1> HIDE DEF e
<1>5. /\ sent' \in Seq(Entry) /\ Len(sent') = Len(sent) + 1
      /\ \A k \in 1..Len(sent) : sent'[k] = sent[k]
      /\ sent'[Len(sent) + 1] = e
  BY ONLY <1>1, <1>4
<1>6. /\ wire' \in Seq(Words) /\ Len(wire') = Len(wire) + Len(draft)
      /\ \A k \in 1..Len(wire) : wire'[k] = wire[k]
      /\ \A k \in 1..Len(draft) : wire'[Len(wire) + k] = draft[k]
  <2>1. /\ wire \o draft \in Seq(Words) /\ Len(wire \o draft) = Len(wire) + Len(draft)
        /\ \A k \in 1..Len(wire) : (wire \o draft)[k] = wire[k]
        /\ \A k \in 1..Len(draft) : (wire \o draft)[Len(wire) + k] = draft[k]
    BY ONLY <1>1, <1>2, Concatenation
  <2>2. wire' = wire \o draft
    BY ONLY <1>1
  <2> QED BY ONLY <2>1, <2>2, Zenon
<1> QED BY ONLY <1>2, <1>3, <1>5, <1>6 DEF e

(* A packet stays where it is when another is put behind it. *)
LEMMA PlacedKept ==
  ASSUME NEW p, NEW s, NEW e, NEW v \in Seq(Words), NEW w \in Seq(Words), PlacedAt(p, s, e, v),
         Len(v) <= Len(w), \A k \in 1..Len(v) : w[k] = v[k]
  PROVE  PlacedAt(p, s, e, w)
<1>1. /\ s \in Nat /\ e \in Nat /\ s < e /\ e <= Len(v)
      /\ v[s + 1].pt = TypeOf(p)
      /\ Counted(p) => v[s + 1].len + 1 = e - s
      /\ p.kind = "SR" => e - s = 7 /\ \A j \in 1..6 : v[(s + 1) + j] = SerializeSR(p)[j + 1]
  BY DEF PlacedAt
<1>2. Len(v) \in Nat /\ Len(w) \in Nat
  BY LenProperties
<1>3. e <= Len(w) /\ s + 1 \in 1..Len(v)
  BY ONLY <1>1, <1>2, Len(v) <= Len(w)
<1>4. w[s + 1] = v[s + 1]
  BY <1>3
<1>5. ASSUME e - s = 7, NEW j \in 1..6 PROVE w[(s + 1) + j] = v[(s + 1) + j]
  <2>1. (s + 1) + j \in 1..Len(v)
    BY ONLY <1>1, <1>2, <1>5
  <2> QED BY <2>1
<1>6. p.kind = "SR" => e - s = 7 /\ \A j \in 1..6 : w[(s + 1) + j] = SerializeSR(p)[j + 1]
  BY ONLY <1>1, <1>5, Zenon
<1>7. /\ w[s + 1].pt = TypeOf(p)
      /\ Counted(p) => w[s + 1].len + 1 = e - s
  BY ONLY <1>1, <1>4, Zenon
<1> QED BY ONLY <1>1, <1>3, <1>6, <1>7 DEF PlacedAt

(* The packet put behind the others. *)
LEMMA PlacedLast ==
  ASSUME NEW p, NEW v \in Seq(Words), NEW d \in Seq(Words), NEW w \in Seq(Words),
         Len(d) \in Nat \ {0}, Len(w) = Len(v) + Len(d),
         \A k \in 1..Len(d) : w[Len(v) + k] = d[k],
         d[1].pt = TypeOf(p), Counted(p) => d[1].len + 1 = Len(d),
         p.kind = "SR" => Len(d) = 7 /\ \A j \in 1..6 : d[1 + j] = SerializeSR(p)[j + 1]
  PROVE  PlacedAt(p, Len(v), Len(w), w)
<1> DEFINE s == Len(v)
           e == Len(w)
<1>1. s \in Nat /\ e \in Nat /\ s < e /\ e <= Len(w) /\ e - s = Len(d)
  BY LenProperties
<1>2. w[s + 1] = d[1]
  <2>1. 1 \in 1..Len(d)
    OBVIOUS
  <2> QED BY <2>1
<1>3. ASSUME Len(d) = 7, NEW j \in 1..6 PROVE w[(s + 1) + j] = d[1 + j]
  <2>1. 1 + j \in 1..Len(d) /\ s + (1 + j) = (s + 1) + j
    BY ONLY <1>1, <1>3
  <2>2. w[s + (1 + j)] = d[1 + j]
    BY <2>1
  <2> QED BY ONLY <2>1, <2>2, Zenon
<1>4. p.kind = "SR" => e - s = 7 /\ \A j \in 1..6 : w[(s + 1) + j] = SerializeSR(p)[j + 1]
  <2> SUFFICES ASSUME p.kind = "SR" PROVE e - s = 7 /\ \A j \in 1..6 : w[(s + 1) + j] = SerializeSR(p)[j + 1]
    OBVIOUS
  <2>1. Len(d) = 7 /\ \A j \in 1..6 : d[1 + j] = SerializeSR(p)[j + 1]
    OBVIOUS
  <2> HIDE DEF s, e
  <2> QED BY ONLY <1>1, <1>3, <2>1, Zenon
<1>5. /\ w[s + 1].pt = TypeOf(p)
      /\ Counted(p) => w[s + 1].len + 1 = e - s
  BY <1>1, <1>2, Zenon
<1> QED BY ONLY <1>1, <1>4, <1>5 DEF PlacedAt

(* Where the packets start after Serialize has returned. *)
LEMMA SerializedStart ==
  ASSUME WalkInv, Serialized, NEW m \in Nat, m = Len(sent)
  PROVE  /\ \A n \in 1..(m + 1) : Start(n)' = Start(n)
         /\ Start(m + 1) = Len(wire) /\ Start(m + 2)' = Len(wire')
<1>1. /\ Len(sent') = m + 1
      /\ \A k \in 1..m : sent'[k] = sent[k]
      /\ sent'[m + 1].at = Len(wire)
  BY SerializedWire
<1>2. ~(m + 1 <= m) /\ ~(m + 2 <= m + 1)
  BY ONLY m \in Nat
<1>3. Start(m + 1) = Len(wire)
  BY ONLY <1>2, m = Len(sent) DEF Start
<1>4. Start(m + 2)' = Len(wire')
  BY ONLY <1>1, <1>2 DEF Start
<1>5. ASSUME NEW n \in 1..(m + 1) PROVE Start(n)' = Start(n)
  <2>1. Start(n)' = sent'[n].at
    <3>1. n <= m + 1
      BY ONLY <1>5
    <3> QED BY ONLY <1>1, <3>1 DEF Start
  <2>2. CASE n = m + 1
    BY ONLY <1>1, <1>3, <2>1, <2>2
  <2>3. CASE n # m + 1
    <3>1. n \in 1..m /\ n <= m
      BY ONLY <1>5, <2>3
    <3>2. sent'[n] = sent[n]
      BY ONLY <1>1, <3>1
    <3> QED BY ONLY <2>1, <3>1, <3>2, m = Len(sent) DEF Start
  <2> QED BY <2>2, <2>3
<1> QED BY <1>3, <1>4, <1>5

(* The packets of the datagram lie where they should when one is added. *)
LEMMA SerializedPlaced ==
  ASSUME WalkInv, Serialized, NEW m \in Nat, m = Len(sent), NEW n \in 1..(m + 1)
  PROVE  Placed(n)'
<1>1. /\ wire' \in Seq(Words) /\ sent' \in Seq(Entry)
      /\ Len(wire) \in Nat /\ Len(draft) \in Nat \ {0}
      /\ Len(wire') = Len(wire) + Len(draft)
      /\ \A k \in 1..Len(wire) : wire'[k] = wire[k]
      /\ \A k \in 1..Len(draft) : wire'[Len(wire) + k] = draft[k]
      /\ \A k \in 1..m : sent'[k] = sent[k]
      /\ sent'[m + 1] = [packet |-> packet, at |-> Len(wire)]
  BY SerializedWire
<1>2. /\ \A k \in 1..(m + 1) : Start(k)' = Start(k)
      /\ Start(m + 1) = Len(wire) /\ Start(m + 2)' = Len(wire')
  BY SerializedStart
<1>3. wire \in Seq(Words)
  BY DEF WalkInv, TypePart
<1>4. n \in 1..m \/ n = m + 1
  BY ONLY <1>1, n \in 1..(m + 1)
<1>5. CASE n \in 1..m
  <2>1. Start(n)' = Start(n) /\ Start(n + 1)' = Start(n + 1) /\ sent'[n] = sent[n]
    <3>1. n + 1 \in 1..(m + 1)
      BY ONLY <1>1, <1>5
    <3> QED BY ONLY <1>1, <1>2, <1>5, <3>1, n \in 1..(m + 1)
  <2>2. PlacedAt(sent[n].packet, Start(n), Start(n + 1), wire)
    BY <1>5 DEF WalkInv, WirePart, Placed
  <2>3. Len(wire) <= Len(wire')
    BY ONLY <1>1
  <2>4. PlacedAt(sent[n].packet, Start(n), Start(n + 1), wire')
    BY ONLY <1>1, <1>3, <2>2, <2>3, PlacedKept
  <2> QED BY ONLY <2>1, <2>4 DEF Placed
<1>6. CASE n = m + 1
  <2>1. Start(n)' = Len(wire) /\ Start(n + 1)' = Len(wire') /\ sent'[n].packet = packet
    <3>1. (m + 1) + 1 = m + 2
      BY ONLY <1>1
    <3>2. Start(n)' = Start(n)
      BY <1>2
    <3> QED BY ONLY <1>1, <1>2, <1>6, <3>1, <3>2
  <2>2. /\ draft \in Seq(Words) /\ draft[1].pt = TypeOf(packet)
        /\ Counted(packet) => draft[1].len + 1 = Len(draft)
        /\ packet.kind = "SR" => Len(draft) = 7 /\ \A j \in 1..6 : draft[1 + j] = SerializeSR(packet)[j + 1]
    BY DraftDone
  <2>3. PlacedAt(packet, Len(wire), Len(wire'), wire')
    BY ONLY <1>1, <1>3, <2>2, PlacedLast
  <2> QED BY ONLY <2>1, <2>3 DEF Placed
<1> QED BY <1>4, <1>5, <1>6

(* Steps that leave the datagram alone. *)
LEMMA WireKept ==
  ASSUME WirePart, UNCHANGED <<wire, rest, sent>>, pc' = "blocks" => wire = <<>> \/ sent # <<>>
  PROVE  WirePart'
<1>1. wire' = wire /\ rest' = rest /\ sent' = sent
  OBVIOUS
<1>2. \A n : Start(n)' = Start(n)
  BY ONLY <1>1 DEF Start
<1>3. \A n : Placed(n)' = Placed(n)
  BY ONLY <1>1, <1>2, Zenon DEF Placed
<1>4. Start(1)' = Start(1)
  BY <1>2
<1>5. \A n \in 1..Len(sent') : Placed(n)'
  BY ONLY <1>1, <1>3, WirePart, Zenon DEF WirePart
<1> QED BY <1>1, <1>4, <1>5 DEF WirePart

(* A datagram of another origin is no packet of this program. *)
LEMMA ArriveWire ==
  ASSUME WalkInv, Arrive
  PROVE  wire' \in Seq(Words) /\ sent' = <<>> /\ WirePart'
<1>1. /\ wire = <<>> /\ wire' \in Foreign /\ rest' \in 0..3 /\ sent' = sent /\ pc' = "compose"
      /\ sent \in Seq(Entry)
  BY DEF Arrive, WalkInv, TypePart
<1>2. wire' \in Seq(Word) /\ wire' # <<>>
  BY <1>1, PacketsAssumption
<1>3. wire' \in Seq(Words)
  BY ONLY <1>2, WordIsWords, SeqMonotonic
<1>4. sent = <<>>
  <2>1. ASSUME sent # <<>> PROVE FALSE
    <3>1. 1 \in 1..Len(sent)
      BY ONLY <1>1, <2>1
    <3>2. PlacedAt(sent[1].packet, Start(1), Start(1 + 1), wire)
      BY <3>1 DEF WalkInv, WirePart, Placed
    <3>3. Len(wire) = 0
      BY <1>1
    <3> QED BY ONLY <3>2, <3>3 DEF PlacedAt
  <2> QED BY <2>1
<1>5. sent' = <<>> /\ Len(sent') = 0
  BY <1>1, <1>4
<1>6. 1..0 = {}
  OBVIOUS
<1>7. \A n \in 1..Len(sent') : Placed(n)'
  BY ONLY <1>5, <1>6
<1> QED BY ONLY <1>1, <1>2, <1>3, <1>5, <1>7 DEF WirePart

(* The words of the datagram when Serialize has returned. *)
LEMMA SerializedWirePart ==
  ASSUME WalkInv, Serialized
  PROVE  WirePart'
<1>1. Len(sent) \in Nat /\ Len(sent') = Len(sent) + 1 /\ sent' \in Seq(Entry)
  BY SerializedWire
<1>2. PICK m \in Nat : m = Len(sent)
  BY <1>1
<1>3. \A n \in 1..(m + 1) : Placed(n)'
  BY ONLY WalkInv, Serialized, <1>2, SerializedPlaced
<1>4. pc' = "compose" /\ rest' = rest /\ (wire = <<>> \/ sent # <<>>)
  BY DEF Serialized, WalkInv, WirePart
<1>5. rest = 0 /\ Start(1) = 0
  BY <1>4 DEF WalkInv, WirePart
<1>6. Start(1)' = 0
  <2>1. 1 \in 1..(m + 1)
    BY ONLY <1>2
  <2>2. \A n \in 1..(m + 1) : Start(n)' = Start(n)
    BY ONLY WalkInv, Serialized, <1>2, SerializedStart
  <2> QED BY ONLY <1>5, <2>1, <2>2
<1>7. \A n \in 1..Len(sent') : Placed(n)'
  BY ONLY <1>1, <1>2, <1>3
<1> QED BY ONLY <1>4, <1>5, <1>6, <1>7 DEF WirePart

-----------------------------------------------------------------------------
(* Parse reads and makes what it should.                                   *)

(* Whatever Parse reads is a word. *)
LEMMA AtWords ==
  ASSUME WalkInv, NEW k \in Nat \ {0}
  PROVE  At(k) \in Words
<1>1. wire \in Seq(Words) /\ Residue \in Words
  BY PacketsAssumption, WordIsWords DEF WalkInv, TypePart
<1>2. ASSUME k <= Len(wire) PROVE wire[k] \in Words
  <2>1. k \in 1..Len(wire)
    BY ONLY <1>1, <1>2, k \in Nat \ {0}
  <2> QED BY ONLY <1>1, <2>1, SequenceFacts
<1> QED BY ONLY <1>1, <1>2, Zenon DEF At

(* A header, and the bytes it makes Parse advance by. *)
LEMMA HeaderRead ==
  ASSUME WalkInv
  PROVE  /\ data \div 4 + 1 \in Nat \ {0} /\ HeaderWord = At(data \div 4 + 1) /\ HeaderWord \in Words
         /\ PacketLen = 4 + HeaderWord.len * 4 /\ PacketLen \in Nat /\ PacketLen >= 4
<1>1. data \in Nat
  BY DEF WalkInv, TypePart
<1> DEFINE k == data \div 4 + 1
<1>2. k \in Nat \ {0}
  BY ONLY <1>1
<1>3. HeaderWord = At(k)
  BY DEF HeaderWord
<1> HIDE DEF k
<1>4. HeaderWord \in Words
  BY <1>2, <1>3, AtWords
<1>5. PacketLen = 4 + HeaderWord.len * 4
  BY DEF PacketLen, RTCPCommonHeaderSize
<1>6. HeaderWord.len \in Nat
  BY ONLY <1>4 DEF Words
<1>7. PacketLen \in Nat /\ PacketLen >= 4
  BY ONLY <1>5, <1>6
<1> QED BY <1>2, <1>3, <1>4, <1>5, <1>7 DEF k

(* Zeroes or the words of the buffer: the fields of a sender report. *)
LEMMA FieldsRead ==
  ASSUME WalkInv, NEW k \in Nat \ {0}
  PROVE  SenderReportAt(k) \in [1..6 -> Words]
<1>1. Zero \in Words
  BY PacketsAssumption DEF Words
<1>2. ASSUME NEW j \in 1..6 PROVE At(k + j) \in Words
  <2>1. k + j \in Nat \ {0}
    OBVIOUS
  <2> QED BY <2>1, AtWords
<1>3. [j \in 1..6 |-> At(k + j)] \in [1..6 -> Words]
  BY ONLY <1>2
<1>4. [j \in 1..6 |-> Zero] \in [1..6 -> Words]
  BY ONLY <1>1
<1> QED BY ONLY <1>3, <1>4, Zenon DEF SenderReportAt

(* The packet Parse makes. *)
LEMMA ParsedReport ==
  ASSUME WalkInv
  PROVE  /\ Parsed \in Report /\ Parsed.nth = cnt + 1
         /\ HeaderWord.pt = SenderReport =>
              Parsed.kind = "SR" /\ Parsed.fields = SenderReportAt(data \div 4 + 1)
         /\ HeaderWord.pt # SenderReport => Parsed.kind = "RR"
<1>1. cnt + 1 \in Nat
  BY DEF WalkInv, TypePart
<1> DEFINE f == SenderReportAt(data \div 4 + 1)
           n == cnt + 1
<1>2. f \in [1..6 -> Words]
  BY HeaderRead, FieldsRead
<1>3. Parsed = IF HeaderWord.pt = SenderReport THEN [kind |-> "SR", nth |-> n, fields |-> f]
                                               ELSE [kind |-> "RR", nth |-> n]
  BY DEF Parsed
<1> HIDE DEF f, n
<1>4. CASE HeaderWord.pt = SenderReport
  <2>1. Parsed = [kind |-> "SR", nth |-> n, fields |-> f]
    BY <1>3, <1>4
  <2>2. [kind |-> "SR", nth |-> n, fields |-> f] \in Report
    BY ONLY <1>1, <1>2 DEF Report, n
  <2> QED BY ONLY <1>4, <2>1, <2>2 DEF f, n
<1>5. CASE HeaderWord.pt # SenderReport
  <2>1. Parsed = [kind |-> "RR", nth |-> n]
    BY <1>3, <1>5
  <2>2. [kind |-> "RR", nth |-> n] \in Report
    BY ONLY <1>1 DEF Report, n
  <2> QED BY ONLY <1>5, <2>1, <2>2 DEF n
<1> QED BY <1>4, <1>5

(* The packet type tells the kind. *)
LEMMA TypeTellsKind ==
  ASSUME NEW p \in Packets
  PROVE  /\ TypeOf(p) \in {SenderReport, ReceiverReport} <=> p.kind # "FB"
         /\ TypeOf(p) = SenderReport <=> p.kind = "SR"
         /\ TypeOf(p) % 128 \in 64..95
<1>1. p.kind \in {"SR", "RR", "FB"}
  BY Kinds
<1>2. CASE p.kind = "SR"
  BY <1>2 DEF TypeOf, SenderReport
<1>3. CASE p.kind = "RR"
  BY <1>3 DEF TypeOf, SenderReport, ReceiverReport
<1>4. CASE p.kind = "FB"
  BY <1>4 DEF TypeOf, SenderReport, ReceiverReport, RTPFeedback
<1> QED BY <1>1, <1>2, <1>3, <1>4

(* In a datagram of this program's packets that say their lengths, Parse reads
   the header of the packet it stands at, advances to the next one, and finds
   the words of a sender report. *)
LEMMA StandsAt ==
  ASSUME WalkInv, pc = "walk", AllCounted, More, NEW c \in Nat, c = cnt + 1
  PROVE  /\ c \in 1..Len(sent) /\ sent[c].packet \in Packets
         /\ HeaderWord.pt = TypeOf(sent[c].packet)
         /\ data + PacketLen = 4 * Start(c + 1)
         /\ sent[c].packet.kind = "SR" =>
              \A j \in 1..6 : SenderReportAt(data \div 4 + 1)[j] = SerializeSR(sent[c].packet)[j + 1]
<1> DEFINE s == Start(c)
           e == Start(c + 1)
           p == sent[c].packet
<1>1. /\ wire \in Seq(Words) /\ sent \in Seq(Entry) /\ cnt \in Nat /\ data \in Nat /\ len \in Int
      /\ data + len = Size /\ data = 4 * Start(cnt + 1) /\ cnt <= Len(sent)
  BY DEF WalkInv, TypePart, ParsePart, InStep
<1>2. data = 4 * s
  BY <1>1
<1>3. rest = 0 /\ Size = 4 * Len(wire)
  <2>1. rest = 0
    BY DEF AllCounted, WalkInv, WirePart
  <2>2. Len(wire) \in Nat
    BY <1>1
  <2> QED BY <2>1, <2>2 DEF Size
<1>4. len >= 4
  BY DEF More
<1>5. Len(wire) \in Nat /\ Len(sent) \in Nat
  BY <1>1
<1>6. c <= Len(sent)
  <2>1. ASSUME ~(c <= Len(sent)) PROVE FALSE
    <3>1. s = Len(wire)
      BY ONLY <2>1 DEF Start
    <3> HIDE DEF s
    <3> QED BY ONLY <1>1, <1>2, <1>3, <1>4, <1>5, <3>1
  <2> QED BY <2>1
<1>7. c \in 1..Len(sent)
  BY ONLY <1>1, <1>5, <1>6, c = cnt + 1
<1>8. p \in Packets /\ Counted(p)
  <2>1. sent[c] \in Entry
    BY ONLY <1>1, <1>7, SequenceFacts
  <2>2. p \in Packets
    BY ONLY <2>1 DEF Entry
  <2> QED BY <1>7, <2>2 DEF AllCounted
<1>9. PlacedAt(p, s, e, wire)
  BY <1>7 DEF WalkInv, WirePart, Placed
<1> HIDE DEF s, e, p
<1>10. /\ s \in Nat /\ e \in Nat /\ s < e /\ e <= Len(wire)
       /\ wire[s + 1].pt = TypeOf(p)
       /\ wire[s + 1].len + 1 = e - s
       /\ p.kind = "SR" => e - s = 7 /\ \A j \in 1..6 : wire[(s + 1) + j] = SerializeSR(p)[j + 1]
  BY ONLY <1>8, <1>9 DEF PlacedAt
<1>11. data \div 4 + 1 = s + 1
  BY ONLY <1>2, <1>10
<1>12. /\ HeaderWord = At(data \div 4 + 1) /\ PacketLen = 4 + HeaderWord.len * 4 /\ HeaderWord \in Words
  BY HeaderRead
<1>13. HeaderWord = wire[s + 1]
  <2>1. s + 1 <= Len(wire)
    BY ONLY <1>5, <1>10
  <2>2. At(s + 1) = wire[s + 1]
    BY ONLY <2>1 DEF At
  <2> QED BY ONLY <1>11, <1>12, <2>2, Zenon
<1>14. HeaderWord.pt = TypeOf(p) /\ HeaderWord.len + 1 = e - s
  BY ONLY <1>10, <1>13, Zenon
<1>15. HeaderWord.len \in Nat
  BY ONLY <1>12 DEF Words
<1>16. data + PacketLen = 4 * e
  <2> DEFINE l == HeaderWord.len
  <2>1. s \in Nat /\ e \in Nat /\ l \in Nat /\ l + 1 = e - s
    BY ONLY <1>10, <1>14, <1>15
  <2>2. data = 4 * s /\ PacketLen = 4 + l * 4
    BY ONLY <1>2, <1>12
  <2> HIDE DEF l
  <2> QED BY ONLY <2>1, <2>2
<1>17. ASSUME p.kind = "SR", NEW j \in 1..6
       PROVE  SenderReportAt(data \div 4 + 1)[j] = SerializeSR(p)[j + 1]
  <2>1. e - s = 7 /\ wire[(s + 1) + j] = SerializeSR(p)[j + 1]
    BY ONLY <1>10, <1>17
  <2>2. HeaderWord.len = 6
    BY ONLY <1>14, <1>15, <2>1
  <2>3. ~(PacketLen < ParseHeader(HeaderWord).length)
    <3>1. ParseHeader(HeaderWord).length = ((HeaderWord.len + 1) * 4) % 65536
      BY DEF ParseHeader
    <3>2. PacketLen = 28 /\ ((6 + 1) * 4) % 65536 = 28
      BY <1>12, <2>2
    <3> QED BY <2>2, <3>1, <3>2
  <2>4. SenderReportAt(s + 1) = [l \in 1..6 |-> At((s + 1) + l)]
    BY ONLY <2>3 DEF SenderReportAt
  <2>5. (s + 1) + j <= Len(wire)
    BY ONLY <1>5, <1>10, <1>17, <2>1
  <2>6. At((s + 1) + j) = wire[(s + 1) + j]
    BY ONLY <2>5 DEF At
  <2>7. SenderReportAt(s + 1)[j] = At((s + 1) + j)
    BY ONLY <2>4, j \in 1..6
  <2> QED BY ONLY <1>11, <2>1, <2>6, <2>7, Zenon
<1> QED BY <1>7, <1>8, <1>14, <1>16, <1>17 DEF e, p

(* A report stays what it is when Parse makes another. *)
LEMMA ReportKept ==
  ASSUME NEW out, NEW more, NEW k \in Nat \ {0}, NEW c \in Nat, NEW ps, ReportOf(out, k, c, ps),
         \A l \in 1..k : more[l] = out[l]
  PROVE  ReportOf(more, k, c + 1, ps)
<1>1. k \in 1..k /\ \A l \in 1..(k - 1) : l \in 1..k
  OBVIOUS
<1>2. more[k] = out[k] /\ \A l \in 1..(k - 1) : more[l] = out[l]
  BY ONLY <1>1, \A l \in 1..k : more[l] = out[l]
<1>3. out[k].nth \in 1..c => out[k].nth \in 1..(c + 1)
  OBVIOUS
<1> QED BY ONLY ReportOf(out, k, c, ps), <1>2, <1>3, Zenon DEF ReportOf

(* The report Parse appends, from the packet behind those it has been through. *)
LEMMA ReportAppended ==
  ASSUME NEW out \in Seq(Report), NEW r \in Report, NEW c \in Nat, NEW ps,
         \A k \in 1..Len(out) : ReportOf(out, k, c, ps),
         r.nth = c + 1, r.kind = ps[c + 1].packet.kind,
         r.kind = "SR" => \A j \in 1..6 : r.fields[j] = SerializeSR(ps[c + 1].packet)[j + 1]
  PROVE  \A k \in 1..Len(Append(out, r)) : ReportOf(Append(out, r), k, c + 1, ps)
<1> DEFINE m == Len(out)
           more == Append(out, r)
<1>1. /\ m \in Nat /\ Len(more) = m + 1 /\ more[m + 1] = r /\ \A l \in 1..m : more[l] = out[l]
  OBVIOUS
<1>2. \A l \in 1..m : out[l].nth \in 1..c
  BY DEF ReportOf
<1>3. \A k \in 1..m : ReportOf(out, k, c, ps)
  OBVIOUS
<1> HIDE DEF m, more
<1>4. ASSUME NEW k \in 1..m PROVE ReportOf(more, k, c + 1, ps)
  <2>1. k \in Nat \ {0} /\ \A l \in 1..k : l \in 1..m
    BY ONLY <1>1, <1>4
  <2>2. \A l \in 1..k : more[l] = out[l]
    BY ONLY <1>1, <2>1
  <2>3. ReportOf(out, k, c, ps)
    BY ONLY <1>3, <1>4
  <2> QED BY ONLY <2>1, <2>2, <2>3, c \in Nat, ReportKept
<1>5. ReportOf(more, m + 1, c + 1, ps)
  <2>1. (m + 1) - 1 = m /\ c + 1 \in 1..(c + 1)
    BY ONLY <1>1, c \in Nat
  <2>2. ASSUME NEW l \in 1..m PROVE more[l].nth < c + 1
    <3>1. more[l].nth \in 1..c
      BY ONLY <1>1, <1>2, <2>2
    <3> QED BY ONLY <3>1, c \in Nat
  <2>3. more[m + 1].nth = c + 1 /\ more[m + 1].kind = ps[c + 1].packet.kind
    BY <1>1
  <2>4. more[m + 1].kind = "SR" =>
          \A j \in 1..6 : more[m + 1].fields[j] = SerializeSR(ps[c + 1].packet)[j + 1]
    BY <1>1
  <2> QED BY ONLY <2>1, <2>2, <2>3, <2>4, Zenon DEF ReportOf
<1>6. \A k \in 1..(m + 1) : k \in 1..m \/ k = m + 1
  BY ONLY <1>1
<1>7. \A k \in 1..Len(more) : ReportOf(more, k, c + 1, ps)
  BY ONLY <1>1, <1>4, <1>5, <1>6, Zenon
<1> QED BY <1>7 DEF more

(* Parse keeps step. *)
LEMMA ParseInStep ==
  ASSUME WalkInv, ParsePacket, AllCounted
  PROVE  InStep'
<1>1. PICK c \in Nat : c = cnt + 1
  BY DEF WalkInv, TypePart
<1>2. /\ pc = "walk" /\ More /\ pc' = "walk" /\ cnt' = c /\ data' = data + PacketLen
      /\ wire' = wire /\ sent' = sent /\ cnt \in Nat /\ output \in Seq(Report)
  BY <1>1 DEF ParsePacket, WalkInv, TypePart
<1> DEFINE p == sent[c].packet
<1>3. /\ c \in 1..Len(sent) /\ p \in Packets
      /\ HeaderWord.pt = TypeOf(p)
      /\ data + PacketLen = 4 * Start(c + 1)
      /\ p.kind = "SR" =>
           \A j \in 1..6 : SenderReportAt(data \div 4 + 1)[j] = SerializeSR(p)[j + 1]
  BY <1>1, <1>2, StandsAt
<1>4. /\ \A n \in 1..cnt :
           sent[n].packet.kind # "FB" => \E k \in 1..Len(output) : output[k].nth = n
      /\ \A k \in 1..Len(output) : ReportOf(output, k, cnt, sent)
  BY <1>2 DEF WalkInv, ParsePart, InStep
<1>5. cnt' <= Len(sent') /\ data' = (4 * Start(cnt + 1))' /\ (pc' = "done" => cnt' = Len(sent'))
  <2>1. c <= Len(sent)
    <3>1. Len(sent) \in Nat
      BY DEF WalkInv, TypePart
    <3> QED BY ONLY <1>3, <3>1
  <2>2. (4 * Start(cnt + 1))' = 4 * Start(c + 1)
    BY ONLY <1>2 DEF Start
  <2> QED BY ONLY <1>2, <1>3, <2>1, <2>2
<1>6. \A n \in 1..c : n \in 1..cnt \/ n = c
  BY ONLY <1>1, <1>2
<1>7. /\ (TypeOf(p) \in {SenderReport, ReceiverReport} <=> p.kind # "FB")
      /\ (TypeOf(p) = SenderReport <=> p.kind = "SR")
  BY ONLY <1>3, TypeTellsKind
<1>8. Len(output) \in Nat
  BY <1>2
<1>9. CASE p.kind = "FB"
  <2>1. output' = output
    BY <1>3, <1>7, <1>9 DEF ParsePacket
  <2>2. \A n \in 1..cnt' :
          sent'[n].packet.kind # "FB" => \E k \in 1..Len(output') : output'[k].nth = n
    <3>1. \A n \in 1..c :
            sent[n].packet.kind # "FB" => \E k \in 1..Len(output) : output[k].nth = n
      BY ONLY <1>4, <1>6, <1>9, Zenon
    <3> QED BY ONLY <1>2, <2>1, <3>1
  <2>3. ASSUME NEW k \in 1..Len(output) PROVE ReportOf(output, k, cnt + 1, sent)
    <3>1. k \in Nat \ {0} /\ ReportOf(output, k, cnt, sent)
      BY ONLY <1>4, <1>8, <2>3
    <3> QED BY ONLY <1>2, <3>1, ReportKept
  <2>4. \A k \in 1..Len(output') : ReportOf(output', k, cnt', sent')
    BY ONLY <1>1, <1>2, <2>1, <2>3
  <2> QED BY ONLY <1>5, <2>2, <2>4 DEF InStep
<1>10. CASE p.kind # "FB"
  <2>1. output' = Append(output, Parsed)
    BY <1>3, <1>7, <1>10 DEF ParsePacket
  <2>2. /\ Parsed \in Report /\ Parsed.nth = cnt + 1
        /\ HeaderWord.pt = SenderReport =>
             Parsed.kind = "SR" /\ Parsed.fields = SenderReportAt(data \div 4 + 1)
        /\ HeaderWord.pt # SenderReport => Parsed.kind = "RR"
    BY ParsedReport
  <2>3. Parsed.kind = p.kind
    <3>1. p.kind \in {"SR", "RR", "FB"}
      BY <1>3, Kinds
    <3> QED BY ONLY <1>3, <1>7, <1>10, <2>2, <3>1
  <2>4. Parsed.kind = "SR" => \A j \in 1..6 : Parsed.fields[j] = SerializeSR(p)[j + 1]
    <3> SUFFICES ASSUME Parsed.kind = "SR"
                 PROVE  \A j \in 1..6 : Parsed.fields[j] = SerializeSR(p)[j + 1]
      OBVIOUS
    <3>1. p.kind = "SR"
      BY <2>3
    <3>2. HeaderWord.pt = SenderReport
      BY ONLY <1>3, <1>7, <3>1
    <3>3. Parsed.fields = SenderReportAt(data \div 4 + 1)
      BY ONLY <2>2, <3>2
    <3> HIDE DEF p
    <3> QED BY ONLY <1>3, <3>1, <3>3, Zenon
  <2>5. /\ Parsed.kind = sent[cnt + 1].packet.kind
        /\ Parsed.kind = "SR" => \A j \in 1..6 : Parsed.fields[j] = SerializeSR(sent[cnt + 1].packet)[j + 1]
    BY ONLY <1>1, <2>3, <2>4, Zenon
  <2>6. \A k \in 1..Len(Append(output, Parsed)) : ReportOf(Append(output, Parsed), k, cnt + 1, sent)
    BY ONLY <1>2, <1>4, <2>2, <2>5, ReportAppended
  <2>7. \A k \in 1..Len(output') : ReportOf(output', k, cnt', sent')
    BY ONLY <1>1, <1>2, <2>1, <2>6, Zenon
  <2>8. \A n \in 1..cnt' :
          sent'[n].packet.kind # "FB" => \E k \in 1..Len(output') : output'[k].nth = n
    <3>1. /\ Len(output') = Len(output) + 1 /\ output'[Len(output) + 1] = Parsed
          /\ \A k \in 1..Len(output) : output'[k] = output[k] /\ k \in 1..Len(output')
          /\ Len(output) + 1 \in 1..Len(output')
      BY ONLY <1>2, <1>8, <2>1, <2>2
    <3>2. output'[Len(output) + 1].nth = c
      BY ONLY <1>1, <2>2, <3>1
    <3> QED BY ONLY <1>2, <1>4, <1>6, <3>1, <3>2, Zenon
  <2> QED BY ONLY <1>5, <2>7, <2>8 DEF InStep
<1> QED BY <1>9, <1>10

(* A datagram of this program's packets is taken for RTCP, so Parse is called. *)
LEMMA OwnIsRTCP ==
  ASSUME WalkInv, sent # <<>>
  PROVE  IsRTCP
<1>1. wire \in Seq(Words) /\ sent \in Seq(Entry) /\ rest \in 0..3
  BY DEF WalkInv, TypePart
<1>2. 1 \in 1..Len(sent)
  BY ONLY <1>1, sent # <<>>
<1>3. Start(1) = 0 /\ PlacedAt(sent[1].packet, Start(1), Start(1 + 1), wire)
  BY <1>2 DEF WalkInv, WirePart, Placed
<1>4. /\ Start(1) < Start(1 + 1) /\ Start(1 + 1) <= Len(wire) /\ Start(1 + 1) \in Nat
      /\ wire[Start(1) + 1].pt = TypeOf(sent[1].packet)
  BY ONLY <1>3 DEF PlacedAt
<1>5. Start(1) + 1 = 1
  BY ONLY <1>3
<1>6. wire[1].pt = TypeOf(sent[1].packet)
  BY ONLY <1>4, <1>5, Zenon
<1>7. Len(wire) \in Nat /\ Len(wire) >= 1
  BY ONLY <1>1, <1>3, <1>4
<1>8. Size >= 4
  BY ONLY <1>1, <1>7 DEF Size
<1>9. sent[1].packet \in Packets
  <2>1. sent[1] \in Entry
    BY ONLY <1>1, <1>2, SequenceFacts
  <2> QED BY ONLY <2>1 DEF Entry
<1>10. TypeOf(sent[1].packet) % 128 \in 64..95
  BY ONLY <1>9, TypeTellsKind
<1>11. wire[1].pt % 128 \in 64..95
  BY ONLY <1>6, <1>10, Zenon
<1> QED BY ONLY <1>8, <1>11, Zenon DEF IsRTCP

(* OnSocketData hands a datagram over. *)
LEMMA ReceiveParse ==
  ASSUME WalkInv, Receive
  PROVE  ParsePart'
<1>1. /\ pc = "compose" /\ pc' \in {"walk", "done"} /\ (IsRTCP => pc' = "walk")
      /\ wire' = wire /\ rest' = rest /\ sent' = sent /\ len' = Size
      /\ data' = data /\ output' = output /\ cnt' = cnt
  BY DEF Receive
<1>2. data = 0 /\ output = <<>> /\ cnt = 0
  BY <1>1 DEF WalkInv, ParsePart
<1>3. data' + len' = Size'
  <2>1. Size' = Size
    BY ONLY <1>1 DEF Size
  <2>2. Size \in Int
    <3>1. Len(wire) \in Nat /\ rest \in Nat
      BY DEF WalkInv, TypePart
    <3> QED BY ONLY <3>1 DEF Size
  <2> QED BY ONLY <1>1, <1>2, <2>1, <2>2
<1>4. ASSUME AllCounted' PROVE InStep'
  <2>1. sent # <<>>
    BY <1>1, <1>4 DEF AllCounted
  <2>2. pc' = "walk"
    BY <1>1, <2>1, OwnIsRTCP
  <2>3. Start(1) = 0
    BY <2>1 DEF WalkInv, WirePart
  <2>4. Start(cnt + 1)' = Start(1)
    <3>1. cnt' + 1 = 1
      BY ONLY <1>1, <1>2
    <3> QED BY ONLY <1>1, <3>1 DEF Start
  <2>5. 0 <= Len(sent')
    <3>1. sent' \in Seq(Entry)
      BY <1>1 DEF WalkInv, TypePart
    <3> QED BY ONLY <3>1
  <2>6. cnt' = 0 /\ output' = <<>> /\ Len(output') = 0 /\ 1..0 = {}
    BY ONLY <1>1, <1>2
  <2>7. data' = (4 * Start(cnt + 1))'
    BY ONLY <1>1, <1>2, <2>3, <2>4
  <2> QED BY ONLY <2>2, <2>5, <2>6, <2>7 DEF InStep
<1> QED BY ONLY <1>1, <1>3, <1>4 DEF ParsePart

(* Parse returns when it is through. *)
LEMMA ReturnParse ==
  ASSUME WalkInv, Return
  PROVE  ParsePart'
<1>1. pc = "walk" /\ ~More /\ pc' = "done" /\ UNCHANGED <<wire, rest, sent, data, len, output, cnt>>
  BY DEF Return, parsing
<1>2. ASSUME AllCounted' PROVE InStep'
  <2>1. AllCounted /\ InStep
    BY <1>1, <1>2 DEF AllCounted, WalkInv, ParsePart
  <2>2. /\ wire \in Seq(Words) /\ sent \in Seq(Entry) /\ cnt \in Nat /\ data \in Nat /\ len \in Int
        /\ data + len = Size /\ data = 4 * Start(cnt + 1) /\ cnt <= Len(sent)
    BY <1>1, <2>1 DEF WalkInv, TypePart, ParsePart, InStep
  <2>3. Len(wire) \in Nat /\ Len(sent) \in Nat
    BY ONLY <2>2
  <2>4. Size = 4 * Len(wire)
    <3>1. rest = 0
      BY <2>1 DEF AllCounted, WalkInv, WirePart
    <3> QED BY ONLY <2>3, <3>1 DEF Size
  <2>5. ~(len >= 4)
    BY <1>1 DEF More
  <2>6. cnt = Len(sent)
    <3>1. ASSUME cnt # Len(sent) PROVE FALSE
      <4>1. PICK c \in Nat : c = cnt + 1
        BY <2>2
      <4>2. c \in 1..Len(sent)
        BY ONLY <2>2, <2>3, <3>1, <4>1
      <4>3. PlacedAt(sent[c].packet, Start(c), Start(c + 1), wire)
        BY <4>2 DEF WalkInv, WirePart, Placed
      <4>4. Start(c) \in Nat /\ Start(c) + 1 <= Len(wire)
        BY ONLY <2>3, <4>3 DEF PlacedAt
      <4>5. data = 4 * Start(c)
        BY ONLY <2>2, <4>1
      <4> QED BY ONLY <2>2, <2>3, <2>4, <2>5, <4>4, <4>5
    <3> QED BY <3>1
  <2> QED BY ONLY <1>1, <2>1, <2>6 DEF InStep, Start
<1> QED BY ONLY <1>1, <1>2 DEF ParsePart

(* Parse takes a packet. *)
LEMMA ParsePacketParse ==
  ASSUME WalkInv, ParsePacket
  PROVE  data' \in Nat /\ len' \in Int /\ cnt' \in Nat /\ output' \in Seq(Report) /\ ParsePart'
<1>1. /\ pc = "walk" /\ pc' = "walk" /\ wire' = wire /\ rest' = rest /\ sent' = sent
      /\ data' = data + PacketLen /\ len' = len - PacketLen /\ cnt' = cnt + 1
      /\ output' \in {output, Append(output, Parsed)}
  BY DEF ParsePacket
<1>2. PacketLen \in Nat /\ Parsed \in Report
  BY HeaderRead, ParsedReport
<1>3. data \in Nat /\ len \in Int /\ cnt \in Nat /\ output \in Seq(Report) /\ data + len = Size
  BY <1>1 DEF WalkInv, TypePart, ParsePart
<1>4. data' + len' = Size' /\ data' \in Nat /\ len' \in Int /\ cnt' \in Nat
  <2>1. Size' = Size
    BY ONLY <1>1 DEF Size
  <2> QED BY ONLY <1>1, <1>2, <1>3, <2>1
<1>5. output' \in Seq(Report)
  <2>1. Append(output, Parsed) \in Seq(Report)
    BY ONLY <1>2, <1>3
  <2> QED BY ONLY <1>1, <1>3, <2>1
<1>6. ASSUME AllCounted' PROVE InStep'
  <2>1. AllCounted
    BY ONLY <1>1, <1>6 DEF AllCounted
  <2> QED BY <2>1, ParseInStep
<1> QED BY ONLY <1>1, <1>4, <1>5, <1>6 DEF ParsePart

(* Every step preserves the invariant. *)
LEMMA WalkInvStep == WalkInv /\ [Next]_vars => WalkInv'
<1> SUFFICES ASSUME WalkInv, [Next]_vars PROVE WalkInv'
  OBVIOUS
<1>1. TypePart /\ DraftPart /\ WirePart /\ ParsePart
  BY DEF WalkInv
<1>2. CASE Arrive
  <2>1. wire' \in Seq(Words) /\ WirePart'
    BY <1>2, ArriveWire
  <2>2. TypePart'
    BY ONLY <1>1, <1>2, <2>1 DEF TypePart, Arrive, serializing, parsing
  <2>3. DraftPart'
    BY ONLY <1>1, <1>2, DraftKept DEF Arrive
  <2>4. ParsePart'
    BY ONLY <1>1, <1>2 DEF ParsePart, Arrive, parsing
  <2> QED BY <2>1, <2>2, <2>3, <2>4 DEF WalkInv
<1>3. ASSUME NEW p \in Packets, Compose(p) PROVE WalkInv'
  <2>1. draft' \in Seq(Words) /\ DraftPart'
    BY <1>3, ComposeDraft
  <2>2. TypePart'
    BY ONLY <1>1, <1>3, <2>1 DEF TypePart, Compose, parsing
  <2>3. WirePart'
    BY ONLY <1>1, <1>3, WireKept DEF Compose
  <2>4. ParsePart'
    BY ONLY <1>1, <1>3 DEF ParsePart, Compose, parsing
  <2> QED BY <2>1, <2>2, <2>3, <2>4 DEF WalkInv
<1>4. CASE SerializeBlock
  <2>1. draft' \in Seq(Words) /\ DraftPart'
    BY <1>4, BlockDraft
  <2>2. TypePart'
    BY ONLY <1>1, <1>4, <2>1 DEF TypePart, SerializeBlock, parsing
  <2>3. WirePart'
    <3>1. wire = <<>> \/ sent # <<>>
      BY ONLY <1>1, <1>4 DEF SerializeBlock, WirePart
    <3> QED BY ONLY <1>1, <1>4, <3>1, WireKept DEF SerializeBlock
  <2>4. ParsePart'
    BY ONLY <1>1, <1>4 DEF ParsePart, SerializeBlock, parsing
  <2> QED BY <2>1, <2>2, <2>3, <2>4 DEF WalkInv
<1>5. CASE Serialized
  <2>1. wire' \in Seq(Words) /\ sent' \in Seq(Entry)
    BY <1>5, SerializedWire
  <2>2. TypePart'
    BY ONLY <1>1, <1>5, <2>1 DEF TypePart, Serialized, parsing
  <2>3. DraftPart'
    BY ONLY <1>5 DEF DraftPart, Serialized
  <2>4. WirePart'
    BY <1>5, SerializedWirePart
  <2>5. ParsePart'
    BY ONLY <1>1, <1>5 DEF ParsePart, Serialized, parsing
  <2> QED BY <2>2, <2>3, <2>4, <2>5 DEF WalkInv
<1>6. CASE Receive
  <2>1. pc = "compose" /\ pc' \in {"walk", "done"}
    BY ONLY <1>6 DEF Receive
  <2>2. TypePart'
    <3>1. Len(wire) \in Nat /\ rest \in Nat
      BY ONLY <1>1 DEF TypePart
    <3>2. Size \in Int
      BY ONLY <3>1 DEF Size
    <3> QED BY ONLY <1>1, <1>6, <2>1, <3>2 DEF TypePart, Receive, serializing
  <2>3. DraftPart'
    BY ONLY <1>1, <1>6, <2>1, DraftKept DEF Receive
  <2>4. WirePart'
    BY ONLY <1>1, <1>6, <2>1, WireKept DEF Receive
  <2>5. ParsePart'
    BY <1>6, ReceiveParse
  <2> QED BY <2>2, <2>3, <2>4, <2>5 DEF WalkInv
<1>7. CASE ParsePacket
  <2>1. data' \in Nat /\ len' \in Int /\ cnt' \in Nat /\ output' \in Seq(Report) /\ ParsePart'
    BY <1>7, ParsePacketParse
  <2>2. TypePart'
    BY ONLY <1>1, <1>7, <2>1 DEF TypePart, ParsePacket, serializing
  <2>3. DraftPart'
    BY ONLY <1>1, <1>7, DraftKept DEF ParsePacket
  <2>4. WirePart'
    BY ONLY <1>1, <1>7, WireKept DEF ParsePacket
  <2> QED BY <2>1, <2>2, <2>3, <2>4 DEF WalkInv
<1>8. CASE Return
  <2>1. TypePart'
    BY ONLY <1>1, <1>8 DEF TypePart, Return, serializing, parsing
  <2>2. DraftPart'
    BY ONLY <1>1, <1>8, DraftKept DEF Return
  <2>3. WirePart'
    BY ONLY <1>1, <1>8, WireKept DEF Return
  <2>4. ParsePart'
    BY <1>8, ReturnParse
  <2> QED BY <2>1, <2>2, <2>3, <2>4 DEF WalkInv
<1>9. CASE UNCHANGED vars
  <2>1. TypePart'
    BY ONLY <1>1, <1>9 DEF TypePart, vars
  <2>2. DraftPart'
    BY ONLY <1>1, <1>9 DEF DraftPart, vars
  <2>3. WirePart'
    BY ONLY <1>1, <1>9, WireKept DEF vars, WirePart
  <2>4. ParsePart'
    BY ONLY <1>1, <1>9 DEF ParsePart, vars, InStep, Start, AllCounted, Size
  <2> QED BY <2>1, <2>2, <2>3, <2>4 DEF WalkInv
<1> QED BY <1>2, <1>3, <1>4, <1>5, <1>6, <1>7, <1>8, <1>9 DEF Next, Returned

-----------------------------------------------------------------------------
(* Theorems.                                                               *)

(* The invariant holds throughout: each packet lies in the datagram where its
   Serialize put it, and Parse, from wherever it stands, has read the packets
   before it and no others. *)
THEOREM WalkAlwaysInvariant == Spec => []WalkInv
<1>1. Init => WalkInv
  BY WalkInvInit
<1>2. WalkInv /\ [Next]_vars => WalkInv'
  BY WalkInvStep
<1> QED BY <1>1, <1>2, PTL DEF Spec

(* The Serialize of a report writes nothing behind what it allocated, for a
   receiver report of any number of blocks: the loop writes the first one only,
   since the buffer has room for one. *)
THEOREM SerializeStaysInBuffer == Spec => []WritesInBuffer
<1>1. WalkInv => WritesInBuffer
  <2> SUFFICES ASSUME WalkInv, pc = "blocks"
               PROVE  /\ packet.kind = "SR" => 4 * Len(draft) <= SenderReportBytes
                      /\ packet.kind = "RR" => 4 * Len(draft) <= ReceiverReportBytes
    BY DEF WritesInBuffer
  <2>1. /\ packet \in Packets /\ draft \in Seq(Words)
        /\ packet.kind = "SR" => draft = SerializeSR(packet)
        /\ packet.kind = "RR" => Len(draft) = IF i = 0 THEN 2 ELSE 8
    BY DEF WalkInv, TypePart, DraftPart
  <2>2. SenderReportBytes = 28 /\ ReceiverReportBytes = 32
    BY DEF SenderReportBytes, ReceiverReportBytes, RTCPCommonHeaderSize, SenderReportSize, ReceiverReportSize
  <2>3. ASSUME packet.kind = "SR" PROVE 4 * Len(draft) <= SenderReportBytes
    <3>1. Len(draft) = 7
      BY ONLY <2>1, <2>3, SenderReportWords
    <3> QED BY ONLY <3>1, <2>2
  <2>4. ASSUME packet.kind = "RR" PROVE 4 * Len(draft) <= ReceiverReportBytes
    <3>1. Len(draft) = 2 \/ Len(draft) = 8
      BY ONLY <2>1, <2>4, Zenon
    <3>2. 4 * 2 <= 32 /\ 4 * 8 <= 32
      OBVIOUS
    <3> QED BY ONLY <3>1, <3>2, <2>2, Zenon
  <2> QED BY <2>3, <2>4
<1> QED BY <1>1, WalkAlwaysInvariant, PTL

(* Parse reads no header behind the datagram, whatever lengths the headers
   before it claim. *)
THEOREM ParseStaysInDatagram == Spec => HeadersInDatagram
<1> DEFINE A == cnt' # cnt => data + RTCPCommonHeaderSize <= Size /\ data' + len' = Size
<1>1. WalkInv /\ [Next]_vars => [A]_vars
  <2> SUFFICES ASSUME WalkInv, Next, cnt' # cnt
               PROVE  data + RTCPCommonHeaderSize <= Size /\ data' + len' = Size
    OBVIOUS
  <2>1. ParsePacket
    BY DEF Next, Arrive, Compose, SerializeBlock, Serialized, Receive, Return, Returned, parsing, vars
  <2>2. pc = "walk" /\ len >= 4 /\ data' = data + PacketLen /\ len' = len - PacketLen
    BY ONLY <2>1 DEF ParsePacket, More
  <2>3. data \in Nat /\ len \in Int /\ data + len = Size
    BY <2>2 DEF WalkInv, TypePart, ParsePart
  <2>4. PacketLen \in Nat
    BY HeaderRead
  <2> QED BY ONLY <2>2, <2>3, <2>4 DEF RTCPCommonHeaderSize
<1> QED BY <1>1, WalkAlwaysInvariant, PTL DEF Spec, HeadersInDatagram

(* From a datagram of any number of this program's packets Parse recovers the
   reports, their order and their words, whatever those words look like. *)
THEOREM ParseRecoversCompound == Spec => []CompoundRecovered
<1>1. WalkInv => CompoundRecovered
  <2> SUFFICES ASSUME WalkInv, AllRead PROVE CompoundRecovered
    BY DEF CompoundRecovered
  <2>1. /\ cnt = Len(sent)
        /\ \A n \in 1..cnt :
             sent[n].packet.kind # "FB" => \E k \in 1..Len(output) : output[k].nth = n
        /\ \A k \in 1..Len(output) : ReportOf(output, k, cnt, sent)
    BY DEF WalkInv, ParsePart, InStep, AllRead
  <2> QED BY ONLY <2>1, Zenon DEF CompoundRecovered, ReportOf
<1> QED BY <1>1, WalkAlwaysInvariant, PTL

(* The time of a sender report survives the way through SetTimestamp, Serialize,
   the datagram, Parse and GetTimestamp, for every scale of the times in which
   the fraction is finer than an eighth of a microsecond.  The rounding it rests
   on is that of the code for reports from EarliestTime on, which all are. *)
THEOREM ReportTimesSurvive == Spec => []TimestampInverts
<1>1. WalkInv => TimestampInverts
  <2> SUFFICES ASSUME WalkInv, AllRead, NEW k \in 1..Len(output), output[k].kind = "SR",
                      Seconds(sent[output[k].nth].packet.time) + EpochOffset < NtpValues
               PROVE  GetTimestamp([ntpSec |-> NumberOf(output[k].fields[2]),
                                    ntpFrac |-> NumberOf(output[k].fields[3])])
                        = sent[output[k].nth].packet.time
    BY DEF TimestampInverts
  <2> DEFINE nth == output[k].nth
             p == sent[nth].packet
             time == p.time
  <2>1. cnt = Len(sent) /\ ReportOf(output, k, cnt, sent)
    BY DEF WalkInv, ParsePart, InStep, AllRead
  <2>2. /\ nth \in 1..Len(sent) /\ p.kind = "SR"
        /\ \A j \in 1..6 : output[k].fields[j] = SerializeSR(p)[j + 1]
    BY ONLY <2>1, output[k].kind = "SR" DEF ReportOf
  <2>3. p \in Packets
    <3>1. sent \in Seq(Entry)
      BY DEF WalkInv, TypePart
    <3>2. sent[nth] \in Entry
      BY ONLY <2>2, <3>1, SequenceFacts
    <3> QED BY ONLY <3>2 DEF Entry
  <2>4. time \in Nat
    BY ONLY <2>2, <2>3, Kinds
  <2>5. Seconds(time) + EpochOffset < NtpValues
    OBVIOUS
  <2> HIDE DEF nth, p
  <2>6. output[k].fields[2] = WordOf(NtpSeconds(time)) /\ output[k].fields[3] = WordOf(Fraction(time))
    <3>1. 2 \in 1..6 /\ 3 \in 1..6 /\ 2 + 1 = 3 /\ 3 + 1 = 4
      OBVIOUS
    <3>2. output[k].fields[2] = SerializeSR(p)[3] /\ output[k].fields[3] = SerializeSR(p)[4]
      BY ONLY <2>2, <3>1
    <3>3. SerializeSR(p)[3] = WordOf(NtpSeconds(p.time)) /\ SerializeSR(p)[4] = WordOf(Fraction(p.time))
      BY ONLY <2>2, <2>3, SenderReportWords
    <3> QED BY ONLY <3>2, <3>3
  <2> HIDE DEF time
  <2>7. NtpSeconds(time) \in Nat /\ Fraction(time) \in Nat
    BY ONLY <2>4, TimeFields
  <2>8. NumberOf(WordOf(NtpSeconds(time))) = NtpSeconds(time) /\ NumberOf(WordOf(Fraction(time))) = Fraction(time)
    BY ONLY <2>7, NumberInverts
  <2>9. GetTimestamp(SetTimestamp(time)) = time
    BY ONLY <2>4, <2>5, TimeInverts
  <2>10. [ntpSec |-> NumberOf(output[k].fields[2]), ntpFrac |-> NumberOf(output[k].fields[3])] = SetTimestamp(time)
    BY ONLY <2>6, <2>8 DEF SetTimestamp
  <2>11. GetTimestamp([ntpSec |-> NumberOf(output[k].fields[2]), ntpFrac |-> NumberOf(output[k].fields[3])]) = time
    BY ONLY <2>9, <2>10, Zenon
  <2> QED BY <2>11 DEF time, p, nth
<1> QED BY <1>1, WalkAlwaysInvariant, PTL

=============================================================================
