-------------------------------- MODULE Rtcp --------------------------------
(***************************************************************************)
(* RTCP: the packets' Serialize methods, the compound datagram that        *)
(* RTCPPacket::Parse walks over, and the packets' own Parse methods.       *)
(*                                                                         *)
(* A datagram is taken in words of four bytes, each of which Parse may     *)
(* come to read as a common header: a first byte, a packet type and a      *)
(* length.  Composing several packets into a datagram is the peer's part;  *)
(* the peer is taken to write them as this program does.                   *)
(***************************************************************************)
EXTENDS Sequences, ReportTimes

CONSTANTS
  Packets,    \* packets that are composed; see Packet
  Foreign,    \* the words of other datagrams that arrive
  Zero,       \* the word 0
  Residue,    \* what the receive buffer holds behind the datagram
  MaxPackets  \* bound on the packets of a datagram

RTCPCommonHeaderSize == 4
SenderReportSize == 24
ReceiverReportSize == 24
SenderReport == 200
ReceiverReport == 201
RTPFeedback == 205
NACK == 1
TransportWideFeedbackMessage == 15

Word == [b0 : 0..255, pt : 0..255, len : 0..65535]

(* A 32-bit number as a word, and back. *)
WordOf(n) ==
  [b0 |-> (n \div 65536) \div 256, pt |-> (n \div 65536) % 256, len |-> n % 65536]
NumberOf(w) == (w.b0 * 256 + w.pt) * 65536 + w.len

(* What a feedback packet's buffer leaves for its field. *)
FeedbackBytes == 1200
FieldBytes == FeedbackBytes - RTCPCommonHeaderSize - 8

(* SR: an SSRC, the time the report was made at, the words of its RTP time and
   its counters, and how many reports it holds.
   RR: an SSRC and report blocks of six words each.
   FB: the SSRC of the media source, and a field: its type and its words, two
   of a NACK and of a transport-wide feedback what the buffer has room for.
   Serialize does not check that it is no more; how many packets a feedback may
   report until it is, says TransportCC. *)
Packet(p) ==
  \/ p.kind = "SR" /\ p.ssrc \in Word /\ p.time \in Nat /\ p.time >= EarliestTime
     /\ p.counters \in [1..3 -> Word] /\ p.reports \in Nat
  \/ p.kind = "RR" /\ p.ssrc \in Word /\ p.reports \in Seq([1..6 -> Word])
  \/ p.kind = "FB" /\ p.ssrc \in Word /\ p.field.words \in Seq(Word)
     /\ \/ p.field.type = NACK /\ Len(p.field.words) = 2
        \/ p.field.type = TransportWideFeedbackMessage /\ 4 * Len(p.field.words) <= FieldBytes

ASSUME PacketsAssumption ==
  /\ \A p \in Packets : Packet(p)
  /\ Foreign \subseteq Seq(Word) \ {<<>>}
  /\ Zero = [b0 |-> 0, pt |-> 0, len |-> 0] /\ Residue \in Word

VARIABLES
  wire,    \* the words of the datagram
  rest,    \* bytes behind its last word
  sent,    \* history: the packets it was composed of, each with the words before
           \* it; <<>> for a foreign one
  pc,      \* "compose", "blocks", "walk", "done"
  packet,  \* the packet Serialize is called for, <<>> for none
  draft,   \* the words it has written
  i,       \* the report blocks it has been through
  data,    \* Parse's position
  len,     \* bytes Parse has left; signed
  output,  \* the packets Parse made
  cnt      \* what Parse returns

vars == <<wire, rest, sent, pc, packet, draft, i, data, len, output, cnt>>
serializing == <<packet, draft, i>>
parsing == <<data, len, output, cnt>>

-----------------------------------------------------------------------------
(* RTCPCommonHeader.                                                       *)

Header(count, packetType, length) ==
  [version |-> 2, padding |-> FALSE, count |-> count, packetType |-> packetType, length |-> length]

(* Serialize: the length, in bytes, is written in words less one. *)
SerializeHeader(h) ==
  [b0 |-> (IF h.padding THEN 160 ELSE 128) + (h.count % 32),
   pt |-> h.packetType,
   len |-> (h.length \div 4 - 1) % 65536]

ParseHeader(w) ==
  [version |-> w.b0 \div 64,
   padding |-> (w.b0 \div 16) % 2 = 1,
   count |-> w.b0 % 32,
   packetType |-> w.pt,
   length |-> ((w.len + 1) * 4) % 65536]

-----------------------------------------------------------------------------
(* The packets' Serialize methods, and the bytes the reports' allocate.     *)

SenderReportBytes == RTCPCommonHeaderSize + SenderReportSize

SerializeSR(p) ==
  LET ntp == SetTimestamp(p.time)
  IN  <<SerializeHeader(Header(p.reports, SenderReport, SenderReportBytes)),
        p.ssrc, WordOf(ntp.ntpSec), WordOf(ntp.ntpFrac),
        p.counters[1], p.counters[2], p.counters[3]>>

ReceiverReportBytes == RTCPCommonHeaderSize + 4 + ReceiverReportSize

(* RTCPReceiverReportBlock::Serialize, which writes nothing when less than a
   block is left. *)
BlockUnchecked(written, block) == written \o block
Block(written, block) ==
  IF ReceiverReportBytes - 4 * Len(written) < ReceiverReportSize THEN written ELSE written \o block

(* Serialize up to the loop over the blocks, and the blocks it goes through,
   which an 8-bit number counts. *)
SerializeRR(p) ==
  <<SerializeHeader(Header(Len(p.reports), ReceiverReport, ReceiverReportBytes)), p.ssrc>>
Blocks(p) == IF p.kind = "RR" THEN Len(p.reports) % 256 ELSE 0

(* NackFeedBack::Serialize: an SSRC, and fsn and blp in one word; the words of
   a transport-wide field are those of TransportCC. *)
SerializeField(field) == field.words

FeedbackLengthBare(fieldSize) == fieldSize + RTCPCommonHeaderSize
FeedbackLength(fieldSize) == fieldSize + RTCPCommonHeaderSize + 8

SerializeFB(p) ==
  <<SerializeHeader(Header(p.field.type, RTPFeedback, FeedbackLength(4 * Len(SerializeField(p.field))))),
    Zero, p.ssrc>> \o SerializeField(p.field)

Serialize(p) ==
  CASE p.kind = "SR" -> SerializeSR(p)
    [] p.kind = "RR" -> SerializeRR(p)
    [] p.kind = "FB" -> SerializeFB(p)

-----------------------------------------------------------------------------
(* The datagram.                                                           *)

Init ==
  /\ wire = <<>> /\ rest = 0 /\ sent = <<>> /\ pc = "compose"
  /\ packet = <<>> /\ draft = <<>> /\ i = 0
  /\ data = 0 /\ len = 0 /\ output = <<>> /\ cnt = 0

(* A datagram of another origin, with bytes behind its last word. *)
Arrive ==
  /\ pc = "compose" /\ wire = <<>>
  /\ wire' \in Foreign /\ rest' \in 0..3
  /\ UNCHANGED <<sent, pc, serializing, parsing>>

(* Serialize is called for one packet more. *)
Compose(p) ==
  /\ pc = "compose" /\ Len(sent) < MaxPackets
  /\ wire = <<>> \/ sent # <<>>
  /\ pc' = "blocks"
  /\ packet' = p /\ draft' = Serialize(p)
  /\ UNCHANGED <<wire, rest, sent, i, parsing>>

SerializeBlock ==
  /\ pc = "blocks" /\ i < Blocks(packet)
  /\ draft' = Block(draft, packet.reports[i + 1]) /\ i' = i + 1
  /\ UNCHANGED <<wire, rest, sent, pc, packet, parsing>>

(* Serialize returns, and what it wrote goes into the datagram. *)
Serialized ==
  /\ pc = "blocks" /\ i >= Blocks(packet)
  /\ pc' = "compose"
  /\ wire' = wire \o draft /\ sent' = Append(sent, [packet |-> packet, at |-> Len(wire)])
  /\ packet' = <<>> /\ draft' = <<>> /\ i' = 0
  /\ UNCHANGED <<rest, parsing>>

Size == 4 * Len(wire) + rest

(* A packet type RTP cannot have, since its upper bit is the marker. *)
IsRTCP == Size >= 4 /\ wire[1].pt % 128 \in 64..95

(* OnSocketData: handleIncomingRTCPData calls Parse; what is not RTCP goes to
   the RTP handler. *)
Receive ==
  /\ pc = "compose" /\ wire # <<>>
  /\ pc' = IF IsRTCP THEN "walk" ELSE "done"
  /\ len' = Size
  /\ UNCHANGED <<wire, rest, sent, serializing, data, output, cnt>>

-----------------------------------------------------------------------------
(* RTCPPacket::Parse.                                                      *)

(* A word of the receive buffer, which is far larger than any datagram. *)
At(k) == IF k <= Len(wire) THEN wire[k] ELSE Residue

HeaderWord == At(data \div 4 + 1)

PacketLen == RTCPCommonHeaderSize + HeaderWord.len * 4

(* SendReportPacket::Parse: header.length is cut to 16 bits, so that it never
   exceeds PacketLen, and the six words are read whatever PacketLen is. *)
SenderReportAt(k) ==
  IF PacketLen < ParseHeader(HeaderWord).length THEN [j \in 1..6 |-> Zero]
                                                ELSE [j \in 1..6 |-> At(k + j)]

(* ReceiverReportPacket's constructor calls no Parse: ssrc stays uninitialised
   and reports empty.  nth is history: which packet of the datagram it is. *)
Parsed ==
  IF HeaderWord.pt = SenderReport
  THEN [kind |-> "SR", nth |-> cnt + 1, fields |-> SenderReportAt(data \div 4 + 1)]
  ELSE [kind |-> "RR", nth |-> cnt + 1]

MoreAny == len > 0
More == len >= 4

ParsePacket ==
  /\ pc = "walk" /\ More
  /\ output' = IF HeaderWord.pt \in {SenderReport, ReceiverReport} THEN Append(output, Parsed)
                                                                   ELSE output
  /\ len' = len - PacketLen
  /\ data' = data + PacketLen
  /\ cnt' = cnt + 1
  /\ UNCHANGED <<wire, rest, sent, pc, serializing>>

(* Parse returns; OnRecvRTCP of the session manager only asks for the type. *)
Return ==
  /\ pc = "walk" /\ ~More
  /\ pc' = "done"
  /\ UNCHANGED <<wire, rest, sent, serializing, parsing>>

Returned == pc = "done" /\ UNCHANGED vars

Next ==
  \/ Arrive
  \/ (\E p \in Packets : Compose(p)) \/ SerializeBlock \/ Serialized
  \/ Receive \/ ParsePacket \/ Return \/ Returned

Spec == Init /\ [][Next]_vars

-----------------------------------------------------------------------------
(* Properties.                                                             *)

(* The Serialize of a report writes nothing behind the bytes it allocated,
   however many blocks the report holds. *)
WritesInBuffer ==
  pc = "blocks" =>
    /\ packet.kind = "SR" => 4 * Len(draft) <= SenderReportBytes
    /\ packet.kind = "RR" => 4 * Len(draft) <= ReceiverReportBytes

(* Every header Parse reads lies inside the datagram, and the position never
   loses step with the bytes left, whatever lengths the headers claim. *)
HeadersInDatagram ==
  [][cnt' # cnt => data + RTCPCommonHeaderSize <= Size /\ data' + len' = Size]_vars

(* A packet whose serialised form is as long as it says. *)
Counted(p) == p.kind = "RR" => Blocks(p) # 0

(* Parse has read a datagram of this program's packets. *)
AllCounted == sent # <<>> /\ \A n \in 1..Len(sent) : Counted(sent[n].packet)
AllRead == pc = "done" /\ AllCounted

(* Parse recovers from a datagram exactly the reports it was composed of, in
   order and with their own words, also when a word inside a packet looks like
   a header; and it counts its packets. *)
CompoundRecovered ==
  AllRead =>
    /\ cnt = Len(sent)
    /\ \A n \in 1..Len(sent) :
         sent[n].packet.kind # "FB" => \E k \in 1..Len(output) : output[k].nth = n
    /\ \A k \in 1..Len(output) :
         LET nth == output[k].nth
         IN  /\ nth \in 1..Len(sent) /\ \A l \in 1..(k - 1) : output[l].nth < nth
             /\ output[k].kind = sent[nth].packet.kind
             /\ output[k].kind = "SR" =>
                  \A j \in 1..6 : output[k].fields[j] = SerializeSR(sent[nth].packet)[j + 1]

(* GetTimestamp of a report that Parse made gives the time its SetTimestamp was
   given, to the microsecond although both cut, for reports made from
   EarliestTime until the seconds since 1900 wrap in 2036. *)
TimestampInverts ==
  AllRead =>
    \A k \in 1..Len(output) :
      LET time == sent[output[k].nth].packet.time
          fields == output[k].fields
      IN  output[k].kind = "SR" /\ Seconds(time) + EpochOffset < NtpValues =>
            GetTimestamp([ntpSec |-> NumberOf(fields[2]), ntpFrac |-> NumberOf(fields[3])]) = time

=============================================================================
