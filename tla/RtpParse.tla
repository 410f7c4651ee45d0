------------------------------ MODULE RtpParse ------------------------------
(***************************************************************************)
(* RTPPacket::Parse and GetTransportCCNum: where the payload of a received *)
(* packet is, and the walk over its header extensions.                     *)
(*                                                                         *)
(* A packet is abstracted to what Parse branches on.  block holds the      *)
(* bytes of the extension block; positions in it are counted from its      *)
(* start, extension_offset in the code.  The walk is a step per iteration. *)
(***************************************************************************)
EXTENDS Integers, Sequences

CONSTANT
  Packets   \* [size, version, cc, padding, hasExt, profile, block] records

ASSUME PacketsAssumption ==
  \A p \in Packets :
    /\ p.size \in Nat \ {0} /\ p.cc \in 0..15
    /\ p.padding \in -1..255         \* the last byte, -1 without the padding bit
    /\ p.profile \in {"oneByte", "twoByte", "other"}
    /\ p.block \in Seq(0..255) /\ Len(p.block) % 4 = 0

Unset == -1             \* a field the constructor leaves uninitialised
kFixedHeaderSize == 12
kRtpVersion == 2
kOneByteHeaderExtensionReservedId == 15

VARIABLES
  packet,
  pc,                 \* "start", "walk", "end" and, after a return, "done"
  result,             \* what Parse returned, "none" before
  extensions_size_,   \* the position of the walk
  exts_,              \* id |-> [length, data]
  payloadOffset_,
  payloadSize_,
  headers             \* history: id |-> where its element's data begins

vars == <<packet, pc, result, extensions_size_, exts_, payloadOffset_, payloadSize_, headers>>

Capacity == Len(packet.block)
HeaderLength == IF packet.profile = "oneByte" THEN 1 ELSE 2
PaddingSize == IF packet.padding = -1 THEN 0 ELSE packet.padding
CSRCEnd == kFixedHeaderSize + packet.cc * 4

Byte(i) == packet.block[i + 1]

Init ==
  /\ packet \in Packets
  /\ pc = "start" /\ result = "none"
  /\ extensions_size_ = 0
  /\ exts_ = <<>> /\ headers = <<>>
  /\ payloadOffset_ = Unset /\ payloadSize_ = Unset

Return(value) == pc' = "done" /\ result' = value

-----------------------------------------------------------------------------
(* The fixed header: a malformed one returns -1, which is true. *)
RejectHeader ==
  /\ pc = "start"
  /\ \/ packet.size < kFixedHeaderSize
     \/ packet.version # kRtpVersion
     \/ packet.size < CSRCEnd
  /\ Return("true")
  /\ UNCHANGED <<packet, extensions_size_, exts_, payloadOffset_, payloadSize_, headers>>

HeaderFits == packet.size >= CSRCEnd /\ packet.version = kRtpVersion

(* A padding size of zero, or an extension block that does not fit. *)
RejectExtensions ==
  /\ pc = "start" /\ HeaderFits
  /\ packet.padding = 0 \/ (packet.hasExt /\ CSRCEnd + 4 + Capacity > packet.size)
  /\ payloadOffset_' = CSRCEnd
  /\ Return("false")
  /\ UNCHANGED <<packet, extensions_size_, exts_, payloadSize_, headers>>

AcceptHeader ==
  /\ pc = "start" /\ HeaderFits
  /\ packet.padding # 0 /\ (packet.hasExt => CSRCEnd + 4 + Capacity <= packet.size)
  /\ payloadOffset_' = CSRCEnd
  /\ pc' = IF packet.hasExt /\ packet.profile # "other" THEN "walk" ELSE "end"
  /\ UNCHANGED <<packet, result, extensions_size_, exts_, payloadSize_, headers>>

-----------------------------------------------------------------------------
(* The walk.                                                               *)

(* There is room for an element's header and more. *)
More(i) == i + HeaderLength < Capacity

ElementId(i) == IF packet.profile = "oneByte" THEN Byte(i) \div 16 ELSE Byte(i)
ElementLength(i) == IF packet.profile = "oneByte" THEN 1 + (Byte(i) % 16) ELSE Byte(i + 1)

SkipPadding ==
  /\ pc = "walk" /\ More(extensions_size_) /\ Byte(extensions_size_) = 0
  /\ extensions_size_' = extensions_size_ + 1
  /\ UNCHANGED <<packet, pc, result, exts_, payloadOffset_, payloadSize_, headers>>

(* Where the RTPExtension recorded for the element at i points. *)
DataOfElement(i) == i + HeaderLength
DataPointer(i) == HeaderLength

Set(f, id, value) == [k \in {id} \cup {j \in 0..255 : j \in DOMAIN f} |->
                       IF k = id THEN value ELSE f[k]]

(* An element is recorded before its id and its length are looked at. *)
Record(i) ==
  /\ exts_' = Set(exts_, ElementId(i), [length |-> ElementLength(i), data |-> DataPointer(i)])
  /\ headers' = Set(headers, ElementId(i), i + HeaderLength)

(* A reserved or a padding id in a one-byte header, or an oversized element. *)
EndsWalk(i) ==
  \/ packet.profile = "oneByte" /\ ElementId(i) = kOneByteHeaderExtensionReservedId
  \/ packet.profile = "oneByte" /\ ElementId(i) = 0 /\ ElementLength(i) # 1
  \/ i + HeaderLength + ElementLength(i) > Capacity

AdvanceByLength(i) == i + ElementLength(i)
Advance(i) == i + HeaderLength + ElementLength(i)

ReadElement ==
  /\ pc = "walk" /\ More(extensions_size_) /\ Byte(extensions_size_) # 0
  /\ Record(extensions_size_)
  /\ IF EndsWalk(extensions_size_)
     THEN pc' = "end" /\ UNCHANGED extensions_size_
     ELSE extensions_size_' = Advance(extensions_size_) /\ UNCHANGED pc
  /\ UNCHANGED <<packet, result, payloadOffset_, payloadSize_>>

FinishWalk ==
  /\ pc = "walk" /\ ~More(extensions_size_)
  /\ pc' = "end"
  /\ UNCHANGED <<packet, result, extensions_size_, exts_, payloadOffset_, payloadSize_, headers>>

-----------------------------------------------------------------------------
(* The payload, after the extensions and before the padding.               *)

PayloadStart == IF packet.hasExt THEN CSRCEnd + 4 + Capacity ELSE CSRCEnd

(* The last check of Parse. *)
FitsWithoutPadding == PayloadStart <= packet.size
Fits == PayloadStart + PaddingSize <= packet.size

Finish ==
  /\ pc = "end"
  /\ payloadOffset_' = PayloadStart
  /\ payloadSize_' = IF Fits THEN packet.size - PayloadStart - PaddingSize ELSE payloadSize_
  /\ Return(IF Fits THEN "true" ELSE "false")
  /\ UNCHANGED <<packet, extensions_size_, exts_, headers>>

Returned == pc = "done" /\ UNCHANGED vars

Next == RejectHeader \/ RejectExtensions \/ AcceptHeader
        \/ SkipPadding \/ ReadElement \/ FinishWalk \/ Finish \/ Returned

(* Parse is one uninterrupted call. *)
Spec == Init /\ [][Next]_vars /\ WF_vars(Next)

(* GetTransportCCNum(id): the positions of the two bytes it reads. *)
TransportCCBytes(id) == {exts_[id].data, exts_[id].data + 1}

-----------------------------------------------------------------------------
(* Properties.                                                             *)

(* The bytes an iteration of the walk reads at its position. *)
BytesRead(i) == IF packet.profile = "twoByte" /\ Byte(i) # 0 THEN {i, i + 1} ELSE {i}

(* Whatever lengths the elements claim, the walk reads no byte behind the
   extension block. *)
WalkInBounds ==
  pc = "walk" /\ More(extensions_size_) =>
    /\ extensions_size_ < Capacity
    /\ \A i \in BytesRead(extensions_size_) : i \in 0..(Capacity - 1)

(* Parse records an element before it finds it oversized, or empty; the two
   bytes GetTransportCCNum then takes for a number are inside the extension
   block nevertheless. *)
TransportCCInBounds ==
  \A id \in DOMAIN exts_ : TransportCCBytes(id) \subseteq 0..(Capacity - 1)

(* No read of an extension, by Parse or after it, leaves the extension block. *)
ExtensionsInBounds == WalkInBounds /\ TransportCCInBounds

(* When Parse has set the payload, header, payload and padding make up the
   packet exactly; a true result without a payload means a bad fixed header. *)
PayloadExact ==
  /\ payloadSize_ # Unset =>
       /\ payloadSize_ >= 0
       /\ payloadOffset_ + payloadSize_ + PaddingSize = packet.size
       /\ payloadOffset_ >= CSRCEnd + (IF packet.hasExt THEN 4 + Capacity ELSE 0)
  /\ pc = "done" /\ result = "true" => payloadSize_ # Unset \/ ~HeaderFits

(* Parse returns: every element, even one of length 0, moves the walk on. *)
WalkEnds == <>(pc = "done")

(* The data recorded for an extension is what follows its own id and length,
   as the layout drawn in Parse has it. *)
ExtensionData ==
  \A id \in DOMAIN exts_ : exts_[id].data = headers[id]

=============================================================================
