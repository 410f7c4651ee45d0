----------------------------- MODULE StunParse -----------------------------
(***************************************************************************)
(* StunPacket: IsStun, Parse, MakeResponse and Serialize, as OnSocketData  *)
(* calls them for a datagram.                                              *)
(*                                                                         *)
(* Behind the header a datagram is taken in words of four bytes, each of   *)
(* which Parse may come to read as the type and length of an attribute.    *)
(* The answer is given to Parse in turn, as its receiver will do.          *)
(***************************************************************************)
EXTENDS Integers, Sequences

CONSTANTS
  Packets,   \* received datagrams: [size, type, words]
  Opaque     \* words that stand for the bytes of an HMAC or a CRC

StunHeaderSize == 20
AttrHeaderSize == 4
HMACSize == 20
FingerprintSize == 4
Username == 6
MessageIntegrity == 8
Fingerprint == 32808   \* 0x8028
Response == 2

UInt16 == 0..(2^16 - 1)
Word == [type : UInt16, length : UInt16]

ASSUME PacketsAssumption ==
  /\ Opaque # {} /\ Opaque \subseteq Word
  /\ \A p \in Packets :
       /\ p.size \in Nat \ {0} /\ p.type \in UInt16 /\ p.words \in Seq(Word)
       /\ p.size >= StunHeaderSize => Len(p.words) = (p.size - StunHeaderSize) \div 4

VARIABLES
  packet,     \* the datagram
  pc,         \* "received", "walk", "done"
  i,          \* Parse's position
  username_,  \* where the username was found: <<offset, length>>, or <<>>
  result,     \* of Parse: "packet" or "null"; "other" for what is not STUN
  answered    \* the datagram is the answer to the first one

vars == <<packet, pc, i, username_, result, answered>>

(* The type words IsStun accepts: a binding request, and a response. *)
IsStun(type) == type \in {1, 257}

(* The type word without the two class bits: & 0xFEEF. *)
Method(type) == type - 256 * ((type \div 256) % 2) - 16 * ((type \div 16) % 2)

(* pad32 of tools.h. *)
Pad32(n) == ((n + 3) \div 4) * 4

Init ==
  /\ packet \in Packets
  /\ pc = "received" /\ i = 0
  /\ username_ = <<>> /\ result = "none"
  /\ answered = FALSE

(* OnSocketData: what is not STUN goes to the RTCP and RTP handlers. *)
Dispatch ==
  /\ pc = "received"
  /\ IF IsStun(packet.type) THEN pc' = "walk" /\ i' = StunHeaderSize /\ UNCHANGED result
                            ELSE pc' = "done" /\ result' = "other" /\ UNCHANGED i
  /\ UNCHANGED <<packet, username_, answered>>

-----------------------------------------------------------------------------
(* Parse's walk over the attributes.                                       *)

MoreAttributes == i + 4 < packet.size

Attribute == packet.words[(i - StunHeaderSize) \div 4 + 1]

(* The attribute reaches behind the datagram. *)
TooLongForHeader == i + Attribute.length > packet.size
TooLong == i + AttrHeaderSize + Attribute.length > packet.size

RejectAttribute ==
  /\ pc = "walk" /\ MoreAttributes /\ TooLong
  /\ pc' = "done" /\ result' = "null"
  /\ UNCHANGED <<packet, i, username_, answered>>

NextByLength == i + Pad32(Attribute.length)
NextAttribute == i + AttrHeaderSize + Pad32(Attribute.length)

ReadAttribute ==
  /\ pc = "walk" /\ MoreAttributes /\ ~TooLong
  /\ username_' = IF Attribute.type = Username
                  THEN <<i + AttrHeaderSize, Attribute.length>> ELSE username_
  /\ i' = NextAttribute
  /\ UNCHANGED <<packet, pc, result, answered>>

FinishParse ==
  /\ pc = "walk" /\ ~MoreAttributes
  /\ pc' = "done" /\ result' = "packet"
  /\ UNCHANGED <<packet, i, username_, answered>>

-----------------------------------------------------------------------------
(* MakeResponse and Serialize: a response with the method of the request, a
   message integrity and a fingerprint attribute. *)

SizeBeforeFingerprint == StunHeaderSize + AttrHeaderSize + HMACSize
AnswerSizeShort == SizeBeforeFingerprint + FingerprintSize
AnswerSize == SizeBeforeFingerprint + AttrHeaderSize + FingerprintSize

(* method | (Response & 2) << 7 | (Response & 1) << 4 *)
AnswerType(type) == Method(type) + 256 * (Response \div 2) + 16 * (Response % 2)

Attr(type, length) == [type |-> type, length |-> length]

Answer(type, hmac, crc) ==
  [size |-> AnswerSize,
   type |-> AnswerType(type),
   words |-> <<Attr(MessageIntegrity, HMACSize)>> \o hmac
             \o <<Attr(Fingerprint, FingerprintSize), crc>>]

(* OnSocketData sends the answer and its receiver looks at it. *)
Respond ==
  /\ pc = "done" /\ result = "packet" /\ ~answered
  /\ \E hmac \in [1..(HMACSize \div 4) -> Opaque], crc \in Opaque :
       packet' = Answer(packet.type, hmac, crc)
  /\ pc' = "received" /\ i' = 0 /\ username_' = <<>> /\ result' = "none"
  /\ answered' = TRUE

Returned == pc = "done" /\ (answered \/ result # "packet") /\ UNCHANGED vars

Next == Dispatch \/ RejectAttribute \/ ReadAttribute \/ FinishParse \/ Respond \/ Returned

(* Handling a datagram is one uninterrupted call. *)
Spec == Init /\ [][Next]_vars /\ WF_vars(Next)

-----------------------------------------------------------------------------
(* Properties.                                                             *)

(* The attribute header Parse reads next is a whole word of the datagram behind
   its header, and the username it has copied lies inside the datagram, whatever
   lengths the attributes claim. *)
AttributesInBounds ==
  /\ pc = "walk" /\ MoreAttributes =>
       i >= StunHeaderSize /\ i % 4 = 0 /\ i + AttrHeaderSize <= packet.size
  /\ username_ # <<>> => username_[1] + username_[2] <= packet.size

(* The answer is STUN to its receiver, and its attributes fill it exactly: the
   walk skips the HMAC and the CRC, whatever bytes they consist of, and ends at
   its last byte. *)
AnswerReadable ==
  answered /\ pc = "done" => result = "packet" /\ i = packet.size /\ username_ = <<>>

(* Parse returns on every datagram. *)
ParseEnds == <>[](pc = "done")

=============================================================================
