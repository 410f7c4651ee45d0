----------------------------- MODULE IceProofs -----------------------------
(***************************************************************************)
(* Proofs about ICE's part of a PeerConnection: the timeout of IceTimer    *)
(* for every period, timeout and lateness of the loop; the STUN messages   *)
(* of StunParse for datagrams of every size and content, and for whatever  *)
(* bytes the HMAC and the CRC of the answer consist of.                    *)
(***************************************************************************)
EXTENDS IceTimer, StunParse, BasicLemmas

-----------------------------------------------------------------------------
(* IceTimer.                                                               *)

(* Every time is a time; the clock has started before the process. *)
Times ==
  /\ now \in Nat \ {0}
  /\ due \in Nat /\ lastPacketRecvTimeMS_ \in Nat /\ waiting \in Nat
  /\ startedAt \in Nat /\ heardAt \in Nat

(* Before Start's task nothing has happened. *)
NotStarted ==
  /\ due = 0 <=> startedAt = 0
  /\ due = 0 => waiting = 0 /\ lastPacketRecvTimeMS_ = 0 /\ heardAt = 0

(* What is remembered lies in the past, and the loop is late by at most Lag. *)
Past ==
  /\ startedAt <= now /\ heardAt <= now /\ lastPacketRecvTimeMS_ <= now /\ waiting <= now
  /\ heardAt # 0 => startedAt <= heardAt
  /\ waiting # 0 => startedAt <= waiting /\ heardAt <= waiting /\ now <= waiting + Lag
  /\ due # 0 => now <= due + Lag /\ due <= now + Period

(* lastPacketRecvTimeMS_ is at most Lag behind the event it stands for: the
   start or the arrival of the last datagram.  While it is 0, the timer has not
   run since the start. *)
Measured ==
  /\ lastPacketRecvTimeMS_ = 0 => heardAt = 0 /\ due = startedAt
  /\ lastPacketRecvTimeMS_ # 0 => Since <= lastPacketRecvTimeMS_ /\ lastPacketRecvTimeMS_ <= Since + Lag

(* As long as no timeout is reported, the next tick comes before the timeout
   and a period are over. *)
TickDue ==
  lastPacketRecvTimeMS_ # 0 /\ ~reported => due <= lastPacketRecvTimeMS_ + IceTimeout + Period

TimerInv == Times /\ NotStarted /\ Past /\ Measured /\ TickDue

-----------------------------------------------------------------------------

(* The invariant holds before Start. *)
LEMMA TimerInvInit == TimerInit => TimerInv
  BY TimesAssumption
  DEF TimerInit, TimerInv, Times, NotStarted, Past, Measured, TickDue, Since, Later

(* And every callback of the loop, every arrival and every tick keeps it. *)
LEMMA TimerInvStep == TimerInv /\ [TimerNext]_timerVars => TimerInv'
<1> SUFFICES ASSUME TimerInv, [TimerNext]_timerVars PROVE TimerInv'
  OBVIOUS
<1> USE TimesAssumption DEF TimerInv, Times, NotStarted, Past, Measured, TickDue, Since, Later
<1>1. CASE Start
  BY <1>1 DEF Start
<1>2. CASE Arrive
  BY <1>2 DEF Arrive, history
<1>3. CASE OnSocketData
  BY <1>3 DEF OnSocketData, RecvTime
<1>4. CASE OnIceTimer
  <2>1. CASE lastPacketRecvTimeMS_ = 0
    BY <1>4, <2>1 DEF OnIceTimer, Seed
  <2>2. CASE lastPacketRecvTimeMS_ # 0
    <3>1. ~reported' => ~reported /\ ~Expired
      BY <1>4, <2>2, Zenon DEF OnIceTimer
    <3>2. /\ due # 0 /\ now >= due /\ \E loopTime \in due..now : due' = loopTime + Period
          /\ UNCHANGED <<now, lastPacketRecvTimeMS_, waiting, startedAt, heardAt>>
      BY <1>4, <2>2 DEF OnIceTimer
    <3> QED BY <2>2, <3>1, <3>2 DEF Expired
  <2> QED BY <2>1, <2>2
<1>5. CASE Tick
  BY <1>5 DEF Tick, history
<1>6. CASE UNCHANGED timerVars
  BY <1>6 DEF timerVars
<1> QED BY <1>1, <1>2, <1>3, <1>4, <1>5, <1>6 DEF TimerNext

(* The invariant holds at all times. *)
LEMMA TimerInvariant == TimerSpec => []TimerInv
  BY TimerInvInit, TimerInvStep, PTL DEF TimerSpec

(* A silent peer is noticed: OnIceTimer reports a silence within the timeout, a
   period and twice the loop's lateness, whatever these are. *)
THEOREM SilenceAlwaysNoticed == TimerSpec => []SilenceNoticed
<1>1. TimerInv => SilenceNoticed
  BY TimesAssumption
  DEF TimerInv, Times, NotStarted, Past, Measured, TickDue, SilenceNoticed, Since, Later
<1> QED BY <1>1, TimerInvariant, PTL

(* And only a silent one: whenever OnIceTimer reports a timeout, nothing has
   come in since the start or the last datagram for the timeout less the loop's
   lateness. *)
THEOREM TimeoutAlwaysJustified == TimerSpec => TimeoutJustified
<1> DEFINE Justified ==
      (IF waiting # 0 THEN waiting ELSE now) - Since > IceTimeout - Lag
<1>1. ASSUME TimerInv, [TimerNext]_timerVars, ~reported, reported' PROVE Justified
  <2> USE TimesAssumption DEF TimerInv, Times
  <2>1. OnIceTimer
    BY <1>1 DEF TimerNext, Start, Arrive, OnSocketData, Tick, history, timerVars
  <2>2. lastPacketRecvTimeMS_ # 0 /\ now - lastPacketRecvTimeMS_ > IceTimeout
    BY <1>1, <2>1 DEF OnIceTimer, Expired
  <2> QED BY <1>1, <2>2 DEF Past, Measured, Since, Later
<1>2. TimerInv /\ [TimerNext]_timerVars => [~reported /\ reported' => Justified]_timerVars
  BY <1>1
<1> QED BY <1>2, TimerInvariant, PTL DEF TimerSpec, TimeoutJustified

-----------------------------------------------------------------------------
(* StunParse.                                                              *)

(* What Parse may read: a size, and a word wherever four bytes of the datagram
   lie behind its header. *)
Readable ==
  /\ packet.size \in Nat
  /\ packet.size >= StunHeaderSize =>
       \A k \in 1..((packet.size - StunHeaderSize) \div 4) : packet.words[k] \in Word

(* Parse stands at the start of a word behind the header, in what IsStun has
   accepted. *)
Position ==
  /\ i \in Nat /\ i % 4 = 0
  /\ pc = "walk" => i >= StunHeaderSize
  /\ pc = "walk" \/ result = "packet" => IsStun(packet.type)

(* The username lies inside the datagram. *)
UsernameInside ==
  username_ # <<>> => username_[1] + username_[2] <= packet.size

(* The answer: a response of 52 bytes, whose two attribute headers are the first
   and the seventh word behind the header; Parse is at one of them, or at its
   end. *)
AnswerWalk ==
  answered =>
    /\ packet.size = 52 /\ IsStun(packet.type)
    /\ packet.words[1] = Attr(MessageIntegrity, HMACSize)
    /\ packet.words[7] = Attr(Fingerprint, FingerprintSize)
    /\ username_ = <<>>
    /\ pc \in {"received", "walk", "done"}
    /\ pc = "walk" => i \in {20, 44, 52}
    /\ pc = "done" => result = "packet" /\ i = 52

StunInv == Readable /\ Position /\ UsernameInside /\ AnswerWalk

-----------------------------------------------------------------------------

(* pad32 of tools.h rounds up to the next multiple of 4. *)
LEMMA Pad32Facts ==
  ASSUME NEW n \in Nat
  PROVE  Pad32(n) \in Nat /\ Pad32(n) % 4 = 0 /\ Pad32(n) >= n /\ Pad32(n) < n + 4
  BY DEF Pad32

(* A received datagram is readable. *)
LEMMA ReceivedReadable ==
  ASSUME packet \in Packets
  PROVE  Readable
<1>1. /\ packet.size \in Nat \ {0} /\ packet.words \in Seq(Word)
      /\ packet.size >= StunHeaderSize => Len(packet.words) = (packet.size - StunHeaderSize) \div 4
  BY PacketsAssumption, Zenon
<1>2. packet.size \in Nat
  BY <1>1
<1>3. \A k \in 1..Len(packet.words) : packet.words[k] \in Word
  BY <1>1, SequenceFacts
<1> QED BY <1>1, <1>2, <1>3 DEF Readable

(* The type and length of an attribute are 16 bits wide. *)
LEMMA UInt16Number ==
  ASSUME NEW n \in UInt16
  PROVE  n \in Nat
  BY DEF UInt16

(* Where the walk goes on, the attribute header it reads is a word. *)
LEMMA AttributeIsWord ==
  ASSUME Readable, Position, pc = "walk", MoreAttributes
  PROVE  Attribute \in Word /\ Attribute.length \in Nat
<1>1. /\ i \in Nat /\ i % 4 = 0 /\ i >= 20 /\ packet.size \in Nat /\ i + 4 < packet.size
  BY DEF Readable, Position, MoreAttributes, StunHeaderSize
<1>2. (i - 20) \div 4 + 1 \in 1..((packet.size - 20) \div 4)
  BY <1>1
<1>3. Attribute \in Word
  BY <1>1, <1>2 DEF Readable, Attribute, StunHeaderSize
<1>4. \A w \in Word : w.length \in UInt16
  BY DEF Word
<1> QED BY <1>3, <1>4, UInt16Number

(* The words of the answer: the HMAC is the second to the sixth, the CRC the
   eighth. *)
LEMMA AnswerWords ==
  ASSUME NEW hmac \in [1..(HMACSize \div 4) -> Opaque], NEW crc \in Opaque, NEW type
  PROVE  LET words == Answer(type, hmac, crc).words
         IN  /\ words[1] = Attr(MessageIntegrity, HMACSize)
             /\ words[7] = Attr(Fingerprint, FingerprintSize)
             /\ \A k \in 1..8 : words[k] \in Word
<1> DEFINE a == <<Attr(MessageIntegrity, HMACSize)>>
           b == <<Attr(Fingerprint, FingerprintSize), crc>>
<1>1. Opaque \subseteq Word
  BY PacketsAssumption
<1>2. a \in Seq(Word) /\ Len(a) = 1 /\ a[1] = Attr(MessageIntegrity, HMACSize)
  <2>1. Attr(MessageIntegrity, HMACSize) \in Word
    BY DEF Word, UInt16, Attr, MessageIntegrity, HMACSize
  <2> QED BY <2>1
<1>3. b \in Seq(Word) /\ Len(b) = 2 /\ b[1] = Attr(Fingerprint, FingerprintSize)
  <2>1. Attr(Fingerprint, FingerprintSize) \in Word
    BY DEF Word, UInt16, Attr, Fingerprint, FingerprintSize
  <2> QED BY <1>1, <2>1
<1>4. hmac \in Seq(Word) /\ Len(hmac) = 5
  <2>1. HMACSize \div 4 = 5
    BY DEF HMACSize
  <2>2. hmac \in [1..5 -> Word]
    BY <1>1, <2>1
  <2> QED BY <2>2, FunctionIsSequence
<1> HIDE DEF a, b
<1>5. 1 \in Nat /\ 2 \in Nat /\ 5 \in Nat /\ 6 \in Nat /\ 1 + 5 = 6 /\ 6 + 2 = 8 /\ 6 + 1 = 7
      /\ 1 \in 1..1 /\ 1 \in 1..2 /\ 1 \in 1..6
  OBVIOUS
<1>6. a \o hmac \in Seq(Word) /\ Len(a \o hmac) = 6 /\ (a \o hmac)[1] = a[1]
  <2>1. /\ a \o hmac \in Seq(Word) /\ Len(a \o hmac) = 1 + 5
        /\ \A k \in 1..1 : (a \o hmac)[k] = a[k]
    <3>1. /\ a \o hmac \in Seq(Word) /\ Len(a \o hmac) = Len(a) + Len(hmac)
          /\ \A k \in 1..Len(a) : (a \o hmac)[k] = a[k]
      BY <1>2, <1>4, Concatenation, Zenon
    <3> QED BY <1>2, <1>4, <3>1, Zenon
  <2> QED BY <1>5, <2>1, Zenon
<1> DEFINE c == a \o hmac
<1>7. /\ c \o b \in Seq(Word) /\ Len(c \o b) = 8
      /\ (c \o b)[1] = a[1] /\ (c \o b)[7] = b[1]
  <2>1. /\ c \o b \in Seq(Word) /\ Len(c \o b) = 6 + 2
        /\ \A k \in 1..6 : (c \o b)[k] = c[k]
        /\ \A k \in 1..2 : (c \o b)[6 + k] = b[k]
    <3> HIDE DEF c
    <3>1. c \in Seq(Word) /\ Len(c) = 6
      BY <1>6, Zenon DEF c
    <3>2. /\ c \o b \in Seq(Word) /\ Len(c \o b) = Len(c) + Len(b)
          /\ \A k \in 1..Len(c) : (c \o b)[k] = c[k]
          /\ \A k \in 1..Len(b) : (c \o b)[Len(c) + k] = b[k]
      <4>1. c \in Seq(Word) /\ b \in Seq(Word)
        BY <1>3, <3>1
      <4> QED BY <4>1, Concatenation
    <3> QED BY <1>3, <3>1, <3>2, Zenon
  <2> QED BY <1>5, <1>6, <2>1, Zenon
<1>8. Answer(type, hmac, crc).words = c \o b
  BY DEF Answer, a, b
<1> HIDE DEF c
<1>9. \A k \in 1..8 : (c \o b)[k] \in Word
  BY <1>7, SequenceFacts
<1> QED BY <1>2, <1>3, <1>7, <1>8, <1>9, Zenon

(* The attribute Parse finds at either place of the answer where it looks: none
   is a username. *)
LEMMA AnswerAttribute ==
  ASSUME packet.words[1] = Attr(MessageIntegrity, HMACSize),
         packet.words[7] = Attr(Fingerprint, FingerprintSize),
         i \in {20, 44}
  PROVE  Attribute.length = (IF i = 20 THEN 20 ELSE 4) /\ Attribute.type # Username
<1>1. CASE i = 20
  <2>1. Attribute = packet.words[1]
    BY <1>1 DEF Attribute, StunHeaderSize
  <2> QED BY <1>1, <2>1 DEF Attr, MessageIntegrity, HMACSize, Username
<1>2. CASE i = 44
  <2>1. Attribute = packet.words[7]
    BY <1>2 DEF Attribute, StunHeaderSize
  <2> QED BY <1>2, <2>1 DEF Attr, Fingerprint, FingerprintSize, Username
<1> QED BY <1>1, <1>2

(* MakeResponse turns a request, and a response, into a response. *)
LEMMA AnswerIsStun ==
  ASSUME NEW type, IsStun(type)
  PROVE  IsStun(AnswerType(type))
  BY DEF IsStun, AnswerType, Method, Response

-----------------------------------------------------------------------------

(* The invariant holds when a datagram is received. *)
LEMMA StunInit == Init => StunInv
  BY ReceivedReadable DEF Init, StunInv, Position, UsernameInside, AnswerWalk

(* Every step of Parse, and the answer, keep it. *)
LEMMA StunStep == StunInv /\ [Next]_vars => StunInv'
<1> SUFFICES ASSUME StunInv, [Next]_vars PROVE StunInv'
  OBVIOUS
<1> USE DEF StunInv
<1>1. CASE Dispatch
  BY <1>1 DEF Dispatch, Readable, Position, UsernameInside, AnswerWalk, StunHeaderSize
<1>2. CASE RejectAttribute
  <2>1. ~answered
    <3> SUFFICES ASSUME answered PROVE FALSE
      OBVIOUS
    <3>1. packet.size = 52 /\ i \in {20, 44, 52} /\ i + 4 < 52
      BY <1>2 DEF AnswerWalk, RejectAttribute, MoreAttributes
    <3>2. Attribute.length = IF i = 20 THEN 20 ELSE 4
      BY <3>1, AnswerAttribute DEF AnswerWalk
    <3> QED BY <1>2, <3>1, <3>2 DEF RejectAttribute, TooLong, AttrHeaderSize
  <2> QED BY <1>2, <2>1 DEF RejectAttribute, Readable, Position, UsernameInside, AnswerWalk
<1>3. CASE ReadAttribute
  <2>1. /\ packet' = packet /\ pc' = pc /\ pc = "walk" /\ result' = result /\ answered' = answered
        /\ MoreAttributes
    BY <1>3 DEF ReadAttribute
  <2> DEFINE n == Attribute.length
  <2>2. n \in Nat
    BY <2>1, AttributeIsWord
  <2>3. Pad32(n) \in Nat /\ Pad32(n) % 4 = 0
    BY <2>2, Pad32Facts
  <2>4. i' = i + 4 + Pad32(n) /\ i + 4 + n <= packet.size
    BY <1>3, <2>2 DEF ReadAttribute, NextAttribute, TooLong, AttrHeaderSize, Position, Readable
  <2>5. Readable'
    BY <2>1 DEF Readable
  <2> HIDE DEF n
  <2>6. Position'
    <3>1. i \in Nat /\ i % 4 = 0 /\ i >= 20
      BY <2>1 DEF Position, StunHeaderSize
    <3>2. i' \in Nat /\ i' % 4 = 0 /\ i' >= 20
      BY <2>3, <2>4, <3>1
    <3> QED BY <2>1, <3>2 DEF Position, StunHeaderSize
  <2>7. UsernameInside'
    BY <1>3, <2>1, <2>4 DEF n, ReadAttribute, UsernameInside, AttrHeaderSize
  <2>8. AnswerWalk'
    <3> SUFFICES ASSUME answered
                 PROVE  username_' = <<>> /\ i' \in {20, 44, 52}
      BY <2>1 DEF AnswerWalk
    <3>1. packet.size = 52 /\ i \in {20, 44, 52} /\ i + 4 < 52
      BY <2>1 DEF AnswerWalk, MoreAttributes
    <3>2. n = (IF i = 20 THEN 20 ELSE 4) /\ Attribute.type # Username
      BY <3>1, AnswerAttribute DEF n, AnswerWalk
    <3>3. Pad32(20) = 20 /\ Pad32(4) = 4
      BY DEF Pad32
    <3> QED BY <1>3, <2>4, <3>1, <3>2, <3>3 DEF ReadAttribute, AnswerWalk
  <2> QED BY <2>5, <2>6, <2>7, <2>8
<1>4. CASE FinishParse
  <2>1. answered => i = 52
    BY <1>4 DEF FinishParse, AnswerWalk, MoreAttributes
  <2> QED BY <1>4, <2>1 DEF FinishParse, Readable, Position, UsernameInside, AnswerWalk
<1>5. CASE Respond
  <2>1. PICK hmac \in [1..(HMACSize \div 4) -> Opaque], crc \in Opaque :
          packet' = Answer(packet.type, hmac, crc)
    BY <1>5 DEF Respond
  <2>2. /\ packet'.size = 52 /\ packet'.type = AnswerType(packet.type)
        /\ packet'.words = Answer(packet.type, hmac, crc).words
    BY <2>1 DEF Answer, AnswerSize, SizeBeforeFingerprint, StunHeaderSize, AttrHeaderSize,
                HMACSize, FingerprintSize
  <2>3. IsStun(packet'.type)
    BY <1>5, <2>2, AnswerIsStun DEF Respond, Position
  <2>4. /\ packet'.words[1] = Attr(MessageIntegrity, HMACSize)
        /\ packet'.words[7] = Attr(Fingerprint, FingerprintSize)
        /\ \A k \in 1..8 : packet'.words[k] \in Word
    BY <2>2, AnswerWords
  <2>5. Readable'
    BY <2>2, <2>4 DEF Readable, StunHeaderSize
  <2>6. Position' /\ UsernameInside'
    BY <1>5, <2>3 DEF Respond, Position, UsernameInside
  <2>7. AnswerWalk'
    BY <1>5, <2>2, <2>3, <2>4 DEF Respond, AnswerWalk
  <2> QED BY <2>5, <2>6, <2>7
<1>6. CASE UNCHANGED vars
  BY <1>6 DEF vars, Readable, Position, UsernameInside, AnswerWalk, MoreAttributes
<1> QED BY <1>1, <1>2, <1>3, <1>4, <1>5, <1>6 DEF Next, Returned

(* The invariant holds while a datagram and its answer are handled. *)
LEMMA StunInvariant == Spec => []StunInv
  BY StunInit, StunStep, PTL DEF Spec

(* Parse reads attribute headers that are words of the datagram, and copies a
   username from inside it. *)
THEOREM AttributesAlwaysInBounds == Spec => []AttributesInBounds
<1>1. StunInv => AttributesInBounds
  BY DEF StunInv, Readable, Position, UsernameInside, AttributesInBounds, MoreAttributes,
         AttrHeaderSize
<1> QED BY <1>1, StunInvariant, PTL

(* The receiver of an answer takes it for STUN and reads it to its last byte. *)
THEOREM AnswerAlwaysReadable == Spec => []AnswerReadable
<1>1. StunInv => AnswerReadable
  BY DEF StunInv, AnswerWalk, AnswerReadable
<1> QED BY <1>1, StunInvariant, PTL

=============================================================================
