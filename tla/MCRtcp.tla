------------------------------- MODULE MCRtcp -------------------------------
(* Rtcp on compounds of up to three packets, some of whose words look like the
   header of a report, and on all foreign datagrams of up to three words with
   lengths that are zero, exact, too long or the largest.  ByteIO, which the
   packets' fields are read and written with, has bytes of two bits; a second has
   ten microseconds, and the reports' times each of the ten and each second from
   EarliestTime to the end of the NTP era.  A behaviour either walks over a datagram or stores a number. *)
EXTENDS Rtcp, ByteIO

MCZero == [b0 |-> 0, pt |-> 0, len |-> 0]
LikeSR == [b0 |-> 129, pt |-> SenderReport, len |-> 6]
LikeRR == [b0 |-> 128, pt |-> ReceiverReport, len |-> 0]

SR(time, counters, n) ==
  [kind |-> "SR", ssrc |-> LikeSR, time |-> time, counters |-> counters, reports |-> n]
RR(blocks) == [kind |-> "RR", ssrc |-> LikeSR, reports |-> blocks]
FB(type, words) == [kind |-> "FB", ssrc |-> LikeRR, field |-> [type |-> type, words |-> words]]

Counters == <<LikeRR, MCZero, LikeSR>>
BlockA == <<LikeSR, LikeSR, MCZero, LikeRR, MCZero, MCZero>>

Full ==
  {SR(EarliestTime + 11 * k, Counters, k) : k \in 0..6} \cup
  {SR(87, Counters, 7), SR(88, Counters, 8), SR(89, Reverse(Counters), 31),
   RR(<<>>), RR(<<BlockA>>), RR(<<BlockA, Reverse(BlockA)>>), RR(<<BlockA, BlockA, BlockA>>),
   FB(NACK, <<LikeSR, LikeRR>>), FB(TransportWideFeedbackMessage, <<LikeSR, MCZero, LikeRR>>),
   FB(TransportWideFeedbackMessage, <<>>)}

ForeignWords ==
  [b0 : {129}, pt : {96, SenderReport, ReceiverReport, RTPFeedback}, len : {0, 1, 2, 6, 16383, 65535}]
MCForeign == UNION {[1..n -> ForeignWords] : n \in 1..3}

MCInit == Init /\ ByteInit
MCNext ==
  \/ item = <<>> /\ Next /\ UNCHANGED byteVars
  \/ item = <<>> /\ wire = <<>> /\ ByteNext /\ UNCHANGED vars
  \/ item # <<>> /\ UNCHANGED <<vars, byteVars>>
MCSpec == MCInit /\ [][MCNext]_<<vars, byteVars>>
=============================================================================
