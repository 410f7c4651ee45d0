----------------------------- MODULE MediaRelay -----------------------------
(***************************************************************************)
(* What the relay promises its players: each has a channel that carries    *)
(* the publisher's packets in order, each at most once, and loses one only *)
(* while nothing has been heard from the player.                           *)
(***************************************************************************)
EXTENDS Integers

CONSTANTS
  Players,
  Packets    \* numbered in the order the publisher's datagrams come in

VARIABLES
  transit,    \* the packets on their way to each player
  delivered,  \* the packets sent to it
  heard,      \* the players whose address is known
  up          \* the process is running

vars == <<transit, delivered, heard, up>>

Init ==
  /\ transit = [p \in Players |-> {}]
  /\ delivered = [p \in Players |-> {}]
  /\ heard = {}
  /\ up = TRUE

(* A packet newer than all before it enters the channels of some players. *)
Publish(b, to) ==
  /\ up
  /\ \A p \in to : \A c \in transit[p] \cup delivered[p] : c < b
  /\ transit' = [p \in Players |-> IF p \in to THEN transit[p] \cup {b} ELSE transit[p]]
  /\ UNCHANGED <<delivered, heard, up>>

(* The oldest packet in transit comes first. *)
Deliver(p) ==
  /\ up
  /\ \E b \in transit[p] :
       /\ \A c \in transit[p] : b <= c
       /\ transit' = [transit EXCEPT ![p] = @ \ {b}]
       /\ delivered' = [delivered EXCEPT ![p] = @ \cup {b}]
  /\ UNCHANGED <<heard, up>>

Lose(p, b) ==
  /\ up /\ p \notin heard
  /\ transit' = [transit EXCEPT ![p] = @ \ {b}]
  /\ UNCHANGED <<delivered, heard, up>>

Hear(p) == up /\ heard' = heard \cup {p} /\ UNCHANGED <<transit, delivered, up>>

(* A null pointer ends the process, maybe at a datagram of a player. *)
Stop ==
  /\ up /\ up' = FALSE
  /\ heard' = heard \/ \E p \in Players : heard' = heard \cup {p}
  /\ UNCHANGED <<transit, delivered>>

Next ==
  \/ \E b \in Packets, to \in SUBSET Players : Publish(b, to)
  \/ \E p \in Players : Deliver(p) \/ Hear(p) \/ \E b \in transit[p] : Lose(p, b)
  \/ Stop

(* What is in transit to a player that has been heard from gets there. *)
Spec == Init /\ [][Next]_vars /\ \A p \in Players : WF_vars(p \in heard /\ Deliver(p))

=============================================================================
