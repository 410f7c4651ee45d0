---------------------------- MODULE RelayProofs ----------------------------
(***************************************************************************)
(* Proofs about Relay for any number of publishers, players and buffers.   *)
(***************************************************************************)
EXTENDS Relay, BasicLemmas, FiniteSetTheorems

-----------------------------------------------------------------------------
(* Types, and what a received datagram changes.                            *)

Kinds == {"stun", "rtcp", "rtp", "reply", "feedback"}
Phases == {"none", "built", "attached", "answered", "done"}

(* The values of the variables. *)
Typed ==
  /\ phase \in [PCs -> Phases]
  /\ hasRemote \in [PCs -> BOOLEAN]
  /\ sinks \in [Publishers -> SUBSET Players]
  /\ pcTable \in SUBSET PCs
  /\ startTask \in [PCs -> BOOLEAN]
  /\ tasks \in [PCs -> Seq(Nat)]
  /\ sock \in [PCs -> {"unbound", "advertised", "other", "refused"}]
  /\ recving \in [PCs -> BOOLEAN]
  /\ timer \in [PCs -> BOOLEAN]
  /\ remote \in [PCs -> {"garbage", "peer"}]
  /\ heap \in Seq(Kinds)
  /\ sending \in [PCs -> Seq(Nat)]
  /\ sent \in [PCs -> Seq(Nat)]
  /\ wire \in [PCs -> Seq(Nat)]
  /\ given \in [PCs -> SUBSET Nat]
  /\ rejected \in [PCs -> SUBSET Nat]

(* The heap behind a received datagram and at most one reply: the buffers
   allocated before keep their contents, the reply joins the socket's queue. *)
LEMMA Received1 ==
  ASSUME Typed, NEW p \in PCs, NEW kind \in Kinds, NEW reply \in Kinds,
         NEW replies, replies = <<>> \/ replies = <<reply>>,
         Receive(p, kind, replies)
  PROVE  /\ Len(heap) \in Nat /\ Len(heap') \in Nat /\ heap' \in Seq(Kinds)
         /\ \A b \in 1..Len(heap) : heap'[b] = heap[b]
         /\ heap'[Len(heap) + 1] = kind
         /\ \/ /\ replies = <<>> /\ Len(heap') = Len(heap) + 1
               /\ sending' = sending
            \/ /\ replies = <<reply>> /\ Len(heap') = Len(heap) + 2
               /\ heap'[Len(heap) + 2] = reply
               /\ sending' = [sending EXCEPT ![p] = Append(sending[p], Len(heap) + 2)]
<1> DEFINE n == Len(heap)
           h == Append(heap, kind)
<1>1. heap \in Seq(Kinds) /\ n \in Nat /\ sending \in [PCs -> Seq(Nat)]
  BY DEF Typed
<1>2. /\ h \in Seq(Kinds) /\ Len(h) = n + 1 /\ h[n + 1] = kind
      /\ \A b \in 1..n : h[b] = heap[b]
  BY <1>1
<1>3. heap \o <<kind>> = h
  BY <1>1, AppendIsConcat
<1>4. /\ heap' = h \o replies
      /\ sending' = [sending EXCEPT ![p] = sending[p] \o [i \in 1..Len(replies) |-> n + 1 + i]]
  BY <1>3 DEF Receive
<1> HIDE DEF n, h
<1>5. CASE replies = <<>>
  <2>1. heap' = h
    BY <1>2, <1>4, <1>5, ConcatEmptySeq
  <2>2. [i \in 1..Len(replies) |-> n + 1 + i] = <<>>
    BY <1>5
  <2>3. sending' = sending
    <3>1. sending[p] \in Seq(Nat)
      BY <1>1
    <3>2. sending[p] \o <<>> = sending[p]
      BY <3>1, ConcatEmptySeq
    <3> QED BY <1>1, <1>4, <2>2, <3>2
  <2> QED BY <1>1, <1>2, <1>5, <2>1, <2>3 DEF n
<1>6. CASE replies = <<reply>>
  <2>1. heap' = Append(h, reply)
    BY <1>2, <1>4, <1>6, AppendIsConcat
  <2>2. /\ heap' \in Seq(Kinds) /\ Len(heap') = n + 2 /\ heap'[n + 2] = reply
        /\ heap'[n + 1] = kind /\ \A b \in 1..n : heap'[b] = heap[b]
    BY <1>1, <1>2, <2>1
  <2>3. [i \in 1..Len(replies) |-> n + 1 + i] = <<n + 2>>
    BY <1>1, <1>6
  <2>4. sending[p] \o <<n + 2>> = Append(sending[p], n + 2)
    BY <1>1, AppendIsConcat
  <2>5. sending' = [sending EXCEPT ![p] = Append(sending[p], n + 2)]
    BY <1>4, <2>3, <2>4
  <2> QED BY <1>1, <1>6, <2>2, <2>5 DEF n
<1> QED BY <1>5, <1>6

(* The destructor changes only who the sinks are and whether p receives. *)
LEMMA Destroyed ==
  ASSUME Typed, NEW p \in PCs, Destroy(p, FALSE)
  PROVE  /\ sinks' \in [Publishers -> SUBSET Players]
         /\ \A s \in Publishers : sinks'[s] \subseteq sinks[s]
         /\ recving' \in [PCs -> BOOLEAN]
         /\ \A q \in PCs : recving'[q] => recving[q]
  BY DEF Typed, Destroy

(* Start's task makes p receive, and no other connection. *)
LEMMA Started ==
  ASSUME Typed, NEW p \in PCs, Destroy(p, TRUE)
  PROVE  /\ sinks' \in [Publishers -> SUBSET Players]
         /\ \A s \in Publishers : sinks'[s] \subseteq sinks[s]
         /\ recving' \in [PCs -> BOOLEAN]
         /\ \A q \in PCs : recving'[q] => recving[q] \/ q = p
  BY DEF Typed, Destroy

(* The variables have their types at first, *)
LEMMA TypedInit == Init => Typed
  BY EmptyHolds DEF Init, Typed, Phases

(* and after every step. *)
LEMMA TypedStep == Typed /\ [Next]_vars => Typed'
<1> SUFFICES ASSUME Typed, [Next]_vars PROVE Typed'
  OBVIOUS
<1>1. CASE UNCHANGED vars
  BY <1>1 DEF Typed, vars
<1> USE DEF signaling, memory, socket
<1>2. ASSUME NEW p \in PCs, Construct(p) PROVE Typed'
  BY <1>2 DEF Typed, Construct, Phases
<1>3. ASSUME NEW p \in PCs, AddStream(p) PROVE Typed'
  BY <1>3 DEF Typed, AddStream, Phases
<1>4. ASSUME NEW p \in PCs, NEW sends \in BOOLEAN, CreateAnswer(p, sends) PROVE Typed'
  BY <1>4 DEF Typed, CreateAnswer, AddPC, Phases
<1>5. ASSUME NEW p \in PCs, CreateAnswerThrows(p) PROVE Typed'
  BY <1>5, Destroyed DEF Typed, CreateAnswerThrows, Phases
<1>6. ASSUME NEW p \in PCs, Start(p) PROVE Typed'
  BY <1>6, Destroyed DEF Typed, Start, Phases
<1>7. ASSUME NEW p \in PCs, RunStart(p) PROVE Typed'
  BY <1>7, Started DEF Typed, RunStart, Bind
<1>8. ASSUME NEW p \in PCs, RunMediaAccepted(p) PROVE Typed'
  <2>1. tasks[p] \in Seq(Nat) /\ tasks[p] # <<>> /\ sending[p] \in Seq(Nat)
    BY <1>8 DEF Typed, RunMediaAccepted
  <2>2. Tail(tasks[p]) \in Seq(Nat) /\ Append(sending[p], Head(tasks[p])) \in Seq(Nat)
    BY <2>1
  <2>3. tasks' \in [PCs -> Seq(Nat)] /\ sending' \in [PCs -> Seq(Nat)]
    BY <1>8, <2>2 DEF Typed, RunMediaAccepted
  <2> QED BY <1>8, <2>3, Destroyed DEF Typed, RunMediaAccepted
<1>9. ASSUME NEW p \in PCs, RunMediaRefused(p) PROVE Typed'
  <2>1. tasks[p] \in Seq(Nat) /\ tasks[p] # <<>>
    BY <1>9 DEF Typed, RunMediaRefused
  <2>2. Tail(tasks[p]) \in Seq(Nat) /\ Head(tasks[p]) \in Nat
    BY <2>1
  <2>3. tasks' \in [PCs -> Seq(Nat)] /\ rejected' \in [PCs -> SUBSET Nat]
    BY <1>9, <2>2 DEF Typed, RunMediaRefused
  <2> QED BY <1>9, <2>3, Destroyed DEF Typed, RunMediaRefused
<1>10. ASSUME NEW p \in PCs, UdpWrite(p) PROVE Typed'
  <2>1. sending[p] \in Seq(Nat) /\ sending[p] # <<>> /\ sent[p] \in Seq(Nat) /\ wire[p] \in Seq(Nat)
    BY <1>10 DEF Typed, UdpWrite
  <2>2. /\ Tail(sending[p]) \in Seq(Nat) /\ Append(sent[p], Head(sending[p])) \in Seq(Nat)
        /\ Append(wire[p], Head(sending[p])) \in Seq(Nat)
    BY <2>1
  <2>3. /\ sending' \in [PCs -> Seq(Nat)] /\ sent' \in [PCs -> Seq(Nat)]
        /\ wire' \in [PCs -> Seq(Nat)]
    BY <1>10, <2>2 DEF Typed, UdpWrite
  <2> QED BY <1>10, <2>3 DEF Typed, UdpWrite
<1>11. ASSUME NEW p \in PCs, SendCb(p) PROVE Typed'
  <2>1. sent[p] \in Seq(Nat) /\ sent[p] # <<>>
    BY <1>11 DEF Typed, SendCb
  <2>2. Tail(sent[p]) \in Seq(Nat)
    BY <2>1
  <2>3. sent' \in [PCs -> Seq(Nat)]
    BY <1>11, <2>2 DEF Typed, SendCb
  <2> QED BY <1>11, <2>3 DEF Typed, SendCb
<1>12. ASSUME NEW p \in PCs, NEW kind \in Kinds, NEW reply \in Kinds,
              NEW replies, replies = <<>> \/ replies = <<reply>>, Receive(p, kind, replies)
       PROVE  /\ heap' \in Seq(Kinds) /\ sending' \in [PCs -> Seq(Nat)]
              /\ remote' \in [PCs -> {"garbage", "peer"}]
  <2>1. sending[p] \in Seq(Nat) /\ Len(heap) \in Nat
    BY DEF Typed
  <2>2. Append(sending[p], Len(heap) + 2) \in Seq(Nat)
    BY <2>1
  <2>3. /\ heap' \in Seq(Kinds)
        /\ sending' = sending \/ sending' = [sending EXCEPT ![p] = Append(sending[p], Len(heap) + 2)]
    BY <1>12, Received1
  <2>4. sending' \in [PCs -> Seq(Nat)]
    BY <2>2, <2>3 DEF Typed
  <2>5. remote' \in [PCs -> {"garbage", "peer"}]
    BY <1>12 DEF Typed, Receive
  <2> QED BY <2>3, <2>4, <2>5
<1>13. ASSUME NEW p \in PCs, NEW w \in BOOLEAN, RecvStun(p, w) PROVE Typed'
  <2>1. \E replies : (replies = <<>> \/ replies = <<"reply">>) /\ Receive(p, "stun", replies)
    BY <1>13 DEF RecvStun
  <2>2. /\ heap' \in Seq(Kinds) /\ sending' \in [PCs -> Seq(Nat)]
        /\ remote' \in [PCs -> {"garbage", "peer"}]
    BY <1>12, <2>1 DEF Kinds
  <2> QED BY <1>13, <2>2 DEF Typed, RecvStun
<1>14. ASSUME NEW p \in PCs, RecvRtcp(p) PROVE Typed'
  <2>1. /\ heap' \in Seq(Kinds) /\ sending' \in [PCs -> Seq(Nat)]
        /\ remote' \in [PCs -> {"garbage", "peer"}]
    BY <1>12, <1>14 DEF Kinds, RecvRtcp
  <2> QED BY <1>14, <2>1 DEF Typed, RecvRtcp
<1>15. ASSUME NEW p \in PCs, NEW tcc \in BOOLEAN, RecvRtp(p, tcc) PROVE Typed'
  <2>1. \E replies : (replies = <<>> \/ replies = <<"feedback">>) /\ Receive(p, "rtp", replies)
    BY <1>15 DEF RecvRtp, Feedback
  <2>2. /\ heap' \in Seq(Kinds) /\ sending' \in [PCs -> Seq(Nat)]
        /\ remote' \in [PCs -> {"garbage", "peer"}]
    BY <1>12, <2>1 DEF Kinds
  <2>3. Received \in Nat
    BY DEF Typed, Received
  <2>4. \A q \in PCs : Append(tasks[q], Received) \in Seq(Nat)
    BY <2>3 DEF Typed
  <2>5. tasks' \in [PCs -> Seq(Nat)] /\ given' \in [PCs -> SUBSET Nat]
    BY <1>15, <2>3, <2>4 DEF Typed, RecvRtp, OnMediaData
  <2> QED BY <1>15, <2>2, <2>5 DEF Typed, RecvRtp
<1> QED BY <1>1, <1>2, <1>3, <1>4, <1>5, <1>6, <1>7, <1>8, <1>9, <1>10, <1>11, <1>12, <1>13, <1>14, <1>15
        DEF Next, Handler, Loop, Network, RunMedia

-----------------------------------------------------------------------------
(* Lifetime and ports.                                                     *)

(* From the answer on the table keeps a connection: whoever's task, timer or
   socket callbacks are to run is in it. *)
Kept ==
  \A p \in PCs : phase[p] = "answered" \/ startTask[p] \/ timer[p] \/ recving[p] => p \in pcTable

(* A connection that receives has asked for the advertised port, and has it unless
   it is a player that was given media, or was refused it. *)
Ported ==
  \A p \in PCs :
    /\ sock[p] = "other" \/ tasks[p] # <<>> => p \in Players /\ given[p] # {}
    /\ recving[p] => sock[p] # "unbound"
    /\ sock[p] = "refused" => p \in Refused

(* Both hold at first, *)
LEMMA LifeInit == Init => Kept /\ Ported
  BY DEF Init, Kept, Ported

(* and after every step. *)
LEMMA LifeStep == Typed /\ Kept /\ Ported /\ [Next]_vars => Kept' /\ Ported'
<1> SUFFICES ASSUME Typed, Kept, Ported, [Next]_vars PROVE Kept' /\ Ported'
  OBVIOUS
<1> USE DEF signaling, memory, socket
<1>1. CASE UNCHANGED vars
  BY <1>1 DEF vars, Kept, Ported
<1>2. ASSUME NEW p \in PCs, Construct(p) PROVE Kept' /\ Ported'
  BY <1>2 DEF Typed, Kept, Ported, Construct
<1>3. ASSUME NEW p \in PCs, AddStream(p) PROVE Kept' /\ Ported'
  BY <1>3 DEF Typed, Kept, Ported, AddStream
<1>4. ASSUME NEW p \in PCs, NEW sends \in BOOLEAN, CreateAnswer(p, sends) PROVE Kept' /\ Ported'
  BY <1>4 DEF Typed, Kept, Ported, CreateAnswer, AddPC
<1>5. ASSUME NEW p \in PCs, CreateAnswerThrows(p) PROVE Kept' /\ Ported'
  <2>1. \A q \in PCs : recving'[q] => recving[q]
    BY <1>5, Destroyed DEF CreateAnswerThrows
  <2> QED BY <1>5, <2>1 DEF Typed, Kept, Ported, CreateAnswerThrows
<1>6. ASSUME NEW p \in PCs, Start(p) PROVE Kept' /\ Ported'
  <2>1. \A q \in PCs : recving'[q] => recving[q]
    BY <1>6, Destroyed DEF Start
  <2> QED BY <1>6, <2>1 DEF Typed, Kept, Ported, Start
<1>7. ASSUME NEW p \in PCs, RunStart(p) PROVE Kept' /\ Ported'
  <2>1. \A q \in PCs : recving'[q] => recving[q] \/ q = p
    BY <1>7, Started DEF RunStart
  <2> QED BY <1>7, <2>1 DEF Typed, Kept, Ported, RunStart, Bind
<1>8. ASSUME NEW p \in PCs, RunMediaAccepted(p) PROVE Kept' /\ Ported'
  <2>1. \A q \in PCs : recving'[q] => recving[q]
    BY <1>8, Destroyed DEF RunMediaAccepted
  <2> QED BY <1>8, <2>1 DEF Typed, Kept, Ported, RunMediaAccepted
<1>9. ASSUME NEW p \in PCs, RunMediaRefused(p) PROVE Kept' /\ Ported'
  <2>1. \A q \in PCs : recving'[q] => recving[q]
    BY <1>9, Destroyed DEF RunMediaRefused
  <2> QED BY <1>9, <2>1 DEF Typed, Kept, Ported, RunMediaRefused
<1>10. ASSUME NEW p \in PCs, UdpWrite(p) PROVE Kept' /\ Ported'
  BY <1>10 DEF Typed, Kept, Ported, UdpWrite
<1>11. ASSUME NEW p \in PCs, SendCb(p) PROVE Kept' /\ Ported'
  BY <1>11 DEF Typed, Kept, Ported, SendCb
<1>12. ASSUME NEW p \in PCs, NEW w \in BOOLEAN, RecvStun(p, w) PROVE Kept' /\ Ported'
  BY <1>12 DEF Typed, Kept, Ported, RecvStun
<1>13. ASSUME NEW p \in PCs, RecvRtcp(p) PROVE Kept' /\ Ported'
  BY <1>13 DEF Typed, Kept, Ported, RecvRtcp
<1>14. ASSUME NEW p \in PCs, NEW tcc \in BOOLEAN, RecvRtp(p, tcc) PROVE Kept' /\ Ported'
  <2>1. Kept'
    BY <1>14 DEF Typed, Kept, RecvRtp
  <2>2. LiveSinks(p) \subseteq Players
    BY DEF Typed, LiveSinks
  <2>3. \A q \in PCs : \/ tasks'[q] = tasks[q] /\ given'[q] = given[q]
                       \/ q \in Players /\ given'[q] # {}
    BY <1>14, <2>2 DEF RecvRtp
  <2>4. sock' = sock /\ recving' = recving
    BY <1>14 DEF RecvRtp
  <2> QED BY <2>1, <2>3, <2>4 DEF Ported
<1> QED BY <1>1, <1>2, <1>3, <1>4, <1>5, <1>6, <1>7, <1>8, <1>9, <1>10, <1>11, <1>12, <1>13, <1>14
        DEF Next, Handler, Loop, Network, RunMedia

(* Types, lifetime and ports of every behaviour of the relay. *)
LEMMA LifeInvariant == Init /\ [][Next]_vars => [](Typed /\ Kept /\ Ported)
<1>1. Init => Typed /\ Kept /\ Ported
  BY TypedInit, LifeInit
<1>2. Typed /\ Kept /\ Ported /\ [Next]_vars => (Typed /\ Kept /\ Ported)'
  BY TypedStep, LifeStep
<1> QED BY <1>1, <1>2, PTL

(* No callback of libuv finds its PeerConnection destroyed: socket_.data and
   iceTimer.data point to an object that pcTable keeps. *)
THEOREM CallbackTargetAlwaysAlive == Spec => []CallbackTargetAlive
<1>1. Typed /\ Kept /\ Ported => CallbackTargetAlive
  BY DEF Kept, CallbackTargetAlive, Dead, Referenced
<1> QED BY <1>1, LifeInvariant, PTL DEF Spec

(* A publisher whose port is free receives on it, as its answer says, and so does
   every player that no media has overtaken. *)
THEOREM AdvertisedPortAlwaysOpen == Spec => []AdvertisedPortOpen
<1>1. Typed /\ Kept /\ Ported => AdvertisedPortOpen
  BY DEF Typed, Ported, AdvertisedPortOpen
<1> QED BY <1>1, LifeInvariant, PTL DEF Spec

-----------------------------------------------------------------------------
(* The queues of a connection.                                             *)

Waiting(p) == Range(tasks[p])
Queueing(p) == Range(sending[p])
Completing(p) == Range(sent[p])
Written(p) == Range(wire[p])

(* A connection's buffers are allocated ones, *)
Allocated(p) ==
  /\ Waiting(p) \subseteq 1..Len(heap) /\ Queueing(p) \subseteq 1..Len(heap)
  /\ Completing(p) \subseteq 1..Len(heap) /\ Written(p) \subseteq 1..Len(heap)
  /\ rejected[p] \subseteq 1..Len(heap)

(* each is in one of its queues, once, *)
Separate(p) ==
  /\ IsInjective(tasks[p]) /\ IsInjective(sending[p]) /\ IsInjective(sent[p])
  /\ IsInjective(wire[p])
  /\ Waiting(p) \cap Queueing(p) = {}
  /\ Waiting(p) \cap Written(p) = {}
  /\ Queueing(p) \cap Written(p) = {}
  /\ Completing(p) \subseteq Written(p)
  /\ rejected[p] \cap (Waiting(p) \cup Queueing(p) \cup Written(p)) = {}

(* and the media among them is what OnRTP has given it. *)
Accounted(p) ==
  /\ \A b \in Waiting(p) : heap[b] = "rtp"
  /\ given[p] = rejected[p] \cup Waiting(p)
                \cup {b \in Queueing(p) \cup Written(p) : heap[b] = "rtp"}

Queued(p) == Allocated(p) /\ Separate(p) /\ Accounted(p)

(* New buffers, the received one for a sink and the one behind it for a reply,
   disturb nothing. *)
LEMMA QueuedGrows ==
  ASSUME Typed, NEW q \in PCs, Queued(q),
         Len(heap') \in Nat, Len(heap) <= Len(heap'),
         \A b \in 1..Len(heap) : heap'[b] = heap[b],
         wire'[q] = wire[q], sent'[q] = sent[q], rejected'[q] = rejected[q],
         \/ tasks'[q] = tasks[q] /\ given'[q] = given[q]
         \/ /\ tasks'[q] = Append(tasks[q], Len(heap) + 1)
            /\ given'[q] = given[q] \cup {Len(heap) + 1}
            /\ heap'[Len(heap) + 1] = "rtp" /\ Len(heap) + 1 <= Len(heap'),
         \/ sending'[q] = sending[q]
         \/ /\ sending'[q] = Append(sending[q], Len(heap) + 2)
            /\ heap'[Len(heap) + 2] # "rtp" /\ Len(heap) + 2 <= Len(heap')
  PROVE  Queued(q)'
<1> DEFINE n == Len(heap)
           old == 1..n
           new == 1..Len(heap')
<1>1. /\ n \in Nat /\ n + 1 \in Nat /\ n + 2 \in Nat
      /\ tasks[q] \in Seq(Nat) /\ sending[q] \in Seq(Nat)
  BY DEF Typed
<1>2. /\ old \subseteq new /\ n + 1 \notin old /\ n + 2 \notin old /\ n + 1 # n + 2
      /\ n + 1 <= Len(heap') => n + 1 \in new
      /\ n + 2 <= Len(heap') => n + 2 \in new
  BY <1>1
<1>3. \/ Waiting(q)' = Waiting(q) /\ given'[q] = given[q] /\ IsInjective(tasks'[q])
      \/ /\ Waiting(q)' = Waiting(q) \cup {n + 1} /\ given'[q] = given[q] \cup {n + 1}
         /\ heap'[n + 1] = "rtp" /\ n + 1 \in new /\ IsInjective(tasks'[q])
  <2>1. CASE tasks'[q] = tasks[q] /\ given'[q] = given[q]
    BY <2>1 DEF Waiting, Queued, Separate
  <2>2. CASE ~(tasks'[q] = tasks[q] /\ given'[q] = given[q])
    <3>1. n + 1 \notin Range(tasks[q])
      BY <1>2 DEF Queued, Allocated, Waiting
    <3>2. /\ tasks'[q] = Append(tasks[q], n + 1) /\ given'[q] = given[q] \cup {n + 1}
          /\ heap'[n + 1] = "rtp" /\ n + 1 \in new
      BY <1>2, <2>2
    <3>3. IsInjective(tasks[q])
      BY DEF Queued, Separate
    <3> HIDE DEF n, new
    <3>4. /\ Range(Append(tasks[q], n + 1)) = Range(tasks[q]) \cup {n + 1}
          /\ IsInjective(Append(tasks[q], n + 1))
      <4> DEFINE b == n + 1
      <4>1. b \in Nat /\ tasks[q] \in Seq(Nat) /\ b \notin Range(tasks[q])
        BY <1>1, <3>1
      <4> HIDE DEF b
      <4>2. Range(Append(tasks[q], b)) = Range(tasks[q]) \cup {b} /\ IsInjective(Append(tasks[q], b))
        BY <4>1, <3>3, AppendHolds
      <4> QED BY <4>2 DEF b
    <3> QED BY <3>2, <3>4 DEF Waiting
  <2> QED BY <2>1, <2>2
<1>4. \/ Queueing(q)' = Queueing(q) /\ IsInjective(sending'[q])
      \/ /\ Queueing(q)' = Queueing(q) \cup {n + 2} /\ IsInjective(sending'[q])
         /\ heap'[n + 2] # "rtp" /\ n + 2 \in new
  <2>1. CASE sending'[q] = sending[q]
    BY <2>1 DEF Queueing, Queued, Separate
  <2>2. CASE sending'[q] # sending[q]
    <3>1. n + 2 \notin Range(sending[q])
      BY <1>2 DEF Queued, Allocated, Queueing
    <3>2. /\ sending'[q] = Append(sending[q], n + 2)
          /\ heap'[n + 2] # "rtp" /\ n + 2 \in new
      BY <1>2, <2>2
    <3>3. IsInjective(sending[q])
      BY DEF Queued, Separate
    <3> HIDE DEF n, new
    <3>4. /\ Range(Append(sending[q], n + 2)) = Range(sending[q]) \cup {n + 2}
          /\ IsInjective(Append(sending[q], n + 2))
      <4> DEFINE b == n + 2
      <4>1. b \in Nat /\ sending[q] \in Seq(Nat) /\ b \notin Range(sending[q])
        BY <1>1, <3>1
      <4> HIDE DEF b
      <4>2. Range(Append(sending[q], b)) = Range(sending[q]) \cup {b} /\ IsInjective(Append(sending[q], b))
        BY <4>1, <3>3, AppendHolds
      <4> QED BY <4>2 DEF b
    <3> QED BY <3>2, <3>4 DEF Queueing
  <2> QED BY <2>1, <2>2
<1>5. Written(q)' = Written(q) /\ Completing(q)' = Completing(q)
  BY DEF Written, Completing
<1>6. \A b \in old : heap'[b] = heap[b]
  OBVIOUS
<1> HIDE DEF n, old, new
<1>7. Allocated(q)'
  BY <1>2, <1>3, <1>4, <1>5 DEF Queued, Allocated, n, old, new
<1>8. Separate(q)'
  BY <1>2, <1>3, <1>4, <1>5 DEF Queued, Allocated, Separate, n, old
<1>9. Accounted(q)'
  BY <1>2, <1>3, <1>4, <1>5, <1>6 DEF Queued, Allocated, Accounted, n, old
<1> QED BY <1>7, <1>8, <1>9 DEF Queued

(* The queues of the connections a step leaves alone. *)
LEMMA QueuedStays ==
  ASSUME Typed, NEW q \in PCs, Queued(q), heap' = heap,
         tasks'[q] = tasks[q], sending'[q] = sending[q], sent'[q] = sent[q], wire'[q] = wire[q],
         given'[q] = given[q], rejected'[q] = rejected[q]
  PROVE  Queued(q)'
<1>1. Len(heap) \in Nat
  BY DEF Typed
<1> QED BY <1>1, QueuedGrows

(* A task moves its buffer from the tasks to the socket's queue. *)
LEMMA QueuedAccepted ==
  ASSUME Typed, NEW p \in PCs, Queued(p), RunMediaAccepted(p)
  PROVE  Queued(p)'
<1> DEFINE b == Head(tasks[p])
<1>1. /\ tasks[p] \in Seq(Nat) /\ tasks[p] # <<>> /\ sending[p] \in Seq(Nat)
      /\ tasks'[p] = Tail(tasks[p]) /\ sending'[p] = Append(sending[p], b)
      /\ heap' = heap /\ sent' = sent /\ wire' = wire /\ given' = given /\ rejected' = rejected
  BY DEF Typed, RunMediaAccepted, memory
<1>2. IsInjective(tasks[p]) /\ IsInjective(sending[p])
  BY DEF Queued, Separate
<1>3. /\ b \in Nat /\ Waiting(p) = Waiting(p)' \cup {b}
      /\ IsInjective(tasks'[p]) /\ b \notin Waiting(p)'
  BY <1>1, <1>2, TailHolds DEF Waiting
<1> HIDE DEF b
<1>4. b \notin Range(sending[p])
  BY <1>3 DEF Queued, Separate, Queueing
<1>5. Queueing(p)' = Queueing(p) \cup {b} /\ IsInjective(sending'[p])
  <2>1. Range(Append(sending[p], b)) = Range(sending[p]) \cup {b} /\ IsInjective(Append(sending[p], b))
    BY ONLY <1>1, <1>2, <1>3, <1>4, AppendHolds
  <2> QED BY <1>1, <2>1 DEF Queueing
<1>6. Written(p)' = Written(p) /\ Completing(p)' = Completing(p)
  BY <1>1 DEF Written, Completing
<1>7. Allocated(p)'
  BY <1>1, <1>3, <1>5, <1>6 DEF Queued, Allocated
<1>8. Separate(p)'
  BY <1>1, <1>2, <1>3, <1>5, <1>6 DEF Queued, Separate
<1>9. Accounted(p)'
  BY <1>1, <1>3, <1>5, <1>6 DEF Queued, Accounted
<1> QED BY <1>7, <1>8, <1>9 DEF Queued

(* A refused one is gone from the tasks for good. *)
LEMMA QueuedRefused ==
  ASSUME Typed, NEW p \in PCs, Queued(p), RunMediaRefused(p)
  PROVE  Queued(p)'
<1> DEFINE b == Head(tasks[p])
<1>1. /\ tasks[p] \in Seq(Nat) /\ tasks[p] # <<>>
      /\ tasks'[p] = Tail(tasks[p]) /\ rejected'[p] = rejected[p] \cup {b}
      /\ heap' = heap /\ sending' = sending /\ sent' = sent /\ wire' = wire /\ given' = given
  BY DEF Typed, RunMediaRefused, memory, socket
<1>2. IsInjective(tasks[p])
  BY DEF Queued, Separate
<1>3. /\ b \in Nat /\ Waiting(p) = Waiting(p)' \cup {b}
      /\ IsInjective(tasks'[p]) /\ b \notin Waiting(p)'
  BY <1>1, <1>2, TailHolds DEF Waiting
<1> HIDE DEF b
<1>4. Queueing(p)' = Queueing(p) /\ Written(p)' = Written(p) /\ Completing(p)' = Completing(p)
  BY <1>1 DEF Queueing, Written, Completing
<1>5. Allocated(p)'
  BY <1>1, <1>3, <1>4 DEF Queued, Allocated
<1>6. Separate(p)'
  BY <1>1, <1>2, <1>3, <1>4 DEF Queued, Separate
<1>7. Accounted(p)'
  BY <1>1, <1>3, <1>4 DEF Queued, Accounted
<1> QED BY <1>5, <1>6, <1>7 DEF Queued

(* A write takes the socket's next buffer to the wire; its send_u is due. *)
LEMMA QueuedWritten ==
  ASSUME Typed, NEW p \in PCs, Queued(p), UdpWrite(p)
  PROVE  Queued(p)'
<1> DEFINE b == Head(sending[p])
<1>1. /\ sending[p] \in Seq(Nat) /\ sending[p] # <<>> /\ sent[p] \in Seq(Nat)
      /\ wire[p] \in Seq(Nat) /\ sending'[p] = Tail(sending[p])
      /\ sent'[p] = Append(sent[p], b) /\ wire'[p] = Append(wire[p], b)
      /\ heap' = heap /\ tasks' = tasks /\ given' = given /\ rejected' = rejected
  BY DEF Typed, UdpWrite
<1>2. IsInjective(sending[p]) /\ IsInjective(sent[p]) /\ IsInjective(wire[p])
  BY DEF Queued, Separate
<1>3. /\ b \in Nat /\ Queueing(p) = Queueing(p)' \cup {b}
      /\ IsInjective(sending'[p]) /\ b \notin Queueing(p)'
  BY <1>1, <1>2, TailHolds DEF Queueing
<1> HIDE DEF b
<1>4. b \notin Completing(p) /\ b \notin Written(p)
  BY <1>3 DEF Queued, Separate
<1>5. Completing(p)' = Completing(p) \cup {b} /\ IsInjective(sent'[p])
  <2>1. Range(Append(sent[p], b)) = Range(sent[p]) \cup {b} /\ IsInjective(Append(sent[p], b))
    <3>1. sent[p] \in Seq(Nat) /\ b \in Nat /\ b \notin Range(sent[p]) /\ IsInjective(sent[p])
      BY <1>1, <1>2, <1>3, <1>4 DEF Completing
    <3> QED BY ONLY <3>1, AppendHolds
  <2> QED BY <1>1, <2>1 DEF Completing
<1>6. Written(p)' = Written(p) \cup {b} /\ IsInjective(wire'[p]) /\ Waiting(p)' = Waiting(p)
  <2>1. Range(Append(wire[p], b)) = Range(wire[p]) \cup {b} /\ IsInjective(Append(wire[p], b))
    <3>1. wire[p] \in Seq(Nat) /\ b \in Nat /\ b \notin Range(wire[p]) /\ IsInjective(wire[p])
      BY <1>1, <1>2, <1>3, <1>4 DEF Written
    <3> QED BY ONLY <3>1, AppendHolds
  <2> QED BY <1>1, <2>1 DEF Written, Waiting
<1>7. Allocated(p)'
  BY <1>1, <1>3, <1>5, <1>6 DEF Queued, Allocated
<1>8. Separate(p)'
  BY <1>1, <1>2, <1>3, <1>5, <1>6 DEF Queued, Separate
<1>9. Accounted(p)'
  BY <1>1, <1>3, <1>5, <1>6 DEF Queued, Accounted
<1> QED BY <1>7, <1>8, <1>9 DEF Queued

(* send_u takes the oldest written buffer. *)
LEMMA QueuedFreed ==
  ASSUME Typed, NEW p \in PCs, Queued(p), SendCb(p)
  PROVE  Queued(p)'
<1> DEFINE b == Head(sent[p])
<1>1. /\ sent[p] \in Seq(Nat) /\ sent[p] # <<>> /\ sent'[p] = Tail(sent[p])
      /\ heap' = heap /\ tasks' = tasks /\ sending' = sending /\ wire' = wire
      /\ given' = given /\ rejected' = rejected
  BY DEF Typed, SendCb
<1>2. IsInjective(sent[p])
  BY DEF Queued, Separate
<1>3. Completing(p)' \subseteq Completing(p) /\ IsInjective(sent'[p])
  BY <1>1, <1>2, TailHolds DEF Completing
<1>4. Written(p)' = Written(p) /\ Waiting(p)' = Waiting(p) /\ Queueing(p)' = Queueing(p)
  BY <1>1 DEF Written, Waiting, Queueing
<1>5. Allocated(p)'
  BY <1>1, <1>3, <1>4 DEF Queued, Allocated
<1>6. Separate(p)'
  BY <1>1, <1>2, <1>3, <1>4 DEF Queued, Separate
<1>7. Accounted(p)'
  BY <1>1, <1>3, <1>4 DEF Queued, Accounted
<1> QED BY <1>5, <1>6, <1>7 DEF Queued

(* What a datagram adds to the queues: a reply to the receiver's socket, and the
   datagram itself, when it is RTP, to the tasks of sinks. *)
LEMMA QueuedReceived ==
  ASSUME Typed, NEW p \in PCs, NEW q \in PCs, Queued(q),
         NEW kind \in Kinds, NEW reply \in {"reply", "feedback"},
         NEW replies, replies = <<>> \/ replies = <<reply>>, Receive(p, kind, replies),
         wire' = wire, sent' = sent, rejected' = rejected,
         \/ tasks'[q] = tasks[q] /\ given'[q] = given[q]
         \/ /\ tasks'[q] = Append(tasks[q], Len(heap) + 1)
            /\ given'[q] = given[q] \cup {Len(heap) + 1} /\ kind = "rtp"
  PROVE  Queued(q)'
<1>1. reply \in Kinds /\ reply # "rtp"
  BY DEF Kinds
<1>2. /\ Len(heap) \in Nat /\ Len(heap') \in Nat
      /\ \A b \in 1..Len(heap) : heap'[b] = heap[b]
      /\ heap'[Len(heap) + 1] = kind
      /\ \/ Len(heap') = Len(heap) + 1 /\ sending' = sending
         \/ /\ Len(heap') = Len(heap) + 2 /\ heap'[Len(heap) + 2] = reply
            /\ sending' = [sending EXCEPT ![p] = Append(sending[p], Len(heap) + 2)]
  BY <1>1, Received1
<1>3. \/ sending'[q] = sending[q]
      \/ /\ sending'[q] = Append(sending[q], Len(heap) + 2)
         /\ heap'[Len(heap) + 2] # "rtp" /\ Len(heap) + 2 <= Len(heap')
  <2>1. sending \in [PCs -> Seq(Nat)]
    BY DEF Typed
  <2>2. Len(heap') = Len(heap) + 2 => Len(heap) + 2 <= Len(heap')
    BY ONLY <1>2
  <2> QED BY ONLY <1>1, <1>2, <2>1, <2>2, p \in PCs, q \in PCs
<1>4. Len(heap) <= Len(heap') /\ Len(heap) + 1 <= Len(heap')
  BY <1>2
<1> QED BY <1>2, <1>3, <1>4, QueuedGrows

(* Every connection's queues are in order at first, *)
LEMMA QueuedInit == Init => \A p \in PCs : Queued(p)
  BY EmptyHolds DEF Init, Queued, Allocated, Separate, Accounted, Waiting, Queueing, Completing,
                    Written

(* and after every step. *)
LEMMA QueuedStep ==
  Typed /\ (\A p \in PCs : Queued(p)) /\ [Next]_vars => (\A p \in PCs : Queued(p))'
<1> SUFFICES ASSUME Typed, \A p \in PCs : Queued(p), [Next]_vars, NEW q \in PCs PROVE Queued(q)'
  OBVIOUS
<1>1. Queued(q)
  OBVIOUS
<1> USE DEF signaling, memory, socket
<1>2. CASE UNCHANGED <<heap, tasks, sending, sent, wire, given, rejected>>
  BY <1>1, <1>2, QueuedStays
<1>3. ASSUME NEW p \in PCs, RunMediaAccepted(p) PROVE Queued(q)'
  <2>1. CASE q = p
    BY <1>1, <1>3, <2>1, QueuedAccepted
  <2>2. CASE q # p
    BY <1>1, <1>3, <2>2, QueuedStays DEF Typed, RunMediaAccepted
  <2> QED BY <2>1, <2>2
<1>4. ASSUME NEW p \in PCs, RunMediaRefused(p) PROVE Queued(q)'
  <2>1. CASE q = p
    BY <1>1, <1>4, <2>1, QueuedRefused
  <2>2. CASE q # p
    BY <1>1, <1>4, <2>2, QueuedStays DEF Typed, RunMediaRefused
  <2> QED BY <2>1, <2>2
<1>5. ASSUME NEW p \in PCs, UdpWrite(p) PROVE Queued(q)'
  <2>1. CASE q = p
    BY <1>1, <1>5, <2>1, QueuedWritten
  <2>2. CASE q # p
    BY <1>1, <1>5, <2>2, QueuedStays DEF Typed, UdpWrite
  <2> QED BY <2>1, <2>2
<1>6. ASSUME NEW p \in PCs, SendCb(p) PROVE Queued(q)'
  <2>1. CASE q = p
    BY <1>1, <1>6, <2>1, QueuedFreed
  <2>2. CASE q # p
    BY <1>1, <1>6, <2>2, QueuedStays DEF Typed, SendCb
  <2> QED BY <2>1, <2>2
<1>7. ASSUME NEW p \in PCs, NEW w \in BOOLEAN, RecvStun(p, w) PROVE Queued(q)'
  <2>1. PICK replies : (replies = <<>> \/ replies = <<"reply">>) /\ Receive(p, "stun", replies)
    BY <1>7 DEF RecvStun
  <2>2. wire' = wire /\ sent' = sent /\ rejected' = rejected /\ tasks' = tasks /\ given' = given
    BY <1>7 DEF RecvStun
  <2> QED BY <1>1, <2>1, <2>2, QueuedReceived DEF Kinds
<1>8. ASSUME NEW p \in PCs, RecvRtcp(p) PROVE Queued(q)'
  BY <1>1, <1>8, QueuedReceived DEF Kinds, RecvRtcp
<1>9. ASSUME NEW p \in PCs, NEW tcc \in BOOLEAN, RecvRtp(p, tcc) PROVE Queued(q)'
  <2>1. PICK replies : (replies = <<>> \/ replies = <<"feedback">>) /\ Receive(p, "rtp", replies)
    BY <1>9 DEF RecvRtp, Feedback
  <2>2. wire' = wire /\ sent' = sent /\ rejected' = rejected
    BY <1>9 DEF RecvRtp
  <2>3. \/ tasks'[q] = tasks[q] /\ given'[q] = given[q]
        \/ /\ tasks'[q] = Append(tasks[q], Len(heap) + 1)
           /\ given'[q] = given[q] \cup {Len(heap) + 1}
    BY <1>9 DEF RecvRtp, OnMediaData, Received
  <2> QED BY <1>1, <2>1, <2>2, <2>3, QueuedReceived DEF Kinds
<1> QED BY <1>2, <1>3, <1>4, <1>5, <1>6, <1>7, <1>8, <1>9
        DEF Next, Handler, Loop, Network, RunMedia, vars, Construct, AddStream, CreateAnswer,
            CreateAnswerThrows, Start, RunStart

(* The queues are in order in every behaviour. *)
LEMMA QueuedInvariant == Init /\ [][Next]_vars => [](Typed /\ \A p \in PCs : Queued(p))
<1>1. Init => Typed /\ \A p \in PCs : Queued(p)
  BY TypedInit, QueuedInit
<1>2. (Typed /\ \A p \in PCs : Queued(p)) /\ [Next]_vars => (Typed /\ \A p \in PCs : Queued(p))'
  BY TypedStep, QueuedStep
<1> QED BY <1>1, <1>2, PTL

(* Whatever the order in which the loops run, every packet handed to a player is
   waiting, queued or written, or was refused for want of an address, and none
   of them twice. *)
THEOREM MediaAlwaysConserved == Spec => []MediaConserved
<1>1. Typed /\ (\A p \in PCs : Queued(p)) => MediaConserved
  <2> SUFFICES ASSUME Typed, NEW p \in Players, Queued(p)
               PROVE  /\ Media(Pipeline(p)) \cup rejected[p] = given[p]
                      /\ Media(Pipeline(p)) \cap rejected[p] = {}
                      /\ \A i, j \in 1..Len(Pipeline(p)) : Pipeline(p)[i] = Pipeline(p)[j] => i = j
    BY DEF MediaConserved, PCs
  <2>1. /\ wire[p] \in Seq(Nat) /\ sending[p] \in Seq(Nat) /\ tasks[p] \in Seq(Nat)
        /\ IsInjective(wire[p]) /\ IsInjective(sending[p]) /\ IsInjective(tasks[p])
        /\ Range(wire[p]) \cap Range(sending[p]) = {}
    BY DEF Typed, PCs, Queued, Separate, Queueing, Written
  <2> DEFINE first == wire[p] \o sending[p]
  <2>2. /\ first \in Seq(Nat) /\ IsInjective(first)
        /\ Range(first) = Written(p) \cup Queueing(p)
    BY <2>1, ConcatInjective DEF Written, Queueing
  <2>3. Pipeline(p) = first \o tasks[p]
    BY DEF Pipeline
  <2> HIDE DEF first
  <2>4. Range(first) \cap Range(tasks[p]) = {}
    BY <2>2 DEF Queued, Separate, Waiting
  <2>5. /\ Pipeline(p) \in Seq(Nat) /\ IsInjective(Pipeline(p))
        /\ \A b : (\E i \in 1..Len(Pipeline(p)) : Pipeline(p)[i] = b)
                  <=> b \in Written(p) \cup Queueing(p) \cup Waiting(p)
    <3>1. first \o tasks[p] \in Seq(Nat) /\ IsInjective(first \o tasks[p])
      BY <2>1, <2>2, <2>4, ConcatInjective
    <3>2. \A b : (\E i \in 1..Len(first \o tasks[p]) : (first \o tasks[p])[i] = b)
                 <=> b \in Range(first) \cup Range(tasks[p])
      BY <2>1, <2>2, ConcatHolds
    <3> QED BY <2>2, <2>3, <3>1, <3>2 DEF Waiting
  <2>6. \A i, j \in 1..Len(Pipeline(p)) : Pipeline(p)[i] = Pipeline(p)[j] => i = j
    BY <2>5 DEF IsInjective
  <2>7. Media(Pipeline(p)) = {b \in Written(p) \cup Queueing(p) \cup Waiting(p) : heap[b] = "rtp"}
    BY <2>5 DEF Media
  <2> QED BY <2>6, <2>7 DEF Queued, Separate, Accounted
<1> QED BY <1>1, QueuedInvariant, PTL DEF Spec

-----------------------------------------------------------------------------
(* Ownership of the buffers, which OnRTP hands to every sink.              *)

(* No stream has two sinks at once. *)
OneSinkEach == \A s \in Publishers : \A p, q \in sinks[s] : p = q

Held(p) == Waiting(p) \cup Queueing(p) \cup Completing(p)

(* No buffer is held by two connections, or freed while one holds it. *)
Owned ==
  /\ bad = {}
  /\ freed \subseteq 1..Len(heap)
  /\ \A p \in PCs : Held(p) \cap freed = {}
  /\ \A p, q \in PCs : p # q => Held(p) \cap Held(q) = {}

(* A step of p that takes nothing from the others and frees nothing. *)
LEMMA OwnedStays ==
  ASSUME Owned, NEW p \in PCs, heap' = heap, freed' = freed, bad' = {},
         Held(p)' \subseteq Held(p), \A q \in PCs : q # p => Held(q)' = Held(q)
  PROVE  Owned'
<1>1. \A q \in PCs : Held(q)' \subseteq Held(q)
  OBVIOUS
<1> QED BY <1>1 DEF Owned

(* The other connections hold what they held. *)
LEMMA HeldStays ==
  ASSUME NEW q \in PCs, tasks'[q] = tasks[q], sending'[q] = sending[q], sent'[q] = sent[q]
  PROVE  Held(q)' = Held(q)
  BY DEF Held, Waiting, Queueing, Completing

(* A task, run or refused, passes its buffer on or drops it. *)
LEMMA OwnedMedia ==
  ASSUME Typed, Owned, NEW p \in PCs, RunMedia(p)
  PROVE  Owned'
<1> DEFINE b == Head(tasks[p])
<1>1. /\ tasks[p] \in Seq(Nat) /\ tasks[p] # <<>> /\ sending[p] \in Seq(Nat)
      /\ tasks'[p] = Tail(tasks[p])
      /\ sending'[p] = sending[p] \/ sending'[p] = Append(sending[p], b)
      /\ heap' = heap /\ freed' = freed /\ bad' = bad /\ sent' = sent
      /\ \A q \in PCs : q # p => tasks'[q] = tasks[q] /\ sending'[q] = sending[q]
  BY DEF Typed, RunMedia, RunMediaAccepted, RunMediaRefused, memory, socket
<1>2. b \in Nat /\ Waiting(p) = Waiting(p)' \cup {b}
  BY <1>1, TailHolds DEF Waiting
<1> HIDE DEF b
<1>3. Queueing(p)' \subseteq Queueing(p) \cup {b}
  <2>1. sending[p] \in Seq(Nat) /\ b \in Nat
    BY <1>1, <1>2
  <2>2. Range(Append(sending[p], b)) = Range(sending[p]) \cup {b}
    BY <2>1, AppendHolds
  <2> QED BY <1>1, <2>2 DEF Queueing
<1>4. Held(p)' \subseteq Held(p)
  BY <1>1, <1>2, <1>3 DEF Held, Completing
<1>5. \A q \in PCs : q # p => Held(q)' = Held(q)
  BY <1>1, HeldStays
<1> QED BY <1>1, <1>4, <1>5, OwnedStays DEF Owned

(* A write reads a buffer that nobody has freed. *)
LEMMA OwnedWritten ==
  ASSUME Typed, Owned, NEW p \in PCs, UdpWrite(p)
  PROVE  Owned'
<1> DEFINE b == Head(sending[p])
<1>1. /\ sending[p] \in Seq(Nat) /\ sending[p] # <<>> /\ sent[p] \in Seq(Nat)
      /\ sending'[p] = Tail(sending[p]) /\ sent'[p] = Append(sent[p], b)
      /\ heap' = heap /\ freed' = freed /\ tasks' = tasks
      /\ bad' = bad \cup (IF b \in freed THEN {"use after free"} ELSE {})
      /\ \A q \in PCs : q # p => sending'[q] = sending[q] /\ sent'[q] = sent[q]
  BY DEF Typed, UdpWrite
<1>2. b \in Nat /\ Queueing(p) = Queueing(p)' \cup {b}
  BY <1>1, TailHolds DEF Queueing
<1> HIDE DEF b
<1>3. Completing(p)' = Completing(p) \cup {b}
  <2>1. sent[p] \in Seq(Nat) /\ b \in Nat
    BY <1>1, <1>2
  <2>2. Range(Append(sent[p], b)) = Range(sent[p]) \cup {b}
    BY <2>1, AppendHolds
  <2> QED BY <1>1, <2>2 DEF Completing
<1>4. Held(p)' \subseteq Held(p) /\ b \in Held(p)
  BY <1>1, <1>2, <1>3 DEF Held, Waiting
<1>5. bad' = {}
  BY <1>1, <1>4 DEF Owned
<1>6. \A q \in PCs : q # p => Held(q)' = Held(q)
  BY <1>1, HeldStays
<1> QED BY <1>1, <1>4, <1>5, <1>6, OwnedStays

(* send_u frees a buffer that was nobody else's. *)
LEMMA OwnedFreed ==
  ASSUME Typed, Owned, NEW p \in PCs, Queued(p), SendCb(p)
  PROVE  Owned'
<1> DEFINE b == Head(sent[p])
<1>1. /\ sent[p] \in Seq(Nat) /\ sent[p] # <<>> /\ sent'[p] = Tail(sent[p])
      /\ heap' = heap /\ tasks' = tasks /\ sending' = sending /\ freed' = freed \cup {b}
      /\ bad' = bad \cup (IF b \in freed THEN {"double free"} ELSE {})
      /\ \A q \in PCs : q # p => sent'[q] = sent[q]
  BY DEF Typed, SendCb, Free
<1>2. /\ Completing(p) = Completing(p)' \cup {b} /\ b \notin Completing(p)'
  BY <1>1, TailHolds DEF Queued, Separate, Completing
<1> HIDE DEF b
<1>3. Waiting(p)' = Waiting(p) /\ Queueing(p)' = Queueing(p)
  BY <1>1 DEF Waiting, Queueing
<1>4. b \in Held(p) /\ Held(p)' \subseteq Held(p) /\ b \notin Held(p)'
  BY <1>2, <1>3 DEF Held, Queued, Separate
<1>5. \A q \in PCs : q # p => Held(q)' = Held(q) /\ b \notin Held(q)
  BY <1>1, <1>4, HeldStays DEF Owned
<1>6. bad' = {} /\ b \in 1..Len(heap)
  BY <1>1, <1>2, <1>4 DEF Owned, Queued, Allocated
<1>7. \A q \in PCs : Held(q)' \subseteq Held(q) /\ b \notin Held(q)'
  BY <1>4, <1>5
<1>8. ASSUME NEW q \in PCs, NEW x \in Held(q)' PROVE x \notin freed'
  <2>1. x \in Held(q) /\ x # b
    BY <1>7, <1>8
  <2>2. x \notin freed
    BY <2>1 DEF Owned
  <2> QED BY <1>1, <2>1, <2>2
<1>9. \A q, r \in PCs : q # r => Held(q)' \cap Held(r)' = {}
  BY <1>7 DEF Owned
<1>10. freed' \subseteq 1..Len(heap')
  BY <1>1, <1>6 DEF Owned
<1> QED BY <1>6, <1>8, <1>9, <1>10 DEF Owned

(* A datagram is new: its buffer goes to one sink at most, its reply's to the
   receiver's socket. *)
LEMMA OwnedReceived ==
  ASSUME Typed, Owned, \A q \in PCs : Queued(q), NEW p \in PCs,
         NEW kind \in Kinds, NEW reply \in Kinds,
         NEW replies, replies = <<>> \/ replies = <<reply>>, Receive(p, kind, replies),
         sent' = sent, freed' = freed, bad' = bad,
         NEW T, \A q, r \in T : q = r,
         \A q \in PCs : tasks'[q] = IF q \in T THEN Append(tasks[q], Len(heap) + 1) ELSE tasks[q]
  PROVE  Owned'
<1> DEFINE n == Len(heap)
<1>1. /\ n \in Nat /\ n + 1 \in Nat /\ n + 2 \in Nat /\ Len(heap') \in Nat /\ n <= Len(heap')
      /\ sending' = sending \/ sending' = [sending EXCEPT ![p] = Append(sending[p], n + 2)]
  BY Received1
<1>2. /\ \A q \in PCs : tasks[q] \in Seq(Nat) /\ sending[q] \in Seq(Nat)
      /\ sending \in [PCs -> Seq(Nat)]
  BY DEF Typed
<1>3. \A q \in PCs : tasks'[q] = IF q \in T THEN Append(tasks[q], n + 1) ELSE tasks[q]
  OBVIOUS
<1>4. n + 1 \notin 1..n /\ n + 2 \notin 1..n /\ n + 1 # n + 2 /\ 1..n \subseteq 1..Len(heap')
  BY <1>1
<1> DEFINE new == n + 1
           next == n + 2
           old == 1..n
<1>5. \A q \in PCs : Held(q) \subseteq old
  BY DEF Held, Queued, Allocated
<1>6. freed \subseteq old /\ old \subseteq 1..Len(heap')
  BY <1>4 DEF Owned
<1> HIDE DEF n, new, next, old
<1>7. \A q \in PCs : /\ Waiting(q)' \subseteq Waiting(q) \cup (IF q \in T THEN {new} ELSE {})
                     /\ Queueing(q)' \subseteq Queueing(q) \cup (IF q = p THEN {next} ELSE {})
                     /\ Completing(q)' = Completing(q)
  <2> SUFFICES ASSUME NEW q \in PCs
               PROVE  /\ Waiting(q)' \subseteq Waiting(q) \cup (IF q \in T THEN {new} ELSE {})
                      /\ Queueing(q)' \subseteq Queueing(q) \cup (IF q = p THEN {next} ELSE {})
                      /\ Completing(q)' = Completing(q)
    OBVIOUS
  <2>1. new \in Nat /\ next \in Nat /\ tasks[q] \in Seq(Nat) /\ sending[q] \in Seq(Nat)
    BY <1>1, <1>2 DEF new, next
  <2>2. Range(Append(tasks[q], new)) = Range(tasks[q]) \cup {new}
    BY <2>1, AppendHolds
  <2>3. Range(Append(sending[q], next)) = Range(sending[q]) \cup {next}
    BY <2>1, AppendHolds
  <2>4. tasks'[q] = IF q \in T THEN Append(tasks[q], new) ELSE tasks[q]
    BY <1>3 DEF new
  <2>5. sending'[q] = sending[q] \/ (q = p /\ sending'[q] = Append(sending[q], next))
    BY <1>1, <1>2 DEF next
  <2> QED BY <2>2, <2>3, <2>4, <2>5 DEF Waiting, Queueing, Completing
<1>8. \A q \in PCs : Held(q)' \subseteq Held(q) \cup (IF q \in T THEN {new} ELSE {})
                                           \cup (IF q = p THEN {next} ELSE {})
  BY <1>7 DEF Held
<1>9. new \notin old /\ next \notin old /\ new # next
  BY <1>4 DEF new, next, old
<1>10. ASSUME NEW q \in PCs, NEW x \in Held(q)' PROVE x \notin freed'
  <2>1. x \in Held(q) \/ x \notin old
    BY <1>8, <1>9, <1>10
  <2>2. x \in Held(q) => x \notin freed
    BY DEF Owned
  <2> QED BY <1>6, <2>1, <2>2
<1>11. ASSUME NEW q \in PCs, NEW r \in PCs, q # r, NEW x \in Held(q)', x \in Held(r)' PROVE FALSE
  <2>1. CASE x \in old
    BY <1>8, <1>9, <1>11, <2>1 DEF Owned
  <2>2. CASE x \notin old
    BY <1>5, <1>8, <1>9, <1>11, <2>2
  <2> QED BY <2>1, <2>2
<1>12. freed' \subseteq 1..Len(heap')
  BY <1>6
<1> QED BY <1>10, <1>11, <1>12 DEF Owned

(* Nothing is held or freed at first. *)
LEMMA OwnedInit == Init => Owned
  BY EmptyHolds DEF Init, Owned, Held, Waiting, Queueing, Completing

(* While no stream has two sinks, every step keeps each buffer with its owner. *)
LEMMA OwnedStep ==
  Typed /\ (\A p \in PCs : Queued(p)) /\ Owned /\ OneSinkEach /\ [Next]_vars => Owned'
<1> SUFFICES ASSUME Typed, \A p \in PCs : Queued(p), Owned, OneSinkEach, [Next]_vars PROVE Owned'
  OBVIOUS
<1> USE DEF signaling, memory, socket
<1>1. CASE UNCHANGED <<heap, freed, bad, tasks, sending, sent>>
  BY <1>1 DEF Owned, Held, Waiting, Queueing, Completing
<1>2. ASSUME NEW p \in PCs, RunMedia(p) PROVE Owned'
  BY <1>2, OwnedMedia
<1>3. ASSUME NEW p \in PCs, UdpWrite(p) PROVE Owned'
  BY <1>3, OwnedWritten
<1>4. ASSUME NEW p \in PCs, SendCb(p) PROVE Owned'
  BY <1>4, OwnedFreed
<1>5. ASSUME NEW p \in PCs, NEW w \in BOOLEAN, RecvStun(p, w) PROVE Owned'
  <2>1. PICK replies : (replies = <<>> \/ replies = <<"reply">>) /\ Receive(p, "stun", replies)
    BY <1>5 DEF RecvStun
  <2>2. sent' = sent /\ freed' = freed /\ bad' = bad /\ tasks' = tasks
    BY <1>5 DEF RecvStun
  <2> DEFINE T == {}
  <2>3. \A q \in PCs : tasks'[q] = IF q \in T THEN Append(tasks[q], Len(heap) + 1) ELSE tasks[q]
    BY <2>2
  <2>4. "stun" \in Kinds /\ "reply" \in Kinds /\ \A q, r \in T : q = r
    BY DEF Kinds
  <2> HIDE DEF T
  <2> QED BY <2>1, <2>2, <2>3, <2>4, OwnedReceived
<1>6. ASSUME NEW p \in PCs, RecvRtcp(p) PROVE Owned'
  <2>1. PICK replies : (replies = <<>> \/ replies = <<"reply">>) /\ Receive(p, "rtcp", replies)
    BY <1>6 DEF RecvRtcp
  <2>2. sent' = sent /\ freed' = freed /\ bad' = bad /\ tasks' = tasks
    BY <1>6 DEF RecvRtcp
  <2> DEFINE T == {}
  <2>3. \A q \in PCs : tasks'[q] = IF q \in T THEN Append(tasks[q], Len(heap) + 1) ELSE tasks[q]
    BY <2>2
  <2>4. "rtcp" \in Kinds /\ "reply" \in Kinds /\ \A q, r \in T : q = r
    BY DEF Kinds
  <2> HIDE DEF T
  <2> QED BY <2>1, <2>2, <2>3, <2>4, OwnedReceived
<1>7. ASSUME NEW p \in PCs, NEW tcc \in BOOLEAN, RecvRtp(p, tcc) PROVE Owned'
  <2>1. PICK replies : (replies = <<>> \/ replies = <<"feedback">>) /\ Receive(p, "rtp", replies)
    BY <1>7 DEF RecvRtp, Feedback
  <2>2. sent' = sent /\ freed' = freed /\ bad' = bad
    BY <1>7 DEF RecvRtp
  <2> DEFINE T == {q \in LiveSinks(p) : hasRemote[p]}
  <2>3. \A q, r \in T : q = r
    BY DEF LiveSinks, OneSinkEach
  <2>4. \A q \in PCs : tasks'[q] = IF q \in T THEN Append(tasks[q], Len(heap) + 1) ELSE tasks[q]
    BY <1>7 DEF RecvRtp, OnMediaData, Received
  <2>5. "rtp" \in Kinds /\ "feedback" \in Kinds
    BY DEF Kinds
  <2> HIDE DEF T
  <2> QED BY <2>1, <2>2, <2>3, <2>4, <2>5, OwnedReceived
<1> QED BY <1>1, <1>2, <1>3, <1>4, <1>5, <1>6, <1>7
        DEF Next, Handler, Loop, Network, vars, Construct, AddStream, CreateAnswer,
            CreateAnswerThrows, Start, RunStart

(* The buffers have one owner each in every behaviour in which no stream has two
   sinks at once. *)
LEMMA OwnedInvariant ==
  Init /\ [][Next]_vars /\ []OneSinkEach => [](Typed /\ (\A p \in PCs : Queued(p)) /\ Owned)
<1> DEFINE Q == \A p \in PCs : Queued(p)
<1>1. Init => Typed /\ Q /\ Owned
  BY TypedInit, QueuedInit, OwnedInit
<1>2. (Typed /\ Q /\ Owned) /\ OneSinkEach /\ [Next]_vars => (Typed /\ Q /\ Owned)'
  BY TypedStep, QueuedStep, OwnedStep
<1> QED BY <1>1, <1>2, PTL

(* What the queues of p hold of a buffer b, in the terms of SoleOwner. *)
LEMMA HoldsFacts ==
  ASSUME Typed, NEW p \in PCs, Queued(p), NEW b
  PROVE  \A x \in Holds(p, b) : b \in Held(p) /\ x[1] = p /\ \A y \in Holds(p, b) : x = y
<1> DEFINE two == tasks[p] \o sending[p]
           queue == two \o sent[p]
<1>1. tasks[p] \in Seq(Nat) /\ sending[p] \in Seq(Nat) /\ sent[p] \in Seq(Nat)
  BY DEF Typed
<1>2. two \in Seq(Nat) /\ IsInjective(two) /\ Range(two) = Waiting(p) \cup Queueing(p)
  BY <1>1, ConcatInjective DEF Queued, Separate, Waiting, Queueing
<1> HIDE DEF two
<1>3. Range(two) \cap Range(sent[p]) = {} /\ IsInjective(sent[p])
  BY <1>2 DEF Queued, Separate, Completing
<1>4. queue \in Seq(Nat) /\ IsInjective(queue) /\ Range(queue) = Held(p)
  BY <1>1, <1>2, <1>3, ConcatInjective DEF Held, Completing
<1>5. Holds(p, b) = {<<p, i>> : i \in {j \in 1..Len(queue) : queue[j] = b}}
  BY DEF Holds, two
<1> HIDE DEF queue
<1>6. DOMAIN queue = 1..Len(queue)
  BY <1>4
<1>7. \A i, j \in 1..Len(queue) : queue[i] = b /\ queue[j] = b => i = j /\ b \in Held(p)
  BY <1>4, <1>6 DEF IsInjective, Range
<1> QED BY <1>5, <1>7

(* While no stream has two sinks, no buffer is read or freed after send_u has
   freed it: the publisher's and the player's loop never share one. *)
THEOREM OneSinkBuffersSound == Spec /\ []OneSinkEach => []BuffersSound
<1>1. Owned => BuffersSound
  BY DEF Owned, BuffersSound
<1> QED BY <1>1, OwnedInvariant, PTL DEF Spec

(* While no stream has two sinks, a buffer on its way to a socket has one
   reference, and is not freed. *)
THEOREM OneSinkSoleOwner == Spec /\ []OneSinkEach => []SoleOwner
<1>1. Typed /\ (\A p \in PCs : Queued(p)) /\ Owned => SoleOwner
  <2> SUFFICES ASSUME Typed, \A p \in PCs : Queued(p), Owned, NEW b \in Bufs
               PROVE  LET holders == UNION {Holds(p, b) : p \in PCs}
                      IN  Cardinality(holders) <= 1 /\ (holders # {} => b \notin freed)
    BY DEF SoleOwner
  <2> DEFINE holders == UNION {Holds(p, b) : p \in PCs}
  <2>1. \A p \in PCs : \A x \in Holds(p, b) :
           b \in Held(p) /\ x[1] = p /\ \A y \in Holds(p, b) : x = y
    BY HoldsFacts
  <2>2. \A p, q \in PCs : b \in Held(p) /\ b \in Held(q) => p = q
    BY DEF Owned
  <2>3. ASSUME NEW x \in holders, NEW y \in holders PROVE x = y
    BY <2>1, <2>2
  <2>4. holders # {} => b \notin freed
    BY <2>1 DEF Owned
  <2> HIDE DEF holders
  <2>5. Cardinality(holders) <= 1
    <3>1. CASE holders = {}
      <4>1. Cardinality(holders) = 0
        BY <3>1, FS_EmptySet, Zenon
      <4> QED BY <4>1
    <3>2. CASE holders # {}
      <4>1. PICK x \in holders : TRUE
        BY <3>2
      <4>2. holders = {x}
        BY <2>3, <4>1
      <4>3. Cardinality(holders) = 1
        BY <4>2, FS_Singleton, Zenon
      <4> QED BY <4>3
    <3> QED BY <3>1, <3>2
  <2> QED BY <2>4, <2>5 DEF holders
<1> QED BY <1>1, OwnedInvariant, PTL DEF Spec

(* In particular the relay is sound with one player, however many publishers
   follow each other and in whatever order the loops run. *)
THEOREM OnePlayerSound ==
  ASSUME \A p, q \in Players : p = q
  PROVE  Spec => [](BuffersSound /\ SoleOwner)
<1>1. Typed => OneSinkEach
  BY DEF Typed, OneSinkEach
<1>2. Init /\ [][Next]_vars => []Typed
  BY TypedInit, TypedStep, PTL
<1> QED BY <1>1, <1>2, OneSinkBuffersSound, OneSinkSoleOwner, PTL DEF Spec

-----------------------------------------------------------------------------
(* The order of the media, and the relay as a channel.                     *)

MediaBufs == {b \in 1..Len(heap) : heap[b] = "rtp"}

(* The members of M that are in s come in increasing order. *)
Ascending(s, M) ==
  \A i, j \in 1..Len(s) : i < j /\ s[i] \in M /\ s[j] \in M => s[i] < s[j]

(* The media of a connection is in the order of its allocation, in the socket's
   queue and in the tasks behind it. *)
InOrder(p) ==
  /\ Ascending(tasks[p], MediaBufs)
  /\ Ascending(sending[p], MediaBufs)
  /\ \A b \in Queueing(p) \cap MediaBufs, c \in Waiting(p) : b < c

(* Only an offer to /post makes a remoteStream_. *)
RemotesPublish == \A p \in PCs : hasRemote[p] => p \in Publishers

(* The head of a queue comes before the rest of it. *)
LEMMA TailAscends ==
  ASSUME NEW s \in Seq(Nat), s # <<>>, NEW M, Ascending(s, M)
  PROVE  /\ Ascending(Tail(s), M)
         /\ Head(s) \in M => \A c \in Range(Tail(s)) \cap M : Head(s) < c
<1> DEFINE t == Tail(s)
           n == Len(s)
<1>1. /\ n \in Nat /\ n > 0 /\ Head(s) = s[1] /\ Len(t) = n - 1 /\ DOMAIN t = 1..(n - 1)
      /\ \A i \in 1..(n - 1) : t[i] = s[i + 1] /\ i + 1 \in 1..n
  OBVIOUS
<1> HIDE DEF t, n
<1>2. \A i, j \in 1..n : i < j /\ s[i] \in M /\ s[j] \in M => s[i] < s[j]
  BY DEF Ascending, n
<1>3. \A i, j \in 1..(n - 1) : i < j /\ t[i] \in M /\ t[j] \in M => t[i] < t[j]
  <2> SUFFICES ASSUME NEW i \in 1..(n - 1), NEW j \in 1..(n - 1), i < j, t[i] \in M, t[j] \in M
               PROVE  t[i] < t[j]
    OBVIOUS
  <2>1. /\ i + 1 \in 1..n /\ j + 1 \in 1..n /\ i + 1 < j + 1
        /\ t[i] = s[i + 1] /\ t[j] = s[j + 1]
    BY <1>1
  <2> QED BY <1>2, <2>1
<1>4. ASSUME s[1] \in M, NEW c \in Range(t), c \in M PROVE s[1] < c
  <2>1. PICK i \in 1..(n - 1) : c = t[i]
    BY <1>1, <1>4 DEF Range
  <2>2. /\ 1 \in 1..n /\ i + 1 \in 1..n /\ 1 < i + 1 /\ c = s[i + 1]
    BY <1>1, <2>1
  <2> QED BY <1>2, <1>4, <2>2
<1> QED BY <1>1, <1>3, <1>4 DEF Ascending, t

(* A newcomer goes behind everything older. *)
LEMMA AppendAscends ==
  ASSUME NEW s \in Seq(Nat), NEW e \in Nat, NEW M, Ascending(s, M),
         e \in M => \A c \in Range(s) \cap M : c < e
  PROVE  Ascending(Append(s, e), M)
<1> DEFINE t == Append(s, e)
           n == Len(s)
<1>1. /\ n \in Nat /\ Len(t) = n + 1 /\ t[n + 1] = e /\ DOMAIN s = 1..n
      /\ \A i \in 1..n : t[i] = s[i] /\ s[i] \in Range(s)
  BY DEF Range
<1> HIDE DEF t, n
<1>2. \A i, j \in 1..n : i < j /\ s[i] \in M /\ s[j] \in M => s[i] < s[j]
  BY DEF Ascending, n
<1>3. ASSUME NEW i \in 1..(n + 1), NEW j \in 1..(n + 1), i < j, t[i] \in M, t[j] \in M
      PROVE  t[i] < t[j]
  <2>1. CASE j \in 1..n
    BY <1>1, <1>2, <1>3, <2>1
  <2>2. CASE j = n + 1
    BY <1>1, <1>3, <2>2
  <2> QED BY <1>1, <2>1, <2>2
<1> QED BY <1>1, <1>3 DEF Ascending, t

(* Only the members in the queue count. *)
LEMMA AscendsIn ==
  ASSUME NEW s \in Seq(Nat), NEW M, NEW N, Ascending(s, M), Range(s) \cap N \subseteq M
  PROVE  Ascending(s, N)
<1>1. \A i \in 1..Len(s) : s[i] \in N => s[i] \in M
  BY DEF Range
<1> QED BY <1>1 DEF Ascending

(* The order of the connections a step leaves alone. *)
LEMMA InOrderStays ==
  ASSUME NEW q \in PCs, InOrder(q), heap' = heap,
         tasks'[q] = tasks[q], sending'[q] = sending[q]
  PROVE  InOrder(q)'
  BY DEF InOrder, Ascending, MediaBufs, Queueing, Waiting

(* The oldest task goes behind the media the socket already queues. *)
LEMMA InOrderAccepted ==
  ASSUME Typed, NEW p \in PCs, Queued(p), InOrder(p), RunMediaAccepted(p)
  PROVE  InOrder(p)'
<1> DEFINE b == Head(tasks[p])
<1>1. /\ tasks[p] \in Seq(Nat) /\ tasks[p] # <<>> /\ sending[p] \in Seq(Nat)
      /\ tasks'[p] = Tail(tasks[p]) /\ sending'[p] = Append(sending[p], b) /\ heap' = heap
  BY DEF Typed, RunMediaAccepted, memory
<1>2. b \in Nat /\ Waiting(p) = Waiting(p)' \cup {b}
  BY <1>1, TailHolds DEF Waiting
<1>3. MediaBufs' = MediaBufs /\ Waiting(p) \subseteq MediaBufs
  BY <1>1 DEF MediaBufs, Queued, Allocated, Accounted
<1>4. /\ Ascending(Tail(tasks[p]), MediaBufs)
      /\ b \in MediaBufs => \A c \in Range(Tail(tasks[p])) \cap MediaBufs : b < c
  BY <1>1, TailAscends DEF InOrder
<1> HIDE DEF b
<1>5. \A c \in Range(sending[p]) \cap MediaBufs : c < b
  BY <1>2 DEF InOrder, Queueing
<1>6. Ascending(Append(sending[p], b), MediaBufs)
  BY <1>1, <1>2, <1>5, AppendAscends DEF InOrder
<1>7. Queueing(p)' = Queueing(p) \cup {b}
  <2>1. Range(Append(sending[p], b)) = Range(sending[p]) \cup {b}
    BY ONLY <1>1, <1>2, AppendHolds
  <2> QED BY <1>1, <2>1 DEF Queueing
<1>8. \A c \in Waiting(p)' : b < c
  BY <1>1, <1>2, <1>3, <1>4 DEF Waiting
<1>9. \A x \in Queueing(p)' \cap MediaBufs', c \in Waiting(p)' : x < c
  BY <1>2, <1>3, <1>7, <1>8 DEF InOrder
<1> QED BY <1>1, <1>3, <1>4, <1>6, <1>9 DEF InOrder

(* A refused task leaves a gap. *)
LEMMA InOrderRefused ==
  ASSUME Typed, NEW p \in PCs, InOrder(p), RunMediaRefused(p)
  PROVE  InOrder(p)'
<1>1. /\ tasks[p] \in Seq(Nat) /\ tasks[p] # <<>>
      /\ tasks'[p] = Tail(tasks[p]) /\ sending' = sending /\ heap' = heap
  BY DEF Typed, RunMediaRefused, memory, socket
<1>2. Waiting(p)' \subseteq Waiting(p) /\ Queueing(p)' = Queueing(p) /\ MediaBufs' = MediaBufs
  BY <1>1, TailHolds DEF Waiting, Queueing, MediaBufs
<1>3. Ascending(Tail(tasks[p]), MediaBufs)
  BY <1>1, TailAscends DEF InOrder
<1> QED BY <1>1, <1>2, <1>3 DEF InOrder

(* A write takes the head of the socket's queue. *)
LEMMA InOrderWritten ==
  ASSUME Typed, NEW p \in PCs, InOrder(p), UdpWrite(p)
  PROVE  InOrder(p)'
<1>1. /\ sending[p] \in Seq(Nat) /\ sending[p] # <<>>
      /\ sending'[p] = Tail(sending[p]) /\ tasks' = tasks /\ heap' = heap
  BY DEF Typed, UdpWrite
<1>2. Waiting(p)' = Waiting(p) /\ Queueing(p)' \subseteq Queueing(p) /\ MediaBufs' = MediaBufs
  BY <1>1, TailHolds DEF Waiting, Queueing, MediaBufs
<1>3. Ascending(Tail(sending[p]), MediaBufs)
  BY <1>1, TailAscends DEF InOrder
<1> QED BY <1>1, <1>2, <1>3 DEF InOrder

(* A datagram's buffers are newer than all others; the reply is no media. *)
LEMMA InOrderReceived ==
  ASSUME Typed, NEW p \in PCs, NEW q \in PCs, Queued(q), InOrder(q),
         NEW kind \in Kinds, NEW reply \in {"reply", "feedback"},
         NEW replies, replies = <<>> \/ replies = <<reply>>, Receive(p, kind, replies),
         tasks'[q] = tasks[q] \/ tasks'[q] = Append(tasks[q], Len(heap) + 1)
  PROVE  InOrder(q)'
<1> DEFINE n == Len(heap)
           new == n + 1
           next == n + 2
<1>1. reply \in Kinds /\ reply # "rtp"
  BY DEF Kinds
<1>2. /\ n \in Nat /\ new \in Nat /\ next \in Nat
      /\ \A b \in 1..n : heap'[b] = heap[b] /\ b < new
      /\ \/ Len(heap') = n + 1 /\ sending' = sending
         \/ /\ Len(heap') = n + 2 /\ heap'[n + 2] = reply
            /\ sending' = [sending EXCEPT ![p] = Append(sending[p], next)]
  BY <1>1, Received1
<1>3. \A b \in 1..Len(heap') : b \in 1..n \/ b = new \/ (b = next /\ heap'[b] # "rtp")
  BY <1>1, <1>2
<1>4. /\ tasks[q] \in Seq(Nat) /\ sending[q] \in Seq(Nat)
      /\ sending'[q] = sending[q] \/ sending'[q] = Append(sending[q], next)
      /\ tasks'[q] = tasks[q] \/ tasks'[q] = Append(tasks[q], new)
  BY <1>2 DEF Typed
<1>5. next \notin 1..n /\ next # new /\ new \notin 1..n
  BY <1>2
<1>6. 1..n \cap MediaBufs' = MediaBufs /\ MediaBufs' \subseteq MediaBufs \cup {new}
  <2>1. MediaBufs = {b \in 1..n : heap[b] = "rtp"}
    BY DEF MediaBufs
  <2>2. MediaBufs' = {b \in 1..Len(heap') : heap'[b] = "rtp"}
    BY DEF MediaBufs
  <2>3. 1..n \subseteq 1..Len(heap')
    BY <1>2
  <2> HIDE DEF n, new, next
  <2> QED BY <1>2, <1>3, <2>1, <2>2, <2>3
<1>7. Range(tasks[q]) \subseteq 1..n /\ Range(sending[q]) \subseteq 1..n
  BY DEF Queued, Allocated, Waiting, Queueing
<1>8. \A b \in 1..n : b < new
  BY <1>2
<1> DEFINE old == 1..n
<1> HIDE DEF n, new, next, old
<1>9. Ascending(tasks[q], MediaBufs') /\ Ascending(sending[q], MediaBufs')
  BY <1>4, <1>6, <1>7, AscendsIn DEF InOrder, old
<1>10. Ascending(Append(tasks[q], new), MediaBufs')
  <2>1. new \in MediaBufs' => \A c \in Range(tasks[q]) \cap MediaBufs' : c < new
    BY <1>7, <1>8
  <2>2. new \in Nat /\ tasks[q] \in Seq(Nat)
    BY <1>2, <1>4
  <2> QED BY ONLY <1>9, <2>1, <2>2, AppendAscends
<1>11. Ascending(Append(sending[q], next), MediaBufs')
  <2>1. next \notin MediaBufs'
    BY <1>5, <1>6
  <2>2. next \in Nat /\ sending[q] \in Seq(Nat)
    BY <1>2, <1>4
  <2> QED BY ONLY <1>9, <2>1, <2>2, AppendAscends
<1>12. Waiting(q)' \subseteq Waiting(q) \cup {new}
  <2>1. new \in Nat /\ tasks[q] \in Seq(Nat)
    BY <1>2, <1>4
  <2>2. Range(Append(tasks[q], new)) = Range(tasks[q]) \cup {new}
    BY ONLY <2>1, AppendHolds
  <2> QED BY <1>4, <2>2 DEF Waiting
<1>13. Queueing(q)' \subseteq Queueing(q) \cup {next}
  <2>1. next \in Nat /\ sending[q] \in Seq(Nat)
    BY <1>2, <1>4
  <2>2. Range(Append(sending[q], next)) = Range(sending[q]) \cup {next}
    BY ONLY <2>1, AppendHolds
  <2> QED BY <1>4, <2>2 DEF Queueing
<1>14. ASSUME NEW b \in Queueing(q)', b \in MediaBufs', NEW c \in Waiting(q)' PROVE b < c
  <2>1. b # next
    BY <1>5, <1>6, <1>14
  <2>2. b \in Queueing(q) /\ b \in 1..n
    BY <1>7, <1>13, <1>14, <2>1 DEF Queueing
  <2>3. b \in MediaBufs
    BY <1>6, <1>14, <2>2
  <2>4. c \in Waiting(q) \/ c = new
    BY <1>12, <1>14
  <2> QED BY <1>8, <2>2, <2>3, <2>4 DEF InOrder
<1> QED BY <1>4, <1>9, <1>10, <1>11, <1>14 DEF InOrder

(* The order holds at first, *)
LEMMA InOrderInit == Init => RemotesPublish /\ \A p \in PCs : InOrder(p)
<1> SUFFICES ASSUME Init, NEW p \in PCs PROVE ~hasRemote[p] /\ InOrder(p)
  BY DEF RemotesPublish
<1>1. tasks[p] = <<>> /\ sending[p] = <<>> /\ ~hasRemote[p]
  BY DEF Init
<1>2. Waiting(p) = {} /\ Queueing(p) = {}
  BY <1>1, EmptyHolds DEF Waiting, Queueing
<1>3. \A M : Ascending(<<>>, M)
  BY DEF Ascending
<1> QED BY <1>1, <1>2, <1>3 DEF InOrder

(* and after every step. *)
LEMMA InOrderStep ==
  Typed /\ (\A p \in PCs : Queued(p)) /\ (\A p \in PCs : InOrder(p)) /\ [Next]_vars
    => (\A p \in PCs : InOrder(p))'
<1> SUFFICES ASSUME Typed, \A p \in PCs : Queued(p), \A p \in PCs : InOrder(p), [Next]_vars,
                    NEW q \in PCs
             PROVE  InOrder(q)'
  OBVIOUS
<1>1. Queued(q) /\ InOrder(q)
  OBVIOUS
<1> USE DEF signaling, memory, socket
<1>2. CASE UNCHANGED <<heap, tasks, sending>>
  BY <1>1, <1>2, InOrderStays
<1>3. ASSUME NEW p \in PCs, RunMediaAccepted(p) PROVE InOrder(q)'
  <2>1. CASE q = p
    BY <1>1, <1>3, <2>1, InOrderAccepted
  <2>2. CASE q # p
    BY <1>1, <1>3, <2>2, InOrderStays DEF Typed, RunMediaAccepted
  <2> QED BY <2>1, <2>2
<1>4. ASSUME NEW p \in PCs, RunMediaRefused(p) PROVE InOrder(q)'
  <2>1. CASE q = p
    BY <1>1, <1>4, <2>1, InOrderRefused
  <2>2. CASE q # p
    BY <1>1, <1>4, <2>2, InOrderStays DEF Typed, RunMediaRefused
  <2> QED BY <2>1, <2>2
<1>5. ASSUME NEW p \in PCs, UdpWrite(p) PROVE InOrder(q)'
  <2>1. CASE q = p
    BY <1>1, <1>5, <2>1, InOrderWritten
  <2>2. CASE q # p
    BY <1>1, <1>5, <2>2, InOrderStays DEF Typed, UdpWrite
  <2> QED BY <2>1, <2>2
<1>6. ASSUME NEW p \in PCs, NEW w \in BOOLEAN, RecvStun(p, w) PROVE InOrder(q)'
  <2>1. PICK replies : (replies = <<>> \/ replies = <<"reply">>) /\ Receive(p, "stun", replies)
    BY <1>6 DEF RecvStun
  <2>2. tasks' = tasks
    BY <1>6 DEF RecvStun
  <2> QED BY <1>1, <2>1, <2>2, InOrderReceived DEF Kinds
<1>7. ASSUME NEW p \in PCs, RecvRtcp(p) PROVE InOrder(q)'
  BY <1>1, <1>7, InOrderReceived DEF Kinds, RecvRtcp
<1>8. ASSUME NEW p \in PCs, NEW tcc \in BOOLEAN, RecvRtp(p, tcc) PROVE InOrder(q)'
  <2>1. PICK replies : (replies = <<>> \/ replies = <<"feedback">>) /\ Receive(p, "rtp", replies)
    BY <1>8 DEF RecvRtp, Feedback
  <2>2. tasks'[q] = tasks[q] \/ tasks'[q] = Append(tasks[q], Len(heap) + 1)
    BY <1>8 DEF RecvRtp, OnMediaData, Received
  <2> QED BY <1>1, <2>1, <2>2, InOrderReceived DEF Kinds
<1> QED BY <1>2, <1>3, <1>4, <1>5, <1>6, <1>7, <1>8
        DEF Next, Handler, Loop, Network, RunMedia, vars, Construct, AddStream, CreateAnswer,
            CreateAnswerThrows, Start, RunStart, SendCb

(* Only CreateAnswer touches remoteStream_. *)
LEMMA RemotesStep == Typed /\ RemotesPublish /\ [Next]_vars => RemotesPublish'
<1> SUFFICES ASSUME Typed, RemotesPublish, [Next]_vars PROVE RemotesPublish'
  OBVIOUS
<1>1. CASE UNCHANGED hasRemote
  BY <1>1 DEF RemotesPublish
<1>2. ASSUME NEW p \in PCs, NEW sends \in BOOLEAN, CreateAnswer(p, sends) PROVE RemotesPublish'
  BY <1>2 DEF Typed, RemotesPublish, CreateAnswer
<1> QED BY <1>1, <1>2
        DEF Next, Handler, Loop, Network, RunMedia, vars, signaling, Construct, AddStream,
            CreateAnswerThrows, Start, RunStart, RunMediaAccepted, RunMediaRefused, UdpWrite, SendCb,
            RecvStun, RecvRtcp, RecvRtp

(* The state of the channel. *)
Transit == [p \in Players |-> Media(sending[p]) \cup Media(tasks[p])]
Delivered == [p \in Players |-> Media(wire[p])]
Heard == {p \in Players : remote[p] = "peer"}

(* The actions of MediaRelay on that state. *)
LEMMA ChannelActions ==
  /\ \A b, to : Channel!Publish(b, to) <=>
       /\ ~Halted
       /\ \A p \in to : \A c \in Transit[p] \cup Delivered[p] : c < b
       /\ Transit' = [p \in Players |-> IF p \in to THEN Transit[p] \cup {b} ELSE Transit[p]]
       /\ Delivered' = Delivered /\ Heard' = Heard /\ (~Halted') = ~Halted
  /\ \A p : Channel!Deliver(p) <=>
       /\ ~Halted
       /\ \E b \in Transit[p] :
            /\ \A c \in Transit[p] : b <= c
            /\ Transit' = [Transit EXCEPT ![p] = @ \ {b}]
            /\ Delivered' = [Delivered EXCEPT ![p] = @ \cup {b}]
       /\ Heard' = Heard /\ (~Halted') = ~Halted
  /\ \A p, b : Channel!Lose(p, b) <=>
       /\ ~Halted /\ p \notin Heard
       /\ Transit' = [Transit EXCEPT ![p] = @ \ {b}]
       /\ Delivered' = Delivered /\ Heard' = Heard /\ (~Halted') = ~Halted
  /\ \A p : Channel!Hear(p) <=>
       /\ ~Halted /\ Heard' = Heard \cup {p}
       /\ Transit' = Transit /\ Delivered' = Delivered /\ (~Halted') = ~Halted
  /\ Channel!Stop <=>
       /\ ~Halted /\ (~Halted') = FALSE
       /\ Heard' = Heard \/ \E p \in Players : Heard' = Heard \cup {p}
       /\ Transit' = Transit /\ Delivered' = Delivered
  /\ UNCHANGED Channel!vars <=>
       /\ Transit' = Transit /\ Delivered' = Delivered /\ Heard' = Heard
       /\ (~Halted') = ~Halted
<1>1. \A b, to : Channel!Publish(b, to) <=>
       /\ ~Halted
       /\ \A p \in to : \A c \in Transit[p] \cup Delivered[p] : c < b
       /\ Transit' = [p \in Players |-> IF p \in to THEN Transit[p] \cup {b} ELSE Transit[p]]
       /\ Delivered' = Delivered /\ Heard' = Heard /\ (~Halted') = ~Halted
  BY DEF Channel!Publish, Transit, Delivered, Heard
<1>2. \A p : Channel!Deliver(p) <=>
       /\ ~Halted
       /\ \E b \in Transit[p] :
            /\ \A c \in Transit[p] : b <= c
            /\ Transit' = [Transit EXCEPT ![p] = @ \ {b}]
            /\ Delivered' = [Delivered EXCEPT ![p] = @ \cup {b}]
       /\ Heard' = Heard /\ (~Halted') = ~Halted
  BY DEF Channel!Deliver, Transit, Delivered, Heard
<1>3. \A p, b : Channel!Lose(p, b) <=>
       /\ ~Halted /\ p \notin Heard
       /\ Transit' = [Transit EXCEPT ![p] = @ \ {b}]
       /\ Delivered' = Delivered /\ Heard' = Heard /\ (~Halted') = ~Halted
  BY DEF Channel!Lose, Transit, Delivered, Heard
<1>4. \A p : Channel!Hear(p) <=>
       /\ ~Halted /\ Heard' = Heard \cup {p}
       /\ Transit' = Transit /\ Delivered' = Delivered /\ (~Halted') = ~Halted
  BY DEF Channel!Hear, Transit, Delivered, Heard
<1>5. Channel!Stop <=>
       /\ ~Halted /\ (~Halted') = FALSE
       /\ Heard' = Heard \/ \E p \in Players : Heard' = Heard \cup {p}
       /\ Transit' = Transit /\ Delivered' = Delivered
  BY DEF Channel!Stop, Transit, Delivered, Heard
<1>6. UNCHANGED Channel!vars <=>
       /\ Transit' = Transit /\ Delivered' = Delivered /\ Heard' = Heard
       /\ (~Halted') = ~Halted
  BY DEF Channel!vars, Transit, Delivered, Heard
<1> QED BY <1>1, <1>2, <1>3, <1>4, <1>5, <1>6

(* The elements of a queue by their places. *)
LEMMA RangeIs ==
  ASSUME NEW s \in Seq(Nat)
  PROVE  {s[i] : i \in 1..Len(s)} = Range(s)
<1>1. DOMAIN s = 1..Len(s)
  OBVIOUS
<1> QED BY <1>1, Zenon DEF Range

(* The channel holds the media among the buffers of the queues, *)
LEMMA ChannelState ==
  ASSUME Typed, \A p \in PCs : Queued(p)
  PROVE  /\ Transit = [p \in Players |-> (Queueing(p) \cup Waiting(p)) \cap MediaBufs]
         /\ Delivered = [p \in Players |-> Written(p) \cap MediaBufs]
<1> SUFFICES ASSUME NEW p \in Players
             PROVE  /\ Media(sending[p]) \cup Media(tasks[p]) = (Queueing(p) \cup Waiting(p)) \cap MediaBufs
                    /\ Media(wire[p]) = Written(p) \cap MediaBufs
  BY DEF Transit, Delivered
<1>1. sending[p] \in Seq(Nat) /\ tasks[p] \in Seq(Nat) /\ wire[p] \in Seq(Nat) /\ Queued(p)
  BY DEF Typed, PCs
<1>2. /\ Media(sending[p]) = {b \in Range(sending[p]) : heap[b] = "rtp"}
      /\ Media(tasks[p]) = {b \in Range(tasks[p]) : heap[b] = "rtp"}
      /\ Media(wire[p]) = {b \in Range(wire[p]) : heap[b] = "rtp"}
  <2>1. /\ {sending[p][i] : i \in 1..Len(sending[p])} = Range(sending[p])
        /\ {tasks[p][i] : i \in 1..Len(tasks[p])} = Range(tasks[p])
        /\ {wire[p][i] : i \in 1..Len(wire[p])} = Range(wire[p])
    BY ONLY <1>1, RangeIs, Zenon
  <2> QED BY ONLY <2>1, Zenon DEF Media
<1> QED BY <1>1, <1>2 DEF Queued, Allocated, Queueing, Waiting, Written, MediaBufs

(* in the next state too. *)
LEMMA ChannelStateNext ==
  ASSUME Typed', \A p \in PCs : Queued(p)'
  PROVE  /\ Transit' = [p \in Players |-> (Queueing(p)' \cup Waiting(p)') \cap MediaBufs']
         /\ Delivered' = [p \in Players |-> Written(p)' \cap MediaBufs']
<1> SUFFICES ASSUME NEW p \in Players
             PROVE  /\ Media(sending[p])' \cup Media(tasks[p])' = (Queueing(p)' \cup Waiting(p)') \cap MediaBufs'
                    /\ Media(wire[p])' = Written(p)' \cap MediaBufs'
  BY DEF Transit, Delivered
<1>1. sending'[p] \in Seq(Nat) /\ tasks'[p] \in Seq(Nat) /\ wire'[p] \in Seq(Nat) /\ Queued(p)'
  BY DEF Typed, PCs
<1>2. /\ Media(sending[p])' = {b \in Range(sending'[p]) : heap'[b] = "rtp"}
      /\ Media(tasks[p])' = {b \in Range(tasks'[p]) : heap'[b] = "rtp"}
      /\ Media(wire[p])' = {b \in Range(wire'[p]) : heap'[b] = "rtp"}
  <2>1. /\ {sending'[p][i] : i \in 1..Len(sending'[p])} = Range(sending'[p])
        /\ {tasks'[p][i] : i \in 1..Len(tasks'[p])} = Range(tasks'[p])
        /\ {wire'[p][i] : i \in 1..Len(wire'[p])} = Range(wire'[p])
    BY ONLY <1>1, RangeIs, Zenon
  <2> QED BY ONLY <2>1, Zenon DEF Media
<1> QED BY <1>1, <1>2 DEF Queued, Allocated, Queueing, Waiting, Written, MediaBufs

(* What the refinement needs of a step: the queues before and after it, and that
   no memory error has stopped the relay. *)
Relayed ==
  /\ Typed /\ (\A p \in PCs : Queued(p)) /\ Ported
  /\ (\A p \in PCs : InOrder(p)) /\ RemotesPublish
  /\ bad = {}

(* A step that moves no buffer. *)
LEMMA ChannelStutters ==
  ASSUME UNCHANGED <<tasks, sending, wire, heap, remote, crashed, bad>>
  PROVE  UNCHANGED Channel!vars
<1>1. Transit' = Transit /\ Delivered' = Delivered /\ Heard' = Heard /\ (~Halted') = ~Halted
  BY DEF Transit, Delivered, Heard, Media, Halted
<1> QED BY <1>1, ChannelActions

(* A task taken over by the socket is in transit still. *)
LEMMA ChannelAccepted ==
  ASSUME Relayed, Relayed', NEW p \in PCs, RunMediaAccepted(p)
  PROVE  UNCHANGED Channel!vars
<1> DEFINE b == Head(tasks[p])
<1>1. /\ tasks[p] \in Seq(Nat) /\ tasks[p] # <<>> /\ sending[p] \in Seq(Nat)
      /\ tasks'[p] = Tail(tasks[p]) /\ sending'[p] = Append(sending[p], b)
      /\ heap' = heap /\ wire' = wire /\ remote' = remote /\ crashed' = crashed /\ bad' = bad
      /\ \A q \in PCs : q # p => tasks'[q] = tasks[q] /\ sending'[q] = sending[q]
  BY DEF Relayed, Typed, RunMediaAccepted, memory
<1>2. b \in Nat /\ Waiting(p) = Waiting(p)' \cup {b}
  BY <1>1, TailHolds DEF Waiting
<1> HIDE DEF b
<1>3. Queueing(p)' = Queueing(p) \cup {b}
  <2>1. Range(Append(sending[p], b)) = Range(sending[p]) \cup {b}
    BY ONLY <1>1, <1>2, AppendHolds
  <2> QED BY <1>1, <2>1 DEF Queueing
<1>4. \A q \in PCs : Queueing(q)' \cup Waiting(q)' = Queueing(q) \cup Waiting(q)
  <2>1. ASSUME NEW q \in PCs, q # p PROVE Queueing(q)' = Queueing(q) /\ Waiting(q)' = Waiting(q)
    BY <1>1, <2>1 DEF Queueing, Waiting
  <2> QED BY <1>2, <1>3, <2>1
<1>5. MediaBufs' = MediaBufs /\ \A q \in PCs : Written(q)' = Written(q)
  BY <1>1 DEF MediaBufs, Written
<1>6. Transit' = Transit /\ Delivered' = Delivered
  BY <1>4, <1>5, ChannelState, ChannelStateNext DEF Relayed, PCs
<1>7. Heard' = Heard /\ (~Halted') = ~Halted
  BY <1>1 DEF Heard, Halted
<1> QED BY <1>6, <1>7, ChannelActions

(* A refused one is lost, on its way to a player not heard from. *)
LEMMA ChannelRefused ==
  ASSUME Relayed, Relayed', NEW p \in PCs, RunMediaRefused(p), ~Halted
  PROVE  p \in Players /\ \E b \in Transit[p] : Channel!Lose(p, b)
<1> DEFINE b == Head(tasks[p])
<1>1. /\ tasks[p] \in Seq(Nat) /\ tasks[p] # <<>> /\ tasks'[p] = Tail(tasks[p])
      /\ sending' = sending /\ remote[p] = "garbage"
      /\ heap' = heap /\ wire' = wire /\ remote' = remote /\ crashed' = crashed /\ bad' = bad
      /\ \A q \in PCs : q # p => tasks'[q] = tasks[q]
  BY DEF Relayed, Typed, RunMediaRefused, memory, socket
<1>2. p \in Players /\ p \notin Heard
  BY <1>1 DEF Relayed, Ported, Heard
<1>3. Queued(p)
  BY DEF Relayed
<1>4. Waiting(p) = Waiting(p)' \cup {b} /\ b \notin Waiting(p)'
  BY <1>1, <1>3, TailHolds DEF Waiting, Queued, Separate
<1> HIDE DEF b
<1>5. /\ \A q \in PCs : Queueing(q)' = Queueing(q) /\ Written(q)' = Written(q)
      /\ \A q \in PCs : q # p => Waiting(q)' = Waiting(q)
      /\ MediaBufs' = MediaBufs
  BY <1>1 DEF Queueing, Written, Waiting, MediaBufs
<1>6. b \notin Queueing(p) /\ b \in MediaBufs
  BY <1>3, <1>4 DEF Queued, Separate, Allocated, Accounted, MediaBufs
<1>7. /\ Transit = [q \in Players |-> (Queueing(q) \cup Waiting(q)) \cap MediaBufs]
      /\ Transit' = [q \in Players |-> (Queueing(q)' \cup Waiting(q)') \cap MediaBufs']
      /\ Delivered = [q \in Players |-> Written(q) \cap MediaBufs]
      /\ Delivered' = [q \in Players |-> Written(q)' \cap MediaBufs']
  BY ChannelState, ChannelStateNext DEF Relayed
<1>8. \A q \in Players : q \in PCs
  BY DEF PCs
<1>9. b \in Transit[p] /\ Transit' = [Transit EXCEPT ![p] = @ \ {b}] /\ Delivered' = Delivered
  BY ONLY <1>2, <1>4, <1>5, <1>6, <1>7, <1>8
<1>10. Heard' = Heard /\ (~Halted') = ~Halted
  BY <1>1 DEF Heard, Halted
<1>11. Channel!Lose(p, b)
  BY <1>2, <1>9, <1>10, ChannelActions
<1> QED BY <1>2, <1>9, <1>11

(* A write delivers the oldest packet in transit to a player, or no media. *)
LEMMA ChannelWritten ==
  ASSUME Relayed, Relayed', NEW p \in PCs, UdpWrite(p), ~Halted
  PROVE  UNCHANGED Channel!vars \/ (p \in Players /\ Channel!Deliver(p))
<1> DEFINE b == Head(sending[p])
<1>1. /\ sending[p] \in Seq(Nat) /\ sending[p] # <<>> /\ wire[p] \in Seq(Nat)
      /\ sending'[p] = Tail(sending[p]) /\ wire'[p] = Append(wire[p], b)
      /\ heap' = heap /\ tasks' = tasks /\ remote' = remote /\ crashed' = crashed
      /\ \A q \in PCs : q # p => sending'[q] = sending[q] /\ wire'[q] = wire[q]
  BY DEF Relayed, Typed, UdpWrite
<1>2. Queued(p) /\ InOrder(p) /\ bad' = bad
  BY DEF Relayed
<1>3. b \in Nat /\ Queueing(p) = Queueing(p)' \cup {b} /\ b \notin Queueing(p)'
  BY <1>1, <1>2, TailHolds DEF Queueing, Queued, Separate
<1>4. b \in MediaBufs => \A c \in Queueing(p)' \cap MediaBufs : b < c
  BY <1>1, <1>2, TailAscends DEF Queueing, InOrder
<1> HIDE DEF b
<1>5. Written(p)' = Written(p) \cup {b}
  <2>1. Range(Append(wire[p], b)) = Range(wire[p]) \cup {b}
    BY ONLY <1>1, <1>3, AppendHolds
  <2> QED BY <1>1, <2>1 DEF Written
<1>6. /\ \A q \in PCs : Waiting(q)' = Waiting(q)
      /\ \A q \in PCs : q # p => Queueing(q)' = Queueing(q) /\ Written(q)' = Written(q)
      /\ MediaBufs' = MediaBufs
  BY <1>1 DEF Queueing, Written, Waiting, MediaBufs
<1>7. b \in MediaBufs => b \notin Waiting(p) /\ \A c \in Waiting(p) : b < c
  BY <1>2, <1>3 DEF Queued, Separate, InOrder
<1>8. /\ Transit = [q \in Players |-> (Queueing(q) \cup Waiting(q)) \cap MediaBufs]
      /\ Transit' = [q \in Players |-> (Queueing(q)' \cup Waiting(q)') \cap MediaBufs']
      /\ Delivered = [q \in Players |-> Written(q) \cap MediaBufs]
      /\ Delivered' = [q \in Players |-> Written(q)' \cap MediaBufs']
  BY ChannelState, ChannelStateNext DEF Relayed
<1>9. Heard' = Heard /\ (~Halted') = ~Halted
  BY <1>1, <1>2 DEF Heard, Halted
<1>10. \A q \in Players : q \in PCs
  BY DEF PCs
<1>11. CASE p \in Players /\ b \in MediaBufs
  <2>1. /\ b \in Transit[p] /\ Transit' = [Transit EXCEPT ![p] = @ \ {b}]
        /\ Delivered' = [Delivered EXCEPT ![p] = @ \cup {b}]
    BY ONLY <1>3, <1>5, <1>6, <1>7, <1>8, <1>10, <1>11
  <2>2. \A c \in Transit[p] : b <= c
    <3> SUFFICES ASSUME NEW c \in Transit[p] PROVE b <= c
      OBVIOUS
    <3>1. c \in (Queueing(p) \cup Waiting(p)) \cap MediaBufs
      BY <1>8, <1>11
    <3>2. c = b \/ b < c
      BY <1>3, <1>4, <1>7, <1>11, <3>1
    <3>3. c \in Nat
      BY <3>1 DEF MediaBufs
    <3> QED BY <1>3, <3>2, <3>3
  <2>3. Channel!Deliver(p)
    BY <1>9, <2>1, <2>2, ChannelActions
  <2> QED BY <1>11, <2>3
<1>12. CASE ~(p \in Players /\ b \in MediaBufs)
  <2>1. Transit' = Transit /\ Delivered' = Delivered
    BY ONLY <1>3, <1>5, <1>6, <1>8, <1>10, <1>12
  <2> QED BY <1>9, <2>1, ChannelActions
<1> QED BY <1>11, <1>12

(* What a datagram does to the channels: its buffer, newer than all in them, joins
   those of the sinks T, and its sender has been heard from. *)
LEMMA ChannelReceived ==
  ASSUME Relayed, Relayed', NEW p \in PCs,
         NEW kind \in Kinds, NEW reply \in {"reply", "feedback"},
         NEW replies, replies = <<>> \/ replies = <<reply>>, Receive(p, kind, replies),
         NEW T, kind = "rtp" \/ T = {}, wire' = wire,
         \A q \in PCs : tasks'[q] = IF q \in T THEN Append(tasks[q], Len(heap) + 1) ELSE tasks[q]
  PROVE  /\ Transit' = [q \in Players |-> IF q \in T THEN Transit[q] \cup {Len(heap) + 1}
                                                     ELSE Transit[q]]
         /\ Delivered' = Delivered
         /\ Heard' = IF p \in Players THEN Heard \cup {p} ELSE Heard
         /\ \A q \in Players : \A c \in Transit[q] \cup Delivered[q] : c < Len(heap) + 1
         /\ Len(heap) + 1 \in Bufs
<1> DEFINE n == Len(heap)
           new == n + 1
           next == n + 2
           old == 1..n
<1>1. reply \in Kinds /\ reply # "rtp" /\ Typed /\ Typed'
  BY DEF Kinds, Relayed
<1>2. /\ n \in Nat /\ new \in Nat /\ next \in Nat /\ new <= Len(heap') /\ Len(heap') \in Nat
      /\ \A b \in old : heap'[b] = heap[b]
      /\ heap'[new] = kind
      /\ \/ Len(heap') = n + 1 /\ sending' = sending
         \/ /\ Len(heap') = n + 2 /\ heap'[next] = reply
            /\ sending' = [sending EXCEPT ![p] = Append(sending[p], next)]
  BY <1>1, Received1
<1>3. next \notin old /\ next # new /\ new \notin old /\ \A b \in old : b < new
  BY <1>2
<1>4. /\ old \cap MediaBufs' = MediaBufs /\ next \notin MediaBufs' /\ MediaBufs \subseteq old
      /\ kind = "rtp" => new \in MediaBufs'
  <2>1. MediaBufs = {b \in old : heap[b] = "rtp"}
    BY DEF MediaBufs
  <2>2. MediaBufs' = {b \in 1..Len(heap') : heap'[b] = "rtp"}
    BY DEF MediaBufs
  <2>3. old \subseteq 1..Len(heap') /\ new \in 1..Len(heap')
    BY <1>2
  <2>4. next \notin 1..Len(heap') \/ heap'[next] # "rtp"
    BY <1>1, <1>2
  <2> HIDE DEF n, new, next, old
  <2> QED BY <1>2, <2>1, <2>2, <2>3, <2>4
<1>5. new \in Bufs
  <2>1. Len(replies) \in Nat /\ n + 1 + Len(replies) <= MaxBufs
    BY DEF Receive
  <2> QED BY <1>2, <2>1, MaxBufsAssumption DEF Bufs
<1>6. Heard' = IF p \in Players THEN Heard \cup {p} ELSE Heard
  <2>1. remote' = [remote EXCEPT ![p] = "peer"] /\ remote \in [PCs -> {"garbage", "peer"}]
    BY <1>1 DEF Receive, Typed
  <2> QED BY <2>1 DEF Heard, PCs
<1>7. \A q \in PCs : /\ tasks'[q] = IF q \in T THEN Append(tasks[q], new) ELSE tasks[q]
                     /\ tasks[q] \in Seq(Nat) /\ sending[q] \in Seq(Nat)
  BY <1>1 DEF Typed
<1>8. sending \in [PCs -> Seq(Nat)]
  BY <1>1 DEF Typed
<1> HIDE DEF n, new, next, old
<1>9. \A q \in PCs : /\ Waiting(q)' = IF q \in T THEN Waiting(q) \cup {new} ELSE Waiting(q)
                     /\ Queueing(q)' = Queueing(q) \/ Queueing(q)' = Queueing(q) \cup {next}
                     /\ Written(q)' = Written(q)
  <2> SUFFICES ASSUME NEW q \in PCs
               PROVE  /\ Waiting(q)' = IF q \in T THEN Waiting(q) \cup {new} ELSE Waiting(q)
                      /\ Queueing(q)' = Queueing(q) \/ Queueing(q)' = Queueing(q) \cup {next}
                      /\ Written(q)' = Written(q)
    OBVIOUS
  <2>1. new \in Nat /\ next \in Nat /\ tasks[q] \in Seq(Nat) /\ sending[q] \in Seq(Nat)
    BY <1>2, <1>7
  <2>2. Range(Append(tasks[q], new)) = Range(tasks[q]) \cup {new}
    BY ONLY <2>1, AppendHolds
  <2>3. Range(Append(sending[q], next)) = Range(sending[q]) \cup {next}
    BY ONLY <2>1, AppendHolds
  <2>4. tasks'[q] = IF q \in T THEN Append(tasks[q], new) ELSE tasks[q]
    BY <1>7
  <2>5. sending'[q] = sending[q] \/ sending'[q] = Append(sending[q], next)
    BY <1>2, <1>8
  <2> QED BY <2>2, <2>3, <2>4, <2>5 DEF Waiting, Queueing, Written
<1>10. \A q \in PCs : Waiting(q) \subseteq old /\ Queueing(q) \subseteq old /\ Written(q) \subseteq old
  BY DEF Relayed, Queued, Allocated, old, n
<1>11. /\ Transit = [q \in Players |-> (Queueing(q) \cup Waiting(q)) \cap MediaBufs]
       /\ Transit' = [q \in Players |-> (Queueing(q)' \cup Waiting(q)') \cap MediaBufs']
       /\ Delivered = [q \in Players |-> Written(q) \cap MediaBufs]
       /\ Delivered' = [q \in Players |-> Written(q)' \cap MediaBufs']
  BY ChannelState, ChannelStateNext DEF Relayed
<1>12. \A q \in Players : q \in PCs
  BY DEF PCs
<1>13. \A q \in Players : (Queueing(q)' \cup Waiting(q)') \cap MediaBufs'
                          = IF q \in T THEN ((Queueing(q) \cup Waiting(q)) \cap MediaBufs) \cup {new}
                                       ELSE (Queueing(q) \cup Waiting(q)) \cap MediaBufs
  <2> SUFFICES ASSUME NEW q \in Players
               PROVE  (Queueing(q)' \cup Waiting(q)') \cap MediaBufs'
                      = IF q \in T THEN ((Queueing(q) \cup Waiting(q)) \cap MediaBufs) \cup {new}
                                   ELSE (Queueing(q) \cup Waiting(q)) \cap MediaBufs
    OBVIOUS
  <2>1. (Queueing(q) \cup Waiting(q)) \cap MediaBufs' = (Queueing(q) \cup Waiting(q)) \cap MediaBufs
    BY <1>4, <1>10, <1>12
  <2>2. q \in T => new \in MediaBufs'
    BY <1>4
  <2>3. (Queueing(q)' \cup Waiting(q)') \cap MediaBufs'
        = (Queueing(q) \cup Waiting(q)') \cap MediaBufs'
    BY <1>4, <1>9, <1>12
  <2> QED BY <1>9, <1>12, <2>1, <2>2, <2>3
<1>14. \A q \in Players : Written(q)' \cap MediaBufs' = Written(q) \cap MediaBufs
  BY <1>4, <1>9, <1>10, <1>12
<1>15. \A q \in Players : \A c \in Transit[q] \cup Delivered[q] : c < new
  BY <1>3, <1>10, <1>11, <1>12
<1>16. /\ Transit' = [q \in Players |-> IF q \in T THEN Transit[q] \cup {new} ELSE Transit[q]]
       /\ Delivered' = Delivered
  BY ONLY <1>11, <1>13, <1>14
<1> QED BY <1>5, <1>6, <1>15, <1>16 DEF new, n

(* Without a memory error, every step is one of the channel's, or none. *)
LEMMA ChannelStep ==
  Relayed /\ Relayed' /\ [Next]_vars => [Channel!Next]_(Channel!vars)
<1> SUFFICES ASSUME Relayed, Relayed', [Next]_vars PROVE Channel!Next \/ UNCHANGED Channel!vars
  OBVIOUS
<1> USE DEF signaling, memory, socket
<1>1. CASE UNCHANGED <<tasks, sending, wire, heap, remote, crashed, bad>>
  BY <1>1, ChannelStutters
<1> DEFINE Step == Channel!Next \/ UNCHANGED Channel!vars
<1>2. bad = {} /\ bad' = {}
  BY DEF Relayed
<1>3. /\ \A b \in Bufs, to \in SUBSET Players : Channel!Publish(b, to) => Step
      /\ \A p \in Players : Channel!Deliver(p) \/ Channel!Hear(p) => Step
      /\ \A p \in Players : \A b \in Transit[p] : Channel!Lose(p, b) => Step
      /\ Channel!Stop => Step
      /\ UNCHANGED Channel!vars => Step
  BY DEF Channel!Next, Transit
<1> HIDE DEF Step
<1>4. ASSUME NEW p \in PCs, AddStream(p), ~Halted PROVE Step
  <2>1. /\ UNCHANGED <<tasks, sending, wire, heap, remote, bad>>
        /\ crashed' = TRUE \/ crashed' = FALSE
    BY <1>4 DEF AddStream
  <2>2. CASE crashed' = FALSE
    <3>1. crashed = crashed' \/ (~crashed /\ ~crashed')
      BY <1>4, <2>2 DEF Halted
    <3>2. Transit' = Transit /\ Delivered' = Delivered /\ Heard' = Heard /\ (~Halted') = ~Halted
      BY <2>1, <3>1 DEF Transit, Delivered, Heard, Media, Halted
    <3> QED BY <1>3, <3>2, ChannelActions
  <2>3. CASE crashed' = TRUE
    <3>1. Transit' = Transit /\ Delivered' = Delivered /\ Heard' = Heard /\ (~Halted') = FALSE
      BY <2>1, <2>3 DEF Transit, Delivered, Heard, Media, Halted
    <3> QED BY <1>3, <1>4, <3>1, ChannelActions
  <2> QED BY <2>1, <2>2, <2>3
<1>5. ASSUME NEW p \in PCs, RunMedia(p), ~Halted PROVE Step
  BY <1>3, <1>5, ChannelAccepted, ChannelRefused DEF RunMedia
<1>6. ASSUME NEW p \in PCs, UdpWrite(p), ~Halted PROVE Step
  BY <1>3, <1>6, ChannelWritten
<1>7. ASSUME NEW p \in PCs, ~Halted, Transit' = Transit, Delivered' = Delivered,
             Heard' = IF p \in Players THEN Heard \cup {p} ELSE Heard
      PROVE  Step
  <2>1. CASE Halted'
    <3>1. Heard' = Heard \/ \E q \in Players : Heard' = Heard \cup {q}
      BY <1>7
    <3>2. Channel!Stop
      BY <1>7, <2>1, <3>1, ChannelActions
    <3> QED BY <1>3, <3>2
  <2>2. CASE ~Halted'
    <3>1. (~Halted') = ~Halted
      BY <1>7, <2>2
    <3>2. CASE p \in Players
      BY <1>3, <1>7, <3>1, <3>2, ChannelActions
    <3>3. CASE p \notin Players
      BY <1>3, <1>7, <3>1, <3>3, ChannelActions
    <3> QED BY <3>2, <3>3
  <2> QED BY <2>1, <2>2
<1>8. ASSUME NEW p \in PCs, NEW kind \in Kinds, NEW reply \in {"reply", "feedback"},
             NEW replies, replies = <<>> \/ replies = <<reply>>, Receive(p, kind, replies),
             wire' = wire, tasks' = tasks, ~Halted
      PROVE  Step
  <2>1. PICK T : T = {}
    OBVIOUS
  <2>2. \A q \in PCs : tasks'[q] = IF q \in T THEN Append(tasks[q], Len(heap) + 1) ELSE tasks[q]
    BY <1>8, <2>1
  <2>3. /\ Transit' = [q \in Players |-> IF q \in T THEN Transit[q] \cup {Len(heap) + 1}
                                                    ELSE Transit[q]]
        /\ Delivered' = Delivered
        /\ Heard' = IF p \in Players THEN Heard \cup {p} ELSE Heard
    <3>1. kind = "rtp" \/ T = {}
      BY <2>1
    <3> QED BY <1>8, <2>2, <3>1, ChannelReceived, Zenon
  <2>4. Transit' = Transit
    BY <2>1, <2>3 DEF Transit
  <2> QED BY <1>7, <1>8, <2>3, <2>4
<1>9. ASSUME NEW p \in PCs, NEW w \in BOOLEAN, RecvStun(p, w), ~Halted PROVE Step
  <2>1. PICK replies : (replies = <<>> \/ replies = <<"reply">>) /\ Receive(p, "stun", replies)
    BY <1>9 DEF RecvStun
  <2>2. wire' = wire /\ tasks' = tasks
    BY <1>9 DEF RecvStun
  <2> QED BY <1>8, <1>9, <2>1, <2>2 DEF Kinds
<1>10. ASSUME NEW p \in PCs, RecvRtcp(p), ~Halted PROVE Step
  BY <1>8, <1>10 DEF Kinds, RecvRtcp
<1>11. ASSUME NEW p \in PCs, NEW tcc \in BOOLEAN, RecvRtp(p, tcc), ~Halted PROVE Step
  <2>1. PICK replies : (replies = <<>> \/ replies = <<"feedback">>) /\ Receive(p, "rtp", replies)
    BY <1>11 DEF RecvRtp, Feedback
  <2>2. wire' = wire /\ crashed' = ~hasRemote[p] /\ hasRemote[p] \in BOOLEAN
    BY <1>11 DEF RecvRtp, Relayed, Typed
  <2>3. CASE ~hasRemote[p]
    <3>1. tasks' = tasks
      BY <1>11, <2>3 DEF RecvRtp, Relayed, Typed
    <3> QED BY <1>8, <1>11, <2>1, <2>2, <3>1 DEF Kinds
  <2>4. CASE hasRemote[p]
    <3> DEFINE T == LiveSinks(p)
    <3>1. p \in Publishers /\ p \notin Players /\ T \in SUBSET Players
      BY <2>4, PCAssumption DEF Relayed, RemotesPublish, Typed, LiveSinks
    <3>2. \A q \in PCs : tasks'[q] = IF q \in T THEN Append(tasks[q], Len(heap) + 1) ELSE tasks[q]
      BY <1>11, <2>4 DEF RecvRtp, OnMediaData, Received
    <3> HIDE DEF T
    <3>3. "rtp" \in Kinds
      BY DEF Kinds
    <3>4. /\ Transit' = [q \in Players |-> IF q \in T THEN Transit[q] \cup {Len(heap) + 1}
                                                      ELSE Transit[q]]
          /\ Delivered' = Delivered
          /\ Heard' = IF p \in Players THEN Heard \cup {p} ELSE Heard
          /\ \A q \in Players : \A c \in Transit[q] \cup Delivered[q] : c < Len(heap) + 1
          /\ Len(heap) + 1 \in Bufs
      BY <2>1, <2>2, <3>2, <3>3, ChannelReceived
    <3>5. (~Halted') = ~Halted
      BY <1>2, <1>11, <2>2, <2>4 DEF Halted
    <3>6. Channel!Publish(Len(heap) + 1, T)
      BY <1>11, <3>1, <3>4, <3>5, ChannelActions
    <3> QED BY <1>3, <3>1, <3>4, <3>6
  <2> QED BY <2>2, <2>3, <2>4
<1>12. ASSUME NEW p \in PCs, SendCb(p) PROVE Step
  BY <1>2, <1>3, <1>12, ChannelStutters DEF SendCb
<1>13. CASE \E p \in PCs : Construct(p) \/ (\E sends \in BOOLEAN : CreateAnswer(p, sends))
                           \/ CreateAnswerThrows(p) \/ Start(p) \/ RunStart(p)
  BY <1>1, <1>13 DEF Construct, CreateAnswer, CreateAnswerThrows, Start, RunStart
<1> QED BY <1>1, <1>4, <1>5, <1>6, <1>9, <1>10, <1>11, <1>12, <1>13
        DEF Next, Handler, Loop, Network, vars, Step

(* The queues start empty. *)
LEMMA ChannelInit == Init => Channel!Init
<1> SUFFICES ASSUME Init PROVE Channel!Init
  OBVIOUS
<1>1. \A p \in Players : sending[p] = <<>> /\ tasks[p] = <<>> /\ wire[p] = <<>> /\ remote[p] = "garbage"
  BY DEF Init, PCs
<1>2. Media(<<>>) = {}
  BY DEF Media
<1>3. ~crashed /\ bad = {}
  BY DEF Init
<1> QED BY <1>1, <1>2, <1>3 DEF Channel!Init, Halted

(* While no stream has two sinks the relay is MediaRelay, step by step: the loops,
   the task queue and the socket neither reorder, nor repeat, nor invent a packet,
   and lose one only while nothing has been heard from its player. *)
THEOREM OneSinkImplementsRelay ==
  Spec /\ []OneSinkEach => Channel!Init /\ [][Channel!Next]_(Channel!vars)
<1>1. Init /\ [][Next]_vars /\ []OneSinkEach => []Relayed
  <2> DEFINE Q == \A p \in PCs : Queued(p)
             O == \A p \in PCs : InOrder(p)
  <2>1. Init => O /\ RemotesPublish
    BY InOrderInit
  <2>2. Typed /\ Q /\ O /\ RemotesPublish /\ [Next]_vars => O' /\ RemotesPublish'
    BY InOrderStep, RemotesStep
  <2>3. Typed /\ Q /\ Owned /\ Ported /\ O /\ RemotesPublish => Relayed
    BY DEF Relayed, Owned
  <2>4. Init /\ [][Next]_vars /\ []OneSinkEach => [](Typed /\ Q /\ Owned)
    BY OwnedInvariant
  <2>5. Init /\ [][Next]_vars => [](Typed /\ Kept /\ Ported)
    BY LifeInvariant
  <2> HIDE DEF Q, O
  <2> QED BY <2>1, <2>2, <2>3, <2>4, <2>5, PTL
<1> QED BY <1>1, ChannelInit, ChannelStep, PTL DEF Spec

(* With one player it always is. *)
THEOREM OnePlayerImplementsRelay ==
  ASSUME \A p, q \in Players : p = q
  PROVE  Spec => Channel!Init /\ [][Channel!Next]_(Channel!vars)
<1>1. Typed => OneSinkEach
  BY DEF Typed, OneSinkEach
<1>2. Init /\ [][Next]_vars => []Typed
  BY TypedInit, TypedStep, PTL
<1> QED BY <1>1, <1>2, OneSinkImplementsRelay, PTL DEF Spec

=============================================================================
