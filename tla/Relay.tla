------------------------------- MODULE Relay -------------------------------
(***************************************************************************)
(* The media plane: PeerConnections that receive RTP from a publisher, the *)
(* MediaStream that fans it out, and the PeerConnections that send it to   *)
(* players, set up by the /post and /play handlers.                        *)
(*                                                                         *)
(* Handlers run on HTTP threads and every PeerConnection's callbacks on    *)
(* the thread of its own libuv loop; a step is one callback, one queued    *)
(* task or one statement of a handler that other threads can observe.      *)
(* What crosses threads is the task that Pool::Async posts.  Received      *)
(* datagrams and replies are malloc'ed buffers that travel by pointer and  *)
(* are freed by send_u; they are numbered here in order of allocation.     *)
(*                                                                         *)
(* A null dereference ends the process (crashed).  Behaviour after a read  *)
(* or a free of freed memory is undefined: the model records the error in  *)
(* bad and stops there.                                                    *)
(***************************************************************************)
EXTENDS Integers, Sequences, FiniteSets

CONSTANTS
  Publishers,  \* PeerConnections made by /post
  Players,     \* PeerConnections made by /play
  NoStream,    \* the empty shared_ptr
  Refused,     \* those whose port the system does not let them have
  MaxBufs      \* bound on the buffers allocated in a behaviour

ASSUME PCAssumption == Publishers \cap Players = {} /\ NoStream \notin Publishers
ASSUME RefusedAssumption == Refused \subseteq Publishers \cup Players
ASSUME MaxBufsAssumption == MaxBufs \in Nat

PCs == Publishers \cup Players
Bufs == 1..MaxBufs

VARIABLES
  phase,      \* how far the handler that made the PeerConnection has come
  stream,     \* main's stream: the publisher whose remoteStream_ it is
  hasRemote,  \* remoteStream_ is set
  sinks,      \* sinks_ of each publisher's remoteStream_
  pcTable,    \* Server::pcTable, which keeps PeerConnections alive
  startTask,  \* Start's task is queued
  tasks,      \* OnMediaData's tasks, in the order they were posted
  sock,       \* the local port of socket_: none, the advertised one, another,
              \* or what it has after the system has refused the advertised one
  recving,    \* uv_udp_recv_start has run
  timer,      \* iceTimer is running
  remote,     \* lastRemote_, uninitialised until the first datagram
  heap,       \* what each allocated buffer holds
  freed,      \* the buffers send_u has freed
  sending,    \* socket_'s queue of sends not yet written
  sent,       \* written ones whose send_u is due
  wire,       \* history: what was written, in order
  given,      \* history: the media OnRTP handed to the sink
  rejected,   \* history: the media uv_udp_send refused
  crashed,
  bad         \* memory errors so far

vars == <<phase, stream, hasRemote, sinks, pcTable, startTask, tasks, sock, recving, timer,
          remote, heap, freed, sending, sent, wire, given, rejected, crashed, bad>>
signaling == <<phase, stream, hasRemote, pcTable>>
memory == <<heap, freed, bad>>
socket == <<sending, sent, wire>>

-----------------------------------------------------------------------------
(* Lifetime of a PeerConnection.                                           *)

(* The handler's local shared_ptr, the table, and the tasks' captures. *)
Referenced(p) ==
  \/ phase[p] \in {"built", "attached", "answered"}
  \/ p \in pcTable
  \/ startTask[p]
  \/ tasks[p] # <<>>

(* Server::AddPC: from then on the table holds a reference for good. *)
AddPCMissing(p) == pcTable
AddPC(p) == pcTable \cup {p}

Dead(p) == phase[p] = "done" /\ ~Referenced(p)

(* The destructor, run by whoever drops the last reference: it leaves the
   stream's sinks and stops receiving, but iceTimer keeps running. *)
Destroy(p, starts) ==
  /\ sinks' = [s \in Publishers |-> IF Dead(p)' THEN sinks[s] \ {p} ELSE sinks[s]]
  /\ recving' = [recving EXCEPT ![p] = (@ \/ starts) /\ ~Dead(p)']

-----------------------------------------------------------------------------
(* The /post and /play handlers.                                           *)

Init ==
  /\ phase = [p \in PCs |-> "none"]
  /\ stream = NoStream
  /\ hasRemote = [p \in PCs |-> FALSE]
  /\ sinks = [p \in Publishers |-> {}]
  /\ pcTable = {}
  /\ startTask = [p \in PCs |-> FALSE]
  /\ tasks = [p \in PCs |-> <<>>]
  /\ sock = [p \in PCs |-> "unbound"]
  /\ recving = [p \in PCs |-> FALSE]
  /\ timer = [p \in PCs |-> FALSE]
  /\ remote = [p \in PCs |-> "garbage"]
  /\ heap = <<>>
  /\ freed = {}
  /\ sending = [p \in PCs |-> <<>>]
  /\ sent = [p \in PCs |-> <<>>]
  /\ wire = [p \in PCs |-> <<>>]
  /\ given = [p \in PCs |-> {}]
  /\ rejected = [p \in PCs |-> {}]
  /\ crashed = FALSE
  /\ bad = {}

(* std::make_shared<PeerConnection>(): handles initialised, nothing bound. *)
Construct(p) ==
  /\ phase[p] = "none"
  /\ phase' = [phase EXCEPT ![p] = "built"]
  /\ UNCHANGED <<stream, hasRemote, sinks, pcTable, startTask, tasks, sock, recving, timer,
                 remote, memory, socket, given, rejected, crashed>>

(* pc2->AddStream(stream): from here on media may reach the sink, although it
   is neither answered nor started. Without a stream it is a null pointer. *)
AddStream(p) ==
  /\ p \in Players /\ phase[p] = "built"
  /\ phase' = [phase EXCEPT ![p] = "attached"]
  /\ crashed' = (stream = NoStream)
  /\ sinks' = [s \in Publishers |-> IF s = stream THEN sinks[s] \cup {p} ELSE sinks[s]]
  /\ UNCHANGED <<stream, hasRemote, pcTable, startTask, tasks, sock, recving, timer, remote,
                 memory, socket, given, rejected>>

ReadyToAnswer(p) == phase[p] = IF p \in Players THEN "attached" ELSE "built"

(* CreateAnswer: an offer that sends media creates remoteStream_ and calls
   callback_, which only /post has set; then AddPC. *)
CreateAnswer(p, sends) ==
  /\ ReadyToAnswer(p)
  /\ sends => p \in Publishers
  /\ phase' = [phase EXCEPT ![p] = "answered"]
  /\ hasRemote' = [hasRemote EXCEPT ![p] = sends]
  /\ stream' = IF sends THEN p ELSE stream
  /\ pcTable' = AddPC(p)
  /\ UNCHANGED <<sinks, startTask, tasks, sock, recving, timer, remote, memory, socket, given,
                 rejected, crashed>>

(* CreateAnswer throws, on a malformed offer or for want of a callback_: the
   handler's reference goes, and with it the object unless a task holds it. *)
CreateAnswerThrows(p) ==
  /\ ReadyToAnswer(p)
  /\ phase' = [phase EXCEPT ![p] = "done"]
  /\ UNCHANGED <<stream, hasRemote, pcTable, startTask, tasks, sock, timer, remote, memory,
                 socket, given, rejected, crashed>>
  /\ Destroy(p, FALSE)

(* pc->Start() posts its task and the handler returns. *)
Start(p) ==
  /\ phase[p] = "answered"
  /\ phase' = [phase EXCEPT ![p] = "done"]
  /\ startTask' = [startTask EXCEPT ![p] = TRUE]
  /\ UNCHANGED <<stream, hasRemote, pcTable, tasks, sock, timer, remote, memory, socket, given,
                 rejected, crashed>>
  /\ Destroy(p, FALSE)

-----------------------------------------------------------------------------
(* Tasks on the PeerConnection's loop.                                     *)

(* uv_udp_bind, whose result Start ignores.  The system refuses a port that
   another socket has or that is privileged, and takes 0, which a port is after
   its 16-bit wrap, for any port.  On a socket that an earlier send has bound
   to a port of the kernel's choice the call fails anyway. *)
BindSkipped(p) == sock[p]
Bind(p) ==
  CASE sock[p] # "unbound" -> sock[p]
    [] sock[p] = "unbound" /\ p \in Refused -> "refused"
    [] sock[p] = "unbound" /\ p \notin Refused -> "advertised"

(* Start's task. *)
RunStart(p) ==
  /\ startTask[p]
  /\ startTask' = [startTask EXCEPT ![p] = FALSE]
  /\ sock' = [sock EXCEPT ![p] = Bind(p)]
  /\ timer' = [timer EXCEPT ![p] = TRUE]
  /\ UNCHANGED <<signaling, tasks, remote, memory, socket, given, rejected, crashed>>
  /\ Destroy(p, TRUE)

(* sendData to a known peer, or to a garbage address uv_udp_send accepts;
   sending binds an unbound socket. *)
RunMediaAccepted(p) ==
  /\ tasks[p] # <<>>
  /\ tasks' = [tasks EXCEPT ![p] = Tail(@)]
  /\ sending' = [sending EXCEPT ![p] = Append(@, Head(tasks[p]))]
  /\ sock' = [sock EXCEPT ![p] = IF @ = "unbound" THEN "other" ELSE @]
  /\ UNCHANGED <<signaling, startTask, timer, remote, memory, sent, wire, given, rejected,
                 crashed>>
  /\ Destroy(p, FALSE)

(* sendData to a garbage address uv_udp_send refuses: no send_u will come, so
   the request and the buffer are leaked. *)
RunMediaRefused(p) ==
  /\ tasks[p] # <<>> /\ remote[p] = "garbage"
  /\ tasks' = [tasks EXCEPT ![p] = Tail(@)]
  /\ rejected' = [rejected EXCEPT ![p] = @ \cup {Head(tasks[p])}]
  /\ UNCHANGED <<signaling, startTask, sock, timer, remote, memory, socket, given, crashed>>
  /\ Destroy(p, FALSE)

RunMedia(p) == RunMediaAccepted(p) \/ RunMediaRefused(p)

-----------------------------------------------------------------------------
(* Socket callbacks on the PeerConnection's loop.                          *)

(* libuv writes the next datagram, reading its buffer. *)
UdpWrite(p) ==
  /\ sending[p] # <<>> /\ ~Dead(p)
  /\ sending' = [sending EXCEPT ![p] = Tail(@)]
  /\ sent' = [sent EXCEPT ![p] = Append(@, Head(sending[p]))]
  /\ wire' = [wire EXCEPT ![p] = Append(@, Head(sending[p]))]
  /\ bad' = bad \cup (IF Head(sending[p]) \in freed THEN {"use after free"} ELSE {})
  /\ UNCHANGED <<signaling, sinks, startTask, tasks, sock, recving, timer, remote, heap, freed,
                 given, rejected, crashed>>

Free(b) == freed \cup {b}

(* send_u frees the buffer of the request. *)
SendCb(p) ==
  /\ sent[p] # <<>> /\ ~Dead(p)
  /\ sent' = [sent EXCEPT ![p] = Tail(@)]
  /\ freed' = Free(Head(sent[p]))
  /\ bad' = bad \cup (IF Head(sent[p]) \in freed THEN {"double free"} ELSE {})
  /\ UNCHANGED <<signaling, sinks, startTask, tasks, sock, recving, timer, remote, heap,
                 sending, wire, given, rejected, crashed>>

(* read_u and OnSocketData up to the dispatch: buf_alloc's buffer, followed by
   the replies, all of which leave through socket_ to the sender. *)
Receive(p, kind, replies) ==
  /\ recving[p]
  /\ Len(heap) + 1 + Len(replies) <= MaxBufs
  /\ remote' = [remote EXCEPT ![p] = "peer"]
  /\ heap' = heap \o <<kind>> \o replies
  /\ sending' = [sending EXCEPT ![p] = @ \o [i \in 1..Len(replies) |-> Len(heap) + 1 + i]]

(* The buffer read_u is called with. *)
Received == Len(heap) + 1

(* A STUN request is answered at once; one whose attributes do not fit makes
   Parse return nullptr, which OnSocketData dereferences. *)
RecvStun(p, wellFormed) ==
  /\ Receive(p, "stun", IF wellFormed THEN <<"reply">> ELSE <<>>)
  /\ crashed' = ~wellFormed
  /\ UNCHANGED <<signaling, sinks, startTask, tasks, sock, recving, timer, freed, sent, wire,
                 given, rejected, bad>>

(* RTCP is parsed and dropped. *)
RecvRtcp(p) ==
  /\ Receive(p, "rtcp", <<>>)
  /\ UNCHANGED <<signaling, sinks, startTask, tasks, sock, recving, timer, freed, sent, wire,
                 given, rejected, crashed, bad>>

(* The sinks OnRTP finds alive. *)
LiveSinks(p) == IF p \in Publishers THEN {q \in sinks[p] : Referenced(q)} ELSE {}

(* OnMediaData: post a task for the buffer to the sink's loop. *)
PostTwice(queue, b) == queue \o <<b, b>>
PostFirst(queue, b) == <<b>> \o queue
PostIfIdle(queue, b) == IF queue = <<>> THEN <<b>> ELSE queue
OnMediaData(queue, b) == Append(queue, b)

(* RTPIncomingSession::AddPacket and OnRTCP: when transport-cc was negotiated
   and the packet carries its extension, a feedback is sent. *)
Feedback(tcc) == IF tcc THEN <<"feedback">> ELSE <<>>

(* RTP: the feedback first, then OnRTP posts the received buffer to every live
   sink. *)
RecvRtp(p, tcc) ==
  /\ Receive(p, "rtp", Feedback(tcc))
  /\ crashed' = ~hasRemote[p]
  /\ tasks' = [q \in PCs |-> IF hasRemote[p] /\ q \in LiveSinks(p)
                             THEN OnMediaData(tasks[q], Received) ELSE tasks[q]]
  /\ given' = [q \in PCs |-> IF hasRemote[p] /\ q \in LiveSinks(p)
                             THEN given[q] \cup {Received} ELSE given[q]]
  /\ UNCHANGED <<signaling, sinks, startTask, sock, recving, timer, freed, sent, wire, rejected,
                 bad>>

-----------------------------------------------------------------------------

Halted == crashed \/ bad # {}

Handler(p) ==
  \/ Construct(p)
  \/ AddStream(p)
  \/ \E sends \in BOOLEAN : CreateAnswer(p, sends)
  \/ CreateAnswerThrows(p)
  \/ Start(p)

Loop(p) == RunStart(p) \/ RunMedia(p) \/ UdpWrite(p) \/ SendCb(p)

Network(p) ==
  \/ \E wellFormed \in BOOLEAN : RecvStun(p, wellFormed)
  \/ RecvRtcp(p)
  \/ \E tcc \in BOOLEAN : RecvRtp(p, tcc)

Next == ~Halted /\ \E p \in PCs : Handler(p) \/ Loop(p) \/ Network(p)

(* A loop thread keeps running its tasks and its sockets' writes and
   completions; nothing obliges a client or the network to act. *)
Fairness ==
  \A p \in PCs :
    /\ WF_vars(~Halted /\ RunStart(p))
    /\ WF_vars(~Halted /\ RunMedia(p))
    /\ WF_vars(~Halted /\ UdpWrite(p))
    /\ WF_vars(~Halted /\ SendCb(p))

Spec == Init /\ [][Next]_vars /\ Fairness

-----------------------------------------------------------------------------
(* Properties.                                                             *)

(* A packet handed to a sink is sent to its socket as it was received: the
   buffer that OnMediaData, sendData and send_u pass on by pointer is not
   read or freed again after send_u has freed it. *)
BuffersSound == bad = {}

(* Everything p's side of the relay still holds of buffer b. *)
Holds(p, b) ==
  LET queue == tasks[p] \o sending[p] \o sent[p]
  IN  {<<p, i>> : i \in {j \in 1..Len(queue) : queue[j] = b}}

(* A buffer that OnRTP's tasks, the socket's queue or a pending send_u refers
   to has exactly one such reference and has not been freed, whatever the
   order in which the loops of publisher and player get to run. *)
SoleOwner ==
  \A b \in Bufs :
    LET holders == UNION {Holds(p, b) : p \in PCs}
    IN  Cardinality(holders) <= 1 /\ (holders # {} => b \notin freed)

(* The buffers on p's way to its peer: written, about to be written, waiting. *)
Pipeline(p) == wire[p] \o sending[p] \o tasks[p]

(* The media in a queue. *)
Media(queue) == {b \in {queue[i] : i \in 1..Len(queue)} : heap[b] = "rtp"}

(* Every packet OnRTP handed to a sink is on its way or written, unless
   uv_udp_send refused it for want of a peer address; none is invented, and
   none is there twice. *)
MediaConserved ==
  \A p \in Players :
    /\ Media(Pipeline(p)) \cup rejected[p] = given[p] /\ Media(Pipeline(p)) \cap rejected[p] = {}
    /\ \A i, j \in 1..Len(Pipeline(p)) : Pipeline(p)[i] = Pipeline(p)[j] => i = j

(* The raw this in socket_.data and iceTimer.data never outlives the object:
   once Start's task has run, the table keeps the PeerConnection alive. *)
CallbackTargetAlive == \A p \in PCs : timer[p] \/ recving[p] => ~Dead(p)

(* A started connection listens on the port its answer advertises, although
   Start ignores uv_udp_bind's result, unless the system refuses the port or
   it is a player that media has overtaken: a publisher, which is nobody's
   sink, whose port is free always does. *)
AdvertisedPortOpen ==
  \A p \in PCs : recving[p] /\ sock[p] # "advertised" =>
    p \in Refused \/ (p \in Players /\ given[p] # {})

(* The two loops, the task queue and the socket between them are one ordered
   channel per player, which loses packets only while the player's address is
   not known; see MediaRelay. *)
Channel ==
  INSTANCE MediaRelay WITH
    Packets <- Bufs,
    transit <- [p \in Players |-> Media(sending[p]) \cup Media(tasks[p])],
    delivered <- [p \in Players |-> Media(wire[p])],
    heard <- {p \in Players : remote[p] = "peer"},
    up <- ~Halted
ImplementsMediaRelay == Channel!Spec

=============================================================================
