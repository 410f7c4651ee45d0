----------------------------- MODULE Signaling -----------------------------
(***************************************************************************)
(* The /post and /play handlers on the threads of the HTTP server, up to   *)
(* the answer: a PeerConnection takes a loop of Pool and a port of Server, *)
(* a player attaches to the current stream, CreateAnswer goes through the  *)
(* media of the offer, hands the stream it has made to the handler's       *)
(* callback_ and enters the connection in pcTable.                         *)
(*                                                                         *)
(* A step is what other threads can tell apart: one access to a shared     *)
(* counter, one media of an offer, the callback, AddPC.  Of the media      *)
(* plane it has what handlers meet: a packet that OnRTP hands to a stream's *)
(* sinks leaves tasks behind that hold them.  Connections are numbered in  *)
(* the order of their constructors; a MediaStream is named by the          *)
(* connection whose remoteStream_ it is.                                   *)
(***************************************************************************)
EXTENDS Integers, Sequences, FiniteSetsExt

CONSTANTS
  Threads,      \* the threads that run handlers
  PostOffers,   \* bodies of /post requests: sequences of media
  PlayOffers,   \* bodies of /play requests
  LoopNum,      \* loops of Pool
  IndexValues,  \* values of Pool::index, a uint8_t
  FirstPort,    \* the port Server is made with
  PortValues,   \* values of PeerConnection::port_, a uint16_t
  IdValues,     \* values of an extension's id in extMap_, a uint8_t
  MaxConns      \* bound on the connections made in a behaviour

Media ==
  [type : {"audio", "video"},
   direction : {"sendonly", "recvonly", "sendrecv", "inactive"},
   ssrc : Nat,                                 \* 0: no ssrcs line
   ext : SUBSET (Nat \X {"tcc", "other"}),     \* extmap lines: id and URI
   ufrag : BOOLEAN]                            \* an ice-ufrag line

ASSUME CountersAssumption ==
  /\ LoopNum \in Nat \ {0} /\ IndexValues \in Nat \ {0} /\ IndexValues % LoopNum = 0
  /\ PortValues \in Nat \ {0} /\ FirstPort \in 0..(PortValues - 1)
  /\ IdValues \in Nat \ {0} /\ MaxConns \in Nat

ASSUME OffersAssumption == \A body \in PostOffers \cup PlayOffers : body \in Seq(Media)

Conns == 1..MaxConns
None == 0

VARIABLES
  index,        \* Pool::index
  port_,        \* Server::port_
  stream,       \* main's stream
  pcTable,      \* Server::pcTable
  sinks,        \* sinks_ of each connection's remoteStream_
  held,         \* the connections that a queued task of OnMediaData refers to
  at,           \* where each thread is in its handler
  mine,         \* the connection the thread's handler has made
  seen,         \* the value of port_ the thread has read
  kind,         \* "post" or "play"; "none" before construction, "failed" after a throw
  offer,        \* the body of the request
  loop_,        \* the loop of each connection, or -1
  port,         \* the port of each connection, or -1
  localStream_,
  ssrcs,        \* audioSSRC_ and videoSSRC_ of remoteStream_, <<>> while it is null
  extMap_,      \* the ids sessionManager_ maps to TransportCC
  answer,       \* the media answered so far
  crashed,      \* AddStream of a null stream
  overlapped    \* history: two constructors have been inside one counter's update

vars == <<index, port_, stream, pcTable, sinks, held, at, mine, seen, kind, offer, loop_, port,
          localStream_, ssrcs, extMap_, answer, crashed, overlapped>>
counters == <<index, port_, seen, loop_, port, overlapped>>
session == <<localStream_, ssrcs, extMap_, answer>>

Made == Cardinality({c \in Conns : kind[c] # "none"})

Goto(t, place) == at' = [at EXCEPT ![t] = place]

-----------------------------------------------------------------------------
(* The constructor of PeerConnection.                                      *)

(* GetInstance(8080) has made the Server, whose constructor took one loop. *)
Init ==
  /\ index = 1 % IndexValues
  /\ port_ = FirstPort
  /\ stream = None
  /\ pcTable = {}
  /\ sinks = [c \in Conns |-> {}]
  /\ held = {}
  /\ at = [t \in Threads |-> "idle"]
  /\ mine = [t \in Threads |-> None]
  /\ seen = [t \in Threads |-> 0]
  /\ kind = [c \in Conns |-> "none"]
  /\ offer = [c \in Conns |-> <<>>]
  /\ loop_ = [c \in Conns |-> -1]
  /\ port = [c \in Conns |-> -1]
  /\ localStream_ = [c \in Conns |-> None]
  /\ ssrcs = [c \in Conns |-> <<>>]
  /\ extMap_ = [c \in Conns |-> {}]
  /\ answer = [c \in Conns |-> <<>>]
  /\ crashed = FALSE
  /\ overlapped = {}

(* History: a thread enters a counter's update while another is inside. *)
Enter(t, place) ==
  overlapped' = IF \E u \in Threads \ {t} : at[u] = place THEN overlapped \cup {place}
                                                          ELSE overlapped

(* index ++, of a uint8_t. *)
NextIndexShort == (index + 1) % (IndexValues - 1)
NextIndex == (index + 1) % IndexValues

(* A request: its handler makes a PeerConnection, which enters GetLoop. *)
Construct(t, k, body) ==
  /\ at[t] = "idle" /\ Made < MaxConns
  /\ mine' = [mine EXCEPT ![t] = Made + 1]
  /\ kind' = [kind EXCEPT ![Made + 1] = k]
  /\ offer' = [offer EXCEPT ![Made + 1] = body]
  /\ index' = NextIndex
  /\ Enter(t, "getLoop") /\ Goto(t, "getLoop")
  /\ UNCHANGED <<port_, stream, pcTable, sinks, held, seen, loop_, port, session, crashed>>

(* GetLoop reads index again. *)
GetLoop(t) ==
  /\ at[t] = "getLoop"
  /\ loop_' = [loop_ EXCEPT ![mine[t]] = index % LoopNum]
  /\ Goto(t, "gotLoop")
  /\ UNCHANGED <<index, port_, stream, pcTable, sinks, held, mine, seen, kind, offer, port, session,
                 crashed, overlapped>>

(* port_ ++ reads the counter, which no lock protects, *)
GetPortRead(t) ==
  /\ at[t] = "gotLoop"
  /\ seen' = [seen EXCEPT ![t] = port_]
  /\ Enter(t, "getPort") /\ Goto(t, "getPort")
  /\ UNCHANGED <<index, port_, stream, pcTable, sinks, held, mine, kind, offer, loop_, port,
                 session, crashed>>

(* the port of the PeerConnection, cut to 16 bits, *)
PortOfShort(p) == p % (PortValues \div 2)
PortOf(p) == p % PortValues

(* and writes it back one higher. *)
GetPortWrite(t) ==
  /\ at[t] = "getPort"
  /\ port_' = seen[t] + 1
  /\ port' = [port EXCEPT ![mine[t]] = PortOf(seen[t])]
  /\ Goto(t, IF kind[mine[t]] = "play" THEN "attach" ELSE "answer")
  /\ UNCHANGED <<index, stream, pcTable, sinks, held, mine, seen, kind, offer, loop_, session,
                 crashed, overlapped>>

-----------------------------------------------------------------------------
(* AddStream and CreateAnswer.                                             *)

(* pc2->AddStream(stream). *)
AddStream(t) ==
  /\ at[t] = "attach"
  /\ crashed' = (stream = None)
  /\ localStream_' = [localStream_ EXCEPT ![mine[t]] = stream]
  /\ sinks' = [c \in Conns |-> IF c = stream THEN sinks[c] \cup {mine[t]} ELSE sinks[c]]
  /\ Goto(t, "answer")
  /\ UNCHANGED <<counters, stream, pcTable, held, mine, kind, offer, ssrcs, extMap_, answer>>

Sends(media) == media.direction \in {"sendonly", "sendrecv"}
Receives(media) == media.direction \in {"recvonly", "sendrecv"}

Direction(media) == IF Sends(media) THEN "recvonly" ELSE "sendonly"

(* SetExtension accepts transport-cc and no other extension. *)
SetExtensionAny(ext) == ext
SetExtension(ext) == {e \in ext : e[2] = "tcc"}

(* The ids it enters in extMap_, cut to eight bits. *)
Ids(ext) == {e[1] % IdValues : e \in ext}

(* The SSRC the answer announces for a media the client receives. *)
AnnouncedNow(c, media) ==
  IF Receives(media) /\ stream # None THEN ssrcs[stream][media.type] ELSE 0
Announced(c, media) ==
  IF Receives(media) /\ localStream_[c] # None THEN ssrcs[localStream_[c]][media.type] ELSE 0

(* remoteStream_ after a media: made by the first that sends. *)
WithSSRCFresh(streamSSRCs, media) ==
  IF ~Sends(media) THEN streamSSRCs
  ELSE [type \in {"audio", "video"} |-> IF type = media.type THEN media.ssrc ELSE 0]
WithSSRC(streamSSRCs, media) ==
  IF ~Sends(media) THEN streamSSRCs
  ELSE [type \in {"audio", "video"} |->
         IF type = media.type THEN media.ssrc
         ELSE IF streamSSRCs = <<>> THEN 0 ELSE streamSSRCs[type]]

(* json conversions throw when an id or an ice-ufrag is missing. *)
Malformed(media) == ~media.ufrag \/ (Sends(media) /\ media.ssrc = 0)

AtMedia(t) == Len(answer[mine[t]]) + 1
HasMedia(t) == at[t] = "answer" /\ AtMedia(t) <= Len(offer[mine[t]])

(* One iteration of CreateAnswer's loop. *)
AnswerMedia(t) ==
  /\ HasMedia(t)
  /\ LET c == mine[t]
         media == offer[c][AtMedia(t)]
         accepted == SetExtension(media.ext)
     IN  /\ ~Malformed(media)
         /\ extMap_' = [extMap_ EXCEPT ![c] = @ \cup Ids(accepted)]
         /\ ssrcs' = [ssrcs EXCEPT ![c] = WithSSRC(@, media)]
         /\ answer' = [answer EXCEPT ![c] = Append(@,
              [direction |-> Direction(media), ext |-> accepted, ssrc |-> Announced(c, media),
               port |-> port[c]])]
  /\ UNCHANGED <<counters, stream, pcTable, sinks, held, at, mine, kind, offer, localStream_,
                 crashed>>

(* The loop is through: callback_ gets remoteStream_, if there is one, and
   /post's makes it main's stream. *)
Callback(t) ==
  /\ at[t] = "answer" /\ ~HasMedia(t)
  /\ ssrcs[mine[t]] # <<>> => kind[mine[t]] = "post"
  /\ stream' = IF ssrcs[mine[t]] # <<>> THEN mine[t] ELSE stream
  /\ Goto(t, "answered")
  /\ UNCHANGED <<counters, pcTable, sinks, held, mine, kind, offer, session, crashed>>

(* AddPC; Start posts its task, and the handler returns. *)
AddPC(t) ==
  /\ at[t] = "answered"
  /\ pcTable' = pcTable \cup {mine[t]}
  /\ Goto(t, "idle")
  /\ UNCHANGED <<counters, stream, sinks, held, mine, kind, offer, session, crashed>>

(* A connection whose handler has thrown lives while a task refers to it. *)
Dead(c) == kind[c] = "failed" /\ c \notin held

(* The destructor leaves the stream. *)
RemoveSinkForgotten(c) == sinks
RemoveSink(c) == [s \in Conns |-> sinks[s] \ {c}]

(* It is run by whoever drops the last reference. *)
DropReference(c) == sinks' = IF Dead(c)' THEN RemoveSink(c) ELSE sinks

(* CreateAnswer throws at a malformed media, or on /play, whose callback_ is
   empty, when the offer sends; the handler's reference goes. *)
Throw(t) ==
  /\ \/ HasMedia(t) /\ Malformed(offer[mine[t]][AtMedia(t)])
     \/ at[t] = "answer" /\ ~HasMedia(t) /\ ssrcs[mine[t]] # <<>> /\ kind[mine[t]] = "play"
  /\ kind' = [kind EXCEPT ![mine[t]] = "failed"]
  /\ Goto(t, "idle")
  /\ UNCHANGED <<counters, stream, pcTable, held, mine, offer, session, crashed>>
  /\ DropReference(mine[t])

-----------------------------------------------------------------------------
(* Media that arrives meanwhile, on the loops of publisher and player.     *)

handlers == <<at, mine, kind, offer>>

(* OnRTP of a publisher that is in the table: OnMediaData of every sink it can
   lock posts a task, which holds the sink. *)
OnRTP(s) ==
  /\ s \in pcTable
  /\ held' = held \cup {c \in sinks[s] : ~Dead(c)}
  /\ UNCHANGED <<counters, stream, pcTable, sinks, handlers, session, crashed>>

(* The last such task of a connection has run. *)
RunTasks(c) ==
  /\ c \in held
  /\ held' = held \ {c}
  /\ UNCHANGED <<counters, stream, pcTable, handlers, session, crashed>>
  /\ DropReference(c)

-----------------------------------------------------------------------------

Handler(t) ==
  \/ \E body \in PostOffers : Construct(t, "post", body)
  \/ \E body \in PlayOffers : Construct(t, "play", body)
  \/ GetLoop(t) \/ GetPortRead(t) \/ GetPortWrite(t)
  \/ AddStream(t) \/ AnswerMedia(t) \/ Callback(t) \/ AddPC(t) \/ Throw(t)

Next ==
  /\ ~crashed
  /\ \/ \E t \in Threads : Handler(t)
     \/ \E c \in Conns : OnRTP(c) \/ RunTasks(c)

Spec == Init /\ [][Next]_vars

-----------------------------------------------------------------------------
(* Properties.                                                             *)

(* Two connections advertise one port only when two constructors have been
   inside GetPort's unlocked increment at once, or 65536 connections lie
   between them: nothing else in the hand-out of ports repeats one. *)
PortsDistinct ==
  "getPort" \notin overlapped =>
    \A c, d \in Conns :
      c # d /\ port[c] # -1 /\ port[c] = port[d] => port_ - FirstPort > PortValues

(* While no two constructors overlap in GetLoop, the loops are taken in turn,
   also when the uint8_t index wraps: two connections share a loop exactly when
   their numbers differ by a multiple of LOOP_NUM. *)
LoopsInTurn ==
  "getLoop" \notin overlapped =>
    \A c, d \in Conns :
      loop_[c] # -1 /\ loop_[d] # -1 => (loop_[c] = loop_[d]) = ((c - d) % LoopNum = 0)

(* What an offer declares for a type: the SSRC of the last media that sends it. *)
Declared(body, type) ==
  LET sending == {k \in 1..Len(body) : Sends(body[k]) /\ body[k].type = type}
  IN  IF sending = {} THEN 0 ELSE body[Max(sending)].ssrc

(* A player never meets a stream that its publisher's thread is still filling
   in: from the moment callback_ has made it main's, both SSRCs are final. *)
StreamWhole ==
  \A s \in {stream} \cup {localStream_[c] : c \in Conns} :
    s # None => \A type \in {"audio", "video"} : ssrcs[s][type] = Declared(offer[s], type)

(* Whatever publishers come and go meanwhile, a player in the table is a sink of
   one stream and no other, so that only this publisher's media reaches it, and
   its answer announces the SSRCs of that publisher. *)
AnswerNamesStream ==
  \A c \in pcTable : kind[c] = "play" =>
    /\ \A s \in Conns : c \in sinks[s] <=> s = localStream_[c]
    /\ \A k \in 1..Len(answer[c]) : Receives(offer[c][k]) =>
         answer[c][k].ssrc = Declared(offer[localStream_[c]], offer[c][k].type)

(* GetExtensionId(TransportCC): the map is searched from the lowest id. *)
GetExtensionId(c) == IF extMap_[c] = {} THEN -1 ELSE Min(extMap_[c])

(* The extmap lines of c's offer that name transport-cc. *)
TccLines(c) == {e \in UNION {offer[c][k].ext : k \in 1..Len(answer[c])} : e[2] = "tcc"}

(* The id under which AddPacket looks for the transport sequence number is one
   the offer gave transport-cc, and it is the id that each answered media has
   agreed to, unless that id has more than eight bits or the offer gives another
   media one that is lower. *)
ExtensionAgreed ==
  \A c \in pcTable :
    /\ IF TccLines(c) = {} THEN GetExtensionId(c) = -1
       ELSE \E e \in TccLines(c) : GetExtensionId(c) = e[1] % IdValues
    /\ \A k \in 1..Len(answer[c]) : \A e \in answer[c][k].ext :
         \/ GetExtensionId(c) = e[1]
         \/ e[1] >= IdValues
         \/ \E f \in TccLines(c) : f[1] % IdValues < e[1]

(* A handler that throws half way leaves nothing behind that other requests
   could meet, no table entry and no current stream, and media finds it as a
   sink only while an earlier packet's task still holds it. *)
FailureLeavesNoTrace ==
  \A c \in Conns : kind[c] = "failed" =>
    c \notin pcTable /\ c # stream /\ \A s \in Conns : c \in sinks[s] => c \in held

=============================================================================
