-------------------------- MODULE SignalingProofs --------------------------
(***************************************************************************)
(* Proofs about Signaling for any number of threads and connections, any   *)
(* offers and any counter widths.                                          *)
(***************************************************************************)
EXTENDS Signaling, BasicLemmas, FiniteSetTheorems

-----------------------------------------------------------------------------
(* Connections and the threads that make them.                             *)

Kinds == {"none", "post", "play", "failed"}
Places == {"idle", "getLoop", "gotLoop", "getPort", "attach", "answer", "answered"}

(* The values of the variables that the media of the offers do not reach. *)
Typed ==
  /\ index \in Nat /\ port_ \in Nat
  /\ stream \in Conns \cup {None}
  /\ pcTable \in SUBSET Conns
  /\ sinks \in [Conns -> SUBSET Conns]
  /\ held \in SUBSET Conns
  /\ at \in [Threads -> Places]
  /\ mine \in [Threads -> Conns \cup {None}]
  /\ seen \in [Threads -> Nat]
  /\ kind \in [Conns -> Kinds]
  /\ loop_ \in [Conns -> Int]
  /\ port \in [Conns -> Int]
  /\ localStream_ \in [Conns -> Conns \cup {None}]

(* Connections are numbered in the order they are made, and a handler that is
   under way has one of its own. *)
Numbered ==
  /\ Made \in 0..MaxConns
  /\ \A c \in Conns : kind[c] # "none" <=> c <= Made
  /\ \A t \in Threads : at[t] # "idle" =>
       /\ mine[t] \in Conns /\ kind[mine[t]] \in {"post", "play"}
       /\ at[t] = "attach" => kind[mine[t]] = "play"
       /\ \A u \in Threads : t # u /\ at[u] # "idle" => mine[t] # mine[u]

(* What other requests can meet belongs to handlers that did not throw: a table
   entry to one that has returned, the stream to one past its callback.  A sink
   is a player, whose handler may have thrown only if a task holds it. *)
Visible ==
  /\ \A c \in pcTable :
       kind[c] \in {"post", "play"} /\ \A t \in Threads : at[t] # "idle" => mine[t] # c
  /\ stream # None =>
       /\ kind[stream] = "post"
       /\ \A t \in Threads : at[t] # "idle" /\ mine[t] = stream => at[t] = "answered"
  /\ \A s \in Conns : \A c \in sinks[s] : kind[c] = "play" \/ (kind[c] = "failed" /\ c \in held)

ConnInv == Typed /\ Numbered /\ Visible

LEMMA ConnFacts ==
  /\ MaxConns \in Nat /\ None \notin Conns
  /\ \A c \in Conns : c \in Nat /\ 1 <= c /\ c <= MaxConns
  /\ \A n \in Nat : 1 <= n /\ n <= MaxConns => n \in Conns
  BY CountersAssumption DEF Conns, None

(* Made counts the connections that have been constructed. *)
LEMMA MadeIs ==
  ASSUME NEW m \in 0..MaxConns, \A c \in Conns : kind[c] # "none" <=> c <= m
  PROVE  Made = m
<1>1. {c \in Conns : kind[c] # "none"} = 1..m
  BY ConnFacts DEF Conns
<1>2. 1 \in Int /\ m \in Int /\ m >= 0
  BY ConnFacts
<1>3. Cardinality(1..m) = IF 1 > m THEN 0 ELSE m - 1 + 1
  BY <1>2, FS_Interval
<1>4. Made = Cardinality(1..m)
  BY <1>1 DEF Made
<1> QED BY <1>2, <1>3, <1>4

LEMMA InitConnInv == Init => ConnInv
<1> SUFFICES ASSUME Init PROVE ConnInv
  OBVIOUS
<1>1. Typed
  BY CountersAssumption, ConnFacts DEF Init, Typed, Kinds, Places, None
<1>2. Made = 0
  BY ConnFacts, MadeIs DEF Init
<1>3. Numbered
  BY <1>2, ConnFacts DEF Init, Numbered
<1>4. Visible
  BY DEF Init, Visible
<1> QED BY <1>1, <1>3, <1>4 DEF ConnInv

(* A new connection, before its constructor has taken a loop. *)
LEMMA ConstructFacts ==
  ASSUME ConnInv, NEW t \in Threads, NEW k \in {"post", "play"}, NEW body, Construct(t, k, body)
  PROVE  /\ Made \in Nat /\ Made + 1 \in Conns /\ Made' = Made + 1
         /\ kind[Made + 1] = "none" /\ kind'[Made + 1] = k /\ mine'[t] = Made + 1
         /\ at'[t] = "getLoop"
         /\ \A u \in Threads : u # t => at'[u] = at[u] /\ mine'[u] = mine[u]
         /\ \A c \in Conns : c # Made + 1 => kind'[c] = kind[c]
         /\ kind' \in [Conns -> Kinds] /\ at' \in [Threads -> Places]
         /\ mine' \in [Threads -> Conns \cup {None}]
<1>1. Typed /\ Numbered
  BY DEF ConnInv
<1>2. Made \in Nat /\ Made < MaxConns /\ at[t] = "idle"
  BY <1>1, ConnFacts DEF Numbered, Construct
<1>3. Made + 1 \in Conns
  BY <1>2, ConnFacts
<1>4. kind[Made + 1] = "none"
  BY <1>1, <1>2, <1>3 DEF Numbered
<1> DEFINE m == Made
<1>5. /\ mine' = [mine EXCEPT ![t] = m + 1] /\ kind' = [kind EXCEPT ![m + 1] = k]
      /\ at' = [at EXCEPT ![t] = "getLoop"]
  BY DEF Construct, Goto
<1>6. m \in Nat /\ m < MaxConns /\ m + 1 \in Conns /\ \A c \in Conns : kind[c] # "none" <=> c <= m
  BY <1>1, <1>2, <1>3 DEF Numbered
<1> HIDE DEF m
<1>7. /\ kind'[m + 1] = k /\ mine'[t] = m + 1 /\ at'[t] = "getLoop"
      /\ \A u \in Threads : u # t => at'[u] = at[u] /\ mine'[u] = mine[u]
      /\ \A c \in Conns : c # m + 1 => kind'[c] = kind[c]
      /\ kind' \in [Conns -> Kinds] /\ at' \in [Threads -> Places]
      /\ mine' \in [Threads -> Conns \cup {None}]
  BY <1>1, <1>5, <1>6 DEF Typed, Kinds, Places
<1>8. Made' = m + 1
  <2>1. m + 1 \in 0..MaxConns
    BY <1>6, ConnFacts
  <2>2. \A c \in Conns : kind'[c] # "none" <=> c <= m + 1
    BY <1>6, <1>7, ConnFacts
  <2>3. {c \in Conns : kind'[c] # "none"} = 1..(m + 1)
    BY <2>1, <2>2, ConnFacts DEF Conns
  <2>4. 1 \in Int /\ m + 1 \in Int /\ m + 1 >= 1
    BY <1>6
  <2>5. Cardinality(1..(m + 1)) = IF 1 > m + 1 THEN 0 ELSE (m + 1) - 1 + 1
    BY <2>4, FS_Interval
  <2>6. Made' = Cardinality(1..(m + 1))
    BY <2>3 DEF Made
  <2> QED BY <1>6, <2>4, <2>5, <2>6
<1> QED BY <1>2, <1>3, <1>4, <1>7, <1>8 DEF m

LEMMA ConstructConnInv ==
  ASSUME ConnInv, NEW t \in Threads, NEW k \in {"post", "play"}, NEW body, Construct(t, k, body)
  PROVE  ConnInv'
<1> DEFINE n == Made + 1
<1>1. Typed /\ Numbered /\ Visible
  BY DEF ConnInv
<1>2. /\ Made \in Nat /\ n \in Conns /\ Made' = n
      /\ kind[n] = "none" /\ kind'[n] = k /\ mine'[t] = n /\ at'[t] = "getLoop"
      /\ \A u \in Threads : u # t => at'[u] = at[u] /\ mine'[u] = mine[u]
      /\ \A c \in Conns : c # n => kind'[c] = kind[c]
      /\ kind' \in [Conns -> Kinds] /\ at' \in [Threads -> Places]
      /\ mine' \in [Threads -> Conns \cup {None}]
  BY ConstructFacts
<1>3. \A c \in Conns : kind[c] # "none" <=> c <= Made
  BY <1>1 DEF Numbered
<1>4. /\ stream' = stream /\ pcTable' = pcTable /\ sinks' = sinks /\ held' = held
      /\ port_' = port_ /\ seen' = seen
      /\ loop_' = loop_ /\ port' = port /\ localStream_' = localStream_ /\ index' = NextIndex
      /\ at[t] = "idle"
  BY DEF Construct, session
<1>5. Typed'
  BY <1>1, <1>2, <1>4, CountersAssumption DEF Typed, NextIndex
<1>6. Numbered'
  <2>1. Made' \in 0..MaxConns
    BY <1>2, ConnFacts
  <2>2. \A c \in Conns : kind'[c] # "none" <=> c <= Made'
    BY <1>2, <1>3, ConnFacts
  <2>3. ASSUME NEW u \in Threads, at'[u] # "idle"
        PROVE  /\ mine'[u] \in Conns /\ kind'[mine'[u]] \in {"post", "play"}
               /\ at'[u] = "attach" => kind'[mine'[u]] = "play"
               /\ u # t => mine'[u] # n
    BY <1>1, <1>2, <2>3 DEF Numbered
  <2>4. ASSUME NEW u \in Threads, NEW v \in Threads, u # v, at'[u] # "idle", at'[v] # "idle"
        PROVE  mine'[u] # mine'[v]
    <3>1. CASE u = t \/ v = t
      BY <1>2, <2>3, <2>4, <3>1
    <3>2. CASE u # t /\ v # t
      BY <1>1, <1>2, <2>4, <3>2 DEF Numbered
    <3> QED BY <3>1, <3>2
  <2> QED BY <2>1, <2>2, <2>3, <2>4 DEF Numbered
<1>7. Visible'
  <2>1. ASSUME NEW c \in pcTable
        PROVE  kind'[c] \in {"post", "play"} /\ \A u \in Threads : at'[u] # "idle" => mine'[u] # c
    <3>1. c \in Conns /\ kind[c] \in {"post", "play"} /\ c # n
      BY <1>1, <1>2 DEF Visible, Typed
    <3> QED BY <1>1, <1>2, <3>1 DEF Visible
  <2>2. ASSUME stream # None
        PROVE  /\ kind'[stream] = "post"
               /\ \A u \in Threads : at'[u] # "idle" /\ mine'[u] = stream => at'[u] = "answered"
    <3>1. stream \in Conns /\ kind[stream] = "post" /\ stream # n
      BY <1>1, <1>2, <2>2 DEF Visible, Typed
    <3> QED BY <1>1, <1>2, <2>2, <3>1 DEF Visible
  <2>3. ASSUME NEW s \in Conns, NEW c \in sinks[s]
        PROVE  kind'[c] = "play" \/ (kind'[c] = "failed" /\ c \in held)
    BY <1>1, <1>2 DEF Visible, Typed
  <2> QED BY <1>4, <2>1, <2>2, <2>3 DEF Visible
<1> QED BY <1>5, <1>6, <1>7 DEF ConnInv

(* A step of a handler under way that makes no connection and fails none. *)
LEMMA HandlerKeeps ==
  ASSUME Typed, Numbered, NEW t \in Threads, NEW place \in Places, at[t] # "idle",
         place = "attach" => kind[mine[t]] = "play",
         at' = [at EXCEPT ![t] = place], mine' = mine, kind' = kind
  PROVE  /\ Numbered' /\ at' \in [Threads -> Places] /\ at'[t] = place
         /\ \A u \in Threads : u # t => at'[u] = at[u]
         /\ mine[t] \in Conns /\ kind[mine[t]] \in {"post", "play"}
<1>1. at' \in [Threads -> Places] /\ at'[t] = place /\ \A u \in Threads : u # t => at'[u] = at[u]
  BY DEF Typed
<1>2. Made' = Made
  BY DEF Made
<1>3. mine[t] \in Conns /\ kind[mine[t]] \in {"post", "play"}
  BY DEF Numbered
<1>4. Numbered'
  BY <1>1, <1>2, <1>3 DEF Numbered
<1> QED BY <1>1, <1>3, <1>4

(* Such a step that changes nothing others see, on its way to the answer. *)
LEMMA QuietConnInv ==
  ASSUME ConnInv, NEW t \in Threads, NEW place \in Places \ {"idle", "attach"},
         at[t] \notin {"idle", "answered"},
         at' = [at EXCEPT ![t] = place], mine' = mine, kind' = kind,
         stream' = stream, pcTable' = pcTable, sinks' = sinks, held' = held, Typed'
  PROVE  ConnInv'
<1>1. Typed /\ Numbered /\ Visible /\ place \in Places
  BY DEF ConnInv
<1>2. /\ Numbered' /\ at'[t] = place /\ at[t] # "idle"
      /\ \A u \in Threads : u # t => at'[u] = at[u]
  BY <1>1, HandlerKeeps
<1>3. Visible'
  BY <1>1, <1>2 DEF Visible
<1> QED BY <1>2, <1>3 DEF ConnInv

LEMMA GetLoopConnInv ==
  ASSUME ConnInv, NEW t \in Threads, GetLoop(t)
  PROVE  ConnInv'
<1>1. Typed /\ Numbered /\ at[t] = "getLoop" /\ "gotLoop" \in Places \ {"idle", "attach"}
  BY DEF ConnInv, GetLoop, Places
<1>2. /\ at' = [at EXCEPT ![t] = "gotLoop"] /\ mine' = mine /\ kind' = kind
      /\ stream' = stream /\ pcTable' = pcTable /\ sinks' = sinks /\ held' = held
  BY DEF GetLoop, Goto
<1>3. index % LoopNum \in Int
  BY <1>1, CountersAssumption DEF Typed
<1>4. at' \in [Threads -> Places] /\ loop_' \in [Conns -> Int]
  BY <1>1, <1>2, <1>3 DEF GetLoop, Typed
<1>5. Typed'
  BY <1>1, <1>4 DEF GetLoop, Typed, session
<1> QED BY <1>1, <1>2, <1>5, QuietConnInv

LEMMA GetPortReadConnInv ==
  ASSUME ConnInv, NEW t \in Threads, GetPortRead(t)
  PROVE  ConnInv'
<1>1. Typed /\ Numbered /\ at[t] = "gotLoop" /\ "getPort" \in Places \ {"idle", "attach"}
  BY DEF ConnInv, GetPortRead, Places
<1>2. /\ at' = [at EXCEPT ![t] = "getPort"] /\ mine' = mine /\ kind' = kind
      /\ stream' = stream /\ pcTable' = pcTable /\ sinks' = sinks /\ held' = held
  BY DEF GetPortRead, Goto
<1>3. at' \in [Threads -> Places] /\ seen' \in [Threads -> Nat]
  BY <1>1, <1>2 DEF GetPortRead, Typed
<1>4. Typed'
  BY <1>1, <1>3 DEF GetPortRead, Typed, session
<1> QED BY <1>1, <1>2, <1>4, QuietConnInv

LEMMA GetPortWriteConnInv ==
  ASSUME ConnInv, NEW t \in Threads, GetPortWrite(t)
  PROVE  ConnInv'
<1> DEFINE place == IF kind[mine[t]] = "play" THEN "attach" ELSE "answer"
<1>1. Typed /\ Numbered /\ Visible /\ at[t] = "getPort" /\ place \in Places /\ place # "idle"
  BY DEF ConnInv, GetPortWrite, Places
<1>2. /\ at' = [at EXCEPT ![t] = place] /\ mine' = mine /\ kind' = kind
      /\ stream' = stream /\ pcTable' = pcTable /\ sinks' = sinks /\ held' = held
  BY DEF GetPortWrite, Goto
<1>3. place = "attach" => kind[mine[t]] = "play"
  OBVIOUS
<1> HIDE DEF place
<1>4. /\ Numbered' /\ at' \in [Threads -> Places] /\ at'[t] = place
      /\ \A u \in Threads : u # t => at'[u] = at[u]
  BY <1>1, <1>2, <1>3, HandlerKeeps
<1>5. Typed'
  <2>1. seen[t] \in Nat /\ PortOf(seen[t]) \in Int
    BY <1>1, CountersAssumption DEF Typed, PortOf
  <2>2. port_' \in Nat /\ port' \in [Conns -> Int]
    <3>1. port_' = seen[t] + 1 /\ port' = [port EXCEPT ![mine[t]] = PortOf(seen[t])]
      BY DEF GetPortWrite
    <3>2. port \in [Conns -> Int]
      BY <1>1 DEF Typed
    <3> DEFINE p == PortOf(seen[t])
    <3>3. p \in Int /\ port' = [port EXCEPT ![mine[t]] = p]
      BY <2>1, <3>1
    <3> HIDE DEF p
    <3>4. port' \in [Conns -> Int]
      BY <3>2, <3>3
    <3> QED BY <2>1, <3>1, <3>4
  <2> QED BY <1>1, <1>4, <2>2 DEF GetPortWrite, Typed, session
<1>6. Visible'
  BY <1>1, <1>2, <1>4 DEF Visible
<1> QED BY <1>4, <1>5, <1>6 DEF ConnInv

LEMMA AddStreamConnInv ==
  ASSUME ConnInv, NEW t \in Threads, AddStream(t)
  PROVE  ConnInv'
<1>1. Typed /\ Numbered /\ Visible /\ at[t] = "attach" /\ "answer" \in Places
  BY DEF ConnInv, AddStream, Places
<1>2. /\ at' = [at EXCEPT ![t] = "answer"] /\ mine' = mine /\ kind' = kind
      /\ stream' = stream /\ pcTable' = pcTable /\ held' = held
      /\ localStream_' = [localStream_ EXCEPT ![mine[t]] = stream]
      /\ sinks' = [c \in Conns |-> IF c = stream THEN sinks[c] \cup {mine[t]} ELSE sinks[c]]
  BY DEF AddStream, Goto
<1>3. /\ Numbered' /\ at' \in [Threads -> Places] /\ at'[t] = "answer"
      /\ \A u \in Threads : u # t => at'[u] = at[u]
      /\ mine[t] \in Conns
  BY <1>1, <1>2, HandlerKeeps
<1>4. kind[mine[t]] = "play"
  BY <1>1 DEF Numbered
<1>5. Typed'
  <2>1. sinks' \in [Conns -> SUBSET Conns] /\ localStream_' \in [Conns -> Conns \cup {None}]
    BY <1>1, <1>2, <1>3 DEF Typed
  <2> QED BY <1>1, <1>3, <2>1 DEF AddStream, Typed, counters
<1>6. Visible'
  <2>1. \A s \in Conns : \A c \in sinks'[s] :
          kind[c] = "play" \/ (kind[c] = "failed" /\ c \in held)
    BY <1>1, <1>2, <1>4 DEF Visible
  <2> QED BY <1>1, <1>2, <1>3, <2>1 DEF Visible
<1> QED BY <1>3, <1>5, <1>6 DEF ConnInv

LEMMA AnswerMediaConnInv ==
  ASSUME ConnInv, NEW t \in Threads, AnswerMedia(t)
  PROVE  ConnInv'
<1>1. /\ at' = at /\ mine' = mine /\ kind' = kind /\ stream' = stream /\ pcTable' = pcTable
      /\ sinks' = sinks /\ held' = held /\ localStream_' = localStream_ /\ index' = index
      /\ port_' = port_ /\ seen' = seen /\ loop_' = loop_ /\ port' = port
  BY DEF AnswerMedia, counters
<1> QED BY <1>1 DEF ConnInv, Typed, Numbered, Made, Visible

LEMMA CallbackConnInv ==
  ASSUME ConnInv, NEW t \in Threads, Callback(t)
  PROVE  ConnInv'
<1>1. Typed /\ Numbered /\ Visible /\ at[t] = "answer" /\ "answered" \in Places
  BY DEF ConnInv, Callback, Places
<1>2. /\ at' = [at EXCEPT ![t] = "answered"] /\ mine' = mine /\ kind' = kind
      /\ pcTable' = pcTable /\ sinks' = sinks /\ held' = held
      /\ \/ stream' = mine[t] /\ kind[mine[t]] = "post"
         \/ stream' = stream
  BY DEF Callback, Goto
<1>3. /\ Numbered' /\ at' \in [Threads -> Places] /\ at'[t] = "answered"
      /\ \A u \in Threads : u # t => at'[u] = at[u]
      /\ mine[t] \in Conns
  BY <1>1, <1>2, HandlerKeeps
<1>4. Typed'
  <2>1. stream' \in Conns \cup {None}
    BY <1>1, <1>2, <1>3 DEF Typed
  <2> QED BY <1>1, <1>3, <2>1 DEF Callback, Typed, counters, session
<1>5. Visible'
  <2>1. \A c \in pcTable' :
          kind'[c] \in {"post", "play"} /\ \A u \in Threads : at'[u] # "idle" => mine'[u] # c
    BY <1>1, <1>2, <1>3 DEF Visible
  <2>2. CASE stream' = mine[t] /\ kind[mine[t]] = "post"
    <3>1. \A u \in Threads : at'[u] # "idle" /\ mine'[u] = stream' => at'[u] = "answered"
      BY <1>1, <1>2, <1>3, <2>2 DEF Numbered
    <3> QED BY <1>1, <1>2, <2>1, <2>2, <3>1 DEF Visible
  <2>3. CASE stream' = stream
    <3>1. stream # None =>
            \A u \in Threads : at'[u] # "idle" /\ mine'[u] = stream => at'[u] = "answered"
      BY <1>1, <1>2, <1>3 DEF Visible
    <3> QED BY <1>1, <1>2, <2>1, <2>3, <3>1 DEF Visible
  <2> QED BY <1>2, <2>2, <2>3
<1> QED BY <1>3, <1>4, <1>5 DEF ConnInv

LEMMA AddPCConnInv ==
  ASSUME ConnInv, NEW t \in Threads, AddPC(t)
  PROVE  ConnInv'
<1>1. Typed /\ Numbered /\ Visible /\ at[t] = "answered" /\ "idle" \in Places
  BY DEF ConnInv, AddPC, Places
<1>2. /\ at' = [at EXCEPT ![t] = "idle"] /\ mine' = mine /\ kind' = kind
      /\ stream' = stream /\ sinks' = sinks /\ held' = held
      /\ pcTable' = pcTable \cup {mine[t]}
  BY DEF AddPC, Goto
<1>3. /\ Numbered' /\ at' \in [Threads -> Places] /\ at'[t] = "idle"
      /\ \A u \in Threads : u # t => at'[u] = at[u]
      /\ mine[t] \in Conns /\ kind[mine[t]] \in {"post", "play"}
  BY <1>1, <1>2, HandlerKeeps
<1>4. Typed'
  <2>1. pcTable' \subseteq Conns
    BY <1>1, <1>2, <1>3 DEF Typed
  <2> QED BY <1>1, <1>3, <2>1 DEF AddPC, Typed, counters, session
<1>5. Visible'
  <2>1. \A u \in Threads : at'[u] # "idle" => mine'[u] # mine[t]
    BY <1>1, <1>2, <1>3 DEF Numbered
  <2>2. \A c \in pcTable : \A u \in Threads : at'[u] # "idle" => mine'[u] # c
    BY <1>1, <1>2, <1>3 DEF Visible
  <2>3. \A u \in Threads : at'[u] # "idle" => at'[u] = at[u]
    BY <1>3
  <2> QED BY <1>1, <1>2, <1>3, <2>1, <2>2, <2>3 DEF Visible
<1> QED BY <1>3, <1>4, <1>5 DEF ConnInv

LEMMA ThrowConnInv ==
  ASSUME ConnInv, NEW t \in Threads, Throw(t)
  PROVE  ConnInv'
<1> DEFINE c == mine[t]
<1>1. Typed /\ Numbered /\ Visible /\ at[t] = "answer"
  BY DEF ConnInv, Throw, HasMedia
<1>2. /\ at' = [at EXCEPT ![t] = "idle"] /\ mine' = mine /\ kind' = [kind EXCEPT ![c] = "failed"]
      /\ stream' = stream /\ pcTable' = pcTable /\ held' = held
      /\ sinks' = IF kind'[c] = "failed" /\ c \notin held THEN [s \in Conns |-> sinks[s] \ {c}]
                                                         ELSE sinks
  BY DEF Throw, Goto, RemoveSink, DropReference, Dead
<1>3. c \in Conns /\ kind[c] \in {"post", "play"} /\ \A u \in Threads : u # t /\ at[u] # "idle" => mine[u] # c
  BY <1>1 DEF Numbered
<1>4. c \notin pcTable /\ c # stream
  BY <1>1, <1>3, ConnFacts DEF Visible
<1> HIDE DEF c
<1>5. /\ at' \in [Threads -> Places] /\ at'[t] = "idle"
      /\ \A u \in Threads : u # t => at'[u] = at[u]
      /\ kind' \in [Conns -> Kinds] /\ kind'[c] = "failed"
      /\ \A d \in Conns : d # c => kind'[d] = kind[d]
  BY <1>1, <1>2, <1>3 DEF Typed, Places, Kinds
<1>6. Typed'
  <2>1. sinks' \in [Conns -> SUBSET Conns]
    BY <1>1, <1>2 DEF Typed
  <2> QED BY <1>1, <1>5, <2>1 DEF Throw, Typed, counters, session
<1>7. Numbered'
  <2>1. {d \in Conns : kind'[d] # "none"} = {d \in Conns : kind[d] # "none"}
    BY <1>3, <1>5
  <2>2. Made' = Made
    BY <2>1 DEF Made
  <2>3. \A d \in Conns : kind'[d] # "none" <=> d <= Made
    BY <1>1, <1>3, <1>5 DEF Numbered
  <2>4. ASSUME NEW u \in Threads, at'[u] # "idle"
        PROVE  /\ u # t /\ at'[u] = at[u] /\ mine'[u] = mine[u] /\ mine[u] \in Conns
               /\ mine[u] # c /\ kind'[mine[u]] = kind[mine[u]]
    BY <1>1, <1>2, <1>3, <1>5, <2>4 DEF Numbered
  <2> QED BY <1>1, <2>2, <2>3, <2>4 DEF Numbered
<1>8. Visible'
  <2>1. \A u \in Threads : at'[u] # "idle" => at'[u] = at[u]
    BY <1>5
  <2>2. \A d \in pcTable : d \in Conns /\ kind'[d] = kind[d]
    BY <1>1, <1>4, <1>5 DEF Typed
  <2>3. stream # None => kind'[stream] = kind[stream]
    BY <1>1, <1>4, <1>5 DEF Typed
  <2>4. ASSUME NEW s \in Conns, NEW d \in sinks'[s]
        PROVE  kind'[d] = "play" \/ (kind'[d] = "failed" /\ d \in held)
    <3>1. d \in sinks[s] /\ d \in Conns /\ (d = c => c \in held)
      BY <1>1, <1>2, <1>5 DEF Typed
    <3>2. CASE d = c
      BY <1>5, <3>1, <3>2
    <3>3. CASE d # c
      BY <1>1, <1>5, <3>1, <3>3 DEF Visible
    <3> QED BY <3>2, <3>3
  <2> QED BY <1>1, <1>2, <2>1, <2>2, <2>3, <2>4 DEF Visible
<1> QED BY <1>6, <1>7, <1>8 DEF ConnInv

(* A packet at a publisher makes tasks for its sinks, which are alive. *)
LEMMA OnRTPConnInv ==
  ASSUME ConnInv, NEW p \in Conns, OnRTP(p)
  PROVE  ConnInv'
<1>1. /\ at' = at /\ mine' = mine /\ kind' = kind /\ stream' = stream /\ pcTable' = pcTable
      /\ sinks' = sinks /\ localStream_' = localStream_ /\ index' = index /\ port_' = port_
      /\ seen' = seen /\ loop_' = loop_ /\ port' = port
      /\ held \subseteq held' /\ held' \subseteq held \cup sinks[p]
  BY DEF OnRTP, counters, handlers, session
<1>2. held' \in SUBSET Conns
  BY <1>1 DEF ConnInv, Typed
<1>3. Typed' /\ Numbered'
  BY <1>1, <1>2 DEF ConnInv, Typed, Numbered, Made
<1>4. Visible'
  BY <1>1 DEF ConnInv, Visible
<1> QED BY <1>3, <1>4 DEF ConnInv

(* The last task of a connection drops its reference. *)
LEMMA RunTasksConnInv ==
  ASSUME ConnInv, NEW p \in Conns, RunTasks(p)
  PROVE  ConnInv'
<1>1. /\ at' = at /\ mine' = mine /\ kind' = kind /\ stream' = stream /\ pcTable' = pcTable
      /\ localStream_' = localStream_ /\ index' = index /\ port_' = port_
      /\ seen' = seen /\ loop_' = loop_ /\ port' = port /\ held' = held \ {p}
      /\ sinks' = IF kind[p] = "failed" THEN [s \in Conns |-> sinks[s] \ {p}] ELSE sinks
  BY DEF RunTasks, DropReference, Dead, RemoveSink, counters, handlers, session
<1>2. sinks \in [Conns -> SUBSET Conns] /\ Typed /\ Numbered /\ Visible
  BY DEF ConnInv, Typed
<1>3. sinks' \in [Conns -> SUBSET Conns] /\ held' \in SUBSET Conns
  BY <1>1, <1>2 DEF Typed
<1>4. Typed' /\ Numbered'
  BY <1>1, <1>2, <1>3 DEF Typed, Numbered, Made
<1>5. ASSUME NEW s \in Conns, NEW c \in sinks'[s]
      PROVE  kind[c] = "play" \/ (kind[c] = "failed" /\ c \in held')
  <2>1. c \in sinks[s] /\ (kind[p] = "failed" => c # p)
    BY <1>1, <1>2
  <2> QED BY <1>1, <1>2, <2>1 DEF Visible
<1>6. Visible'
  BY <1>1, <1>2, <1>5 DEF Visible
<1> QED BY <1>4, <1>6 DEF ConnInv

LEMMA NextConnInv == ConnInv /\ [Next]_vars => ConnInv'
<1> SUFFICES ASSUME ConnInv, [Next]_vars PROVE ConnInv'
  OBVIOUS
<1>1. CASE UNCHANGED vars
  BY <1>1 DEF vars, ConnInv, Typed, Numbered, Made, Visible
<1>2. ASSUME NEW t \in Threads, Handler(t) PROVE ConnInv'
  BY <1>2, ConstructConnInv, GetLoopConnInv, GetPortReadConnInv, GetPortWriteConnInv,
     AddStreamConnInv, AnswerMediaConnInv, CallbackConnInv, AddPCConnInv, ThrowConnInv
     DEF Handler
<1> QED BY <1>1, <1>2, OnRTPConnInv, RunTasksConnInv DEF Next

LEMMA ConnInvariant == Spec => []ConnInv
  BY InitConnInv, NextConnInv, PTL DEF Spec

(* Whatever other requests and media run meanwhile, a /post or /play handler
   that throws out of CreateAnswer has left no table entry and no current
   stream, and a sink only while a queued task of OnMediaData keeps it alive. *)
THEOREM FailureNeverLeavesTrace == Spec => []FailureLeavesNoTrace
<1>1. ConnInv => FailureLeavesNoTrace
  BY ConnFacts DEF ConnInv, Typed, Visible, FailureLeavesNoTrace
<1> QED BY <1>1, ConnInvariant, PTL

-----------------------------------------------------------------------------
(* Loops, handed out by a counter that wraps.                              *)

(* While no two constructors overlap in GetLoop, the one inside it is that of
   the last connection, and connection c takes loop c + 1, the Server having
   taken the first. *)
LoopInv ==
  /\ index = (Made + 1) % IndexValues
  /\ "getLoop" \notin overlapped =>
       /\ \A t \in Threads : at[t] = "getLoop" => mine[t] = Made
       /\ \A c \in Conns : loop_[c] # -1 => loop_[c] = (c + 1) % LoopNum

LEMMA InitLoopInv == Init => LoopInv
<1> SUFFICES ASSUME Init PROVE LoopInv
  OBVIOUS
<1>1. Made = 0
  BY ConnFacts, MadeIs DEF Init
<1> QED BY <1>1 DEF Init, LoopInv

LEMMA NextLoopInv == ConnInv /\ LoopInv /\ [Next]_vars => LoopInv'
<1> SUFFICES ASSUME ConnInv, LoopInv, [Next]_vars PROVE LoopInv'
  OBVIOUS
<1>1. CASE UNCHANGED vars
  BY <1>1 DEF vars, LoopInv, Made
<1>2. ASSUME NEW t \in Threads, NEW k \in {"post", "play"}, NEW body, Construct(t, k, body)
      PROVE  LoopInv'
  <2>1. /\ Made \in Nat /\ Made' = Made + 1 /\ mine'[t] = Made + 1
        /\ \A u \in Threads : u # t => at'[u] = at[u] /\ mine'[u] = mine[u]
    BY <1>2, ConstructFacts
  <2>2. index' = (index + 1) % IndexValues /\ loop_' = loop_
    BY <1>2 DEF Construct, NextIndex
  <2>3. index = (Made + 1) % IndexValues /\ Made + 1 \in Nat
    BY <2>1 DEF LoopInv
  <2> HIDE DEF Made
  <2>4. index' = (Made' + 1) % IndexValues
    <3> DEFINE n == Made + 1
    <3>1. n \in Nat /\ index' = ((n % IndexValues) + 1) % IndexValues /\ Made' = n
      BY <2>1, <2>2, <2>3
    <3> HIDE DEF n
    <3> QED BY <3>1, ModPlusOne, CountersAssumption
  <2>5. ASSUME "getLoop" \notin overlapped'
        PROVE  "getLoop" \notin overlapped /\ \A u \in Threads : u # t => at[u] # "getLoop"
    BY <1>2, <2>5 DEF Construct, Enter
  <2> QED BY <2>1, <2>2, <2>4, <2>5 DEF LoopInv
<1>3. ASSUME NEW t \in Threads, GetLoop(t) PROVE LoopInv'
  <2>1. /\ at[t] = "getLoop" /\ loop_' = [loop_ EXCEPT ![mine[t]] = index % LoopNum]
        /\ index' = index /\ mine' = mine /\ kind' = kind /\ overlapped' = overlapped
        /\ at' = [at EXCEPT ![t] = "gotLoop"]
    BY <1>3 DEF GetLoop, Goto
  <2>2. Made' = Made /\ Made \in Nat
    BY <2>1, ConnFacts DEF Made, ConnInv, Numbered
  <2>3. index = (Made + 1) % IndexValues
    BY DEF LoopInv
  <2> HIDE DEF Made
  <2>4. index % LoopNum = (Made + 1) % LoopNum
    <3>1. Made + 1 \in Nat
      BY <2>2
    <3> QED BY <2>3, <3>1, ModMod, CountersAssumption
  <2>5. \A u \in Threads : at'[u] = "getLoop" => at[u] = "getLoop"
    BY <2>1 DEF ConnInv, Typed
  <2>6. ASSUME "getLoop" \notin overlapped, NEW c \in Conns, loop_'[c] # -1
        PROVE  loop_'[c] = (c + 1) % LoopNum
    <3>1. mine[t] = Made
      BY <2>1, <2>6 DEF LoopInv
    <3>2. loop_ \in [Conns -> Int]
      BY DEF ConnInv, Typed
    <3>3. CASE c = mine[t]
      BY <2>1, <2>4, <3>1, <3>2, <3>3
    <3>4. CASE c # mine[t]
      BY <2>1, <2>6, <3>2, <3>4 DEF LoopInv
    <3> QED BY <3>3, <3>4
  <2> QED BY <2>1, <2>2, <2>5, <2>6 DEF LoopInv
<1>4. ASSUME NEW t \in Threads,
             \/ GetPortRead(t) \/ GetPortWrite(t) \/ AddStream(t) \/ AnswerMedia(t)
             \/ Callback(t) \/ AddPC(t) \/ Throw(t)
      PROVE  LoopInv'
  <2>1. index' = index /\ mine' = mine /\ loop_' = loop_
    BY <1>4 DEF GetPortRead, GetPortWrite, AddStream, AnswerMedia, Callback, AddPC, Throw, counters
  <2>2. overlapped \subseteq overlapped'
    BY <1>4 DEF GetPortRead, GetPortWrite, AddStream, AnswerMedia, Callback, AddPC, Throw,
                counters, Enter
  <2>3. \A u \in Threads : at'[u] = "getLoop" => at[u] = "getLoop"
    BY <1>4 DEF ConnInv, Typed, GetPortRead, GetPortWrite, AddStream, AnswerMedia, Callback,
                AddPC, Throw, Goto
  <2>4. Made' = Made
    <3>1. CASE kind' = kind
      BY <3>1 DEF Made
    <3>2. CASE Throw(t)
      <4>1. at[t] # "idle" /\ kind' = [kind EXCEPT ![mine[t]] = "failed"]
        BY <3>2 DEF Throw, HasMedia
      <4>2. kind \in [Conns -> Kinds] /\ mine[t] \in Conns /\ kind[mine[t]] # "none"
        BY <4>1 DEF ConnInv, Typed, Numbered
      <4>3. {d \in Conns : kind'[d] # "none"} = {d \in Conns : kind[d] # "none"}
        BY <4>1, <4>2
      <4> QED BY <4>3 DEF Made
    <3> QED BY <1>4, <3>1, <3>2 DEF GetPortRead, GetPortWrite, AddStream, AnswerMedia, Callback,
                                    AddPC
  <2> QED BY <2>1, <2>2, <2>3, <2>4 DEF LoopInv
<1>5. ASSUME NEW c \in Conns, OnRTP(c) \/ RunTasks(c) PROVE LoopInv'
  BY <1>5 DEF OnRTP, RunTasks, counters, handlers, LoopInv, Made
<1> QED BY <1>1, <1>2, <1>3, <1>4, <1>5 DEF Next, Handler

(* Pool::GetLoop hands the loops out in turn for any number of loops that
   divides the values of the uint8_t index, as 4 does: while no two
   constructors overlap in it, two connections share a loop exactly when their
   numbers differ by a multiple of LOOP_NUM. *)
THEOREM LoopsAlwaysInTurn == Spec => []LoopsInTurn
<1>1. ConnInv /\ LoopInv => LoopsInTurn
  <2> SUFFICES ASSUME LoopInv, "getLoop" \notin overlapped, NEW c \in Conns, NEW d \in Conns,
                      loop_[c] # -1, loop_[d] # -1
               PROVE  (loop_[c] = loop_[d]) = ((c - d) % LoopNum = 0)
    BY DEF LoopsInTurn
  <2>1. loop_[c] = (c + 1) % LoopNum /\ loop_[d] = (d + 1) % LoopNum
    BY DEF LoopInv
  <2>2. c + 1 \in Int /\ d + 1 \in Int /\ (c + 1) - (d + 1) = c - d
    BY ConnFacts
  <2>3. (c + 1) % LoopNum = (d + 1) % LoopNum <=> ((c + 1) - (d + 1)) % LoopNum = 0
    BY <2>2, ModDifference, CountersAssumption
  <2> QED BY <2>1, <2>2, <2>3
<1> QED BY <1>1, ConnInvariant, InitLoopInv, NextLoopInv, PTL DEF Spec

-----------------------------------------------------------------------------
(* Ports, handed out by a counter that two threads may race for.           *)

(* full gives each connection the value of port_ its port was cut from. *)
Issued(full) ==
  /\ \A c \in Conns : port[c] # -1 =>
       FirstPort <= full[c] /\ full[c] < port_ /\ port[c] = full[c] % PortValues
  /\ \A c, d \in Conns : c # d /\ port[c] # -1 /\ port[d] # -1 => full[c] # full[d]

(* While no two constructors overlap in GetPort, what a thread has read from
   port_ is still there when it writes, so no value is given out twice. *)
PortInv ==
  "getPort" \notin overlapped =>
    /\ FirstPort <= port_
    /\ \A t \in Threads : at[t] = "getPort" =>
         seen[t] = port_ /\ \A u \in Threads : at[u] = "getPort" => t = u
    /\ \E full \in [Conns -> Nat] : Issued(full)

LEMMA InitPortInv == Init => PortInv
<1> SUFFICES ASSUME Init PROVE PortInv
  OBVIOUS
<1>1. [c \in Conns |-> 0] \in [Conns -> Nat] /\ \A c \in Conns : port[c] = -1
  BY DEF Init
<1>2. Issued([c \in Conns |-> 0])
  BY <1>1 DEF Issued
<1>3. FirstPort <= port_ /\ \A t \in Threads : at[t] # "getPort"
  BY CountersAssumption DEF Init
<1> QED BY <1>1, <1>2, <1>3 DEF PortInv

LEMMA NextPortInv == ConnInv /\ PortInv /\ [Next]_vars => PortInv'
<1> SUFFICES ASSUME ConnInv, PortInv, [Next]_vars PROVE PortInv'
  OBVIOUS
<1>1. CASE UNCHANGED vars
  BY <1>1 DEF vars, PortInv, Issued
<1>2. ASSUME NEW t \in Threads, GetPortRead(t) PROVE PortInv'
  <2>1. /\ seen' = [seen EXCEPT ![t] = port_] /\ at' = [at EXCEPT ![t] = "getPort"]
        /\ port_' = port_ /\ port' = port
    BY <1>2 DEF GetPortRead, Goto
  <2>2. ASSUME "getPort" \notin overlapped'
        PROVE  "getPort" \notin overlapped /\ \A u \in Threads : u # t => at[u] # "getPort"
    BY <1>2, <2>2 DEF GetPortRead, Enter
  <2>3. /\ seen'[t] = port_ /\ \A u \in Threads : u # t => at'[u] = at[u]
    BY <2>1 DEF ConnInv, Typed
  <2> QED BY <2>1, <2>2, <2>3 DEF PortInv, Issued
<1>3. ASSUME NEW t \in Threads, GetPortWrite(t) PROVE PortInv'
  <2> DEFINE c == mine[t]
  <2>1. /\ at[t] = "getPort" /\ port_' = seen[t] + 1 /\ seen' = seen /\ overlapped' = overlapped
        /\ port' = [port EXCEPT ![c] = seen[t] % PortValues]
        /\ at'[t] # "getPort" /\ \A u \in Threads : u # t => at'[u] = at[u]
    BY <1>3 DEF GetPortWrite, Goto, PortOf, ConnInv, Typed
  <2>2. port \in [Conns -> Int] /\ port_ \in Nat /\ c \in Conns
    BY <2>1 DEF ConnInv, Typed, Numbered
  <2> HIDE DEF c
  <2> SUFFICES ASSUME "getPort" \notin overlapped
               PROVE  /\ FirstPort <= port_'
                      /\ \A u \in Threads : at'[u] # "getPort"
                      /\ \E full \in [Conns -> Nat] : Issued(full)'
    BY <2>1 DEF PortInv
  <2>3. /\ FirstPort <= port_ /\ port_' = port_ + 1
        /\ port' = [port EXCEPT ![c] = port_ % PortValues]
        /\ \A u \in Threads : at[u] = "getPort" => u = t
    BY <2>1 DEF PortInv
  <2>4. \A u \in Threads : at'[u] # "getPort"
    BY <2>1, <2>3
  <2>5. PICK full \in [Conns -> Nat] : Issued(full)
    BY DEF PortInv
  <2>6. PICK next \in [Conns -> Nat] :
          /\ next[c] = port_ /\ port'[c] = port_ % PortValues
          /\ \A d \in Conns : d # c => next[d] = full[d] /\ port'[d] = port[d]
    <3> DEFINE f == [full EXCEPT ![c] = port_]
    <3>1. /\ f \in [Conns -> Nat] /\ f[c] = port_ /\ port'[c] = port_ % PortValues
          /\ \A d \in Conns : d # c => f[d] = full[d] /\ port'[d] = port[d]
      BY <2>2, <2>3
    <3> QED BY <3>1
  <2>7. FirstPort \in Nat
    BY CountersAssumption
  <2>8. ASSUME NEW d \in Conns, port'[d] # -1
        PROVE  FirstPort <= next[d] /\ next[d] < port_' /\ port'[d] = next[d] % PortValues
    <3>1. CASE d = c
      BY <2>2, <2>3, <2>6, <3>1
    <3>2. CASE d # c
      BY <2>2, <2>3, <2>5, <2>6, <2>8, <3>2 DEF Issued
    <3> QED BY <3>1, <3>2
  <2>9. ASSUME NEW d \in Conns, NEW e \in Conns, d # e, port'[d] # -1, port'[e] # -1
        PROVE  next[d] # next[e]
    <3>1. \A x \in Conns : x # c /\ port'[x] # -1 => next[x] \in Nat /\ next[x] < port_
      BY <2>2, <2>5, <2>6 DEF Issued
    <3>2. CASE d = c \/ e = c
      BY <2>2, <2>6, <2>9, <3>1, <3>2
    <3>3. CASE d # c /\ e # c
      BY <2>5, <2>6, <2>9, <3>3 DEF Issued
    <3> QED BY <3>2, <3>3
  <2>10. Issued(next)'
    BY <2>8, <2>9 DEF Issued
  <2>11. FirstPort <= port_'
    BY <2>2, <2>3, <2>7
  <2> QED BY <2>4, <2>10, <2>11
<1>4. ASSUME NEW t \in Threads,
             \/ \E k \in {"post", "play"}, body \in PostOffers \cup PlayOffers : Construct(t, k, body)
             \/ GetLoop(t) \/ AddStream(t) \/ AnswerMedia(t) \/ Callback(t) \/ AddPC(t) \/ Throw(t)
      PROVE  PortInv'
  <2>1. port_' = port_ /\ seen' = seen /\ port' = port
    BY <1>4 DEF Construct, GetLoop, AddStream, AnswerMedia, Callback, AddPC, Throw, counters
  <2>2. "getPort" \in overlapped => "getPort" \in overlapped'
    BY <1>4 DEF Construct, GetLoop, AddStream, AnswerMedia, Callback, AddPC, Throw, counters, Enter
  <2>3. \A u \in Threads : at'[u] = "getPort" => at[u] = "getPort"
    BY <1>4 DEF Construct, GetLoop, AddStream, AnswerMedia, Callback, AddPC, Throw, Goto,
                ConnInv, Typed
  <2> QED BY <2>1, <2>2, <2>3 DEF PortInv, Issued
<1>5. ASSUME NEW c \in Conns, OnRTP(c) \/ RunTasks(c) PROVE PortInv'
  BY <1>5 DEF OnRTP, RunTasks, counters, handlers, PortInv, Issued
<1> QED BY <1>1, <1>2, <1>3, <1>4, <1>5 DEF Next, Handler

(* Server::GetPort and the cut to 16 bits, for any first port and any width:
   two connections advertise one port only after two constructors have been
   inside the unlocked increment at once, or a whole turn of the ports. *)
THEOREM PortsAlwaysDistinct == Spec => []PortsDistinct
<1>1. ConnInv /\ PortInv => PortsDistinct
  <2> SUFFICES ASSUME ConnInv, PortInv, "getPort" \notin overlapped, NEW c \in Conns, NEW d \in Conns,
                      c # d, port[c] # -1, port[c] = port[d]
               PROVE  port_ - FirstPort > PortValues
    BY DEF PortsDistinct
  <2>1. PICK full \in [Conns -> Nat] : Issued(full)
    BY DEF PortInv
  <2>2. /\ FirstPort \in Nat /\ port_ \in Nat /\ PortValues \in Nat \ {0}
        /\ full[c] \in Nat /\ full[d] \in Nat
    BY <2>1, CountersAssumption DEF ConnInv, Typed
  <2>3. /\ FirstPort <= full[c] /\ full[c] < port_ /\ FirstPort <= full[d] /\ full[d] < port_
        /\ full[c] # full[d] /\ full[c] % PortValues = full[d] % PortValues
    BY <2>1 DEF Issued
  <2> DEFINE m == full[c]
             n == full[d]
  <2>4. /\ m \in Int /\ n \in Int /\ m # n /\ m % PortValues = n % PortValues
        /\ FirstPort <= m /\ m < port_ /\ FirstPort <= n /\ n < port_
    BY <2>2, <2>3
  <2> HIDE DEF m, n
  <2>5. CASE m <= n
    <3>1. ~(n - m < PortValues)
      BY <2>2, <2>4, <2>5, ModUnique
    <3> QED BY <2>2, <2>4, <3>1
  <2>6. CASE n <= m
    <3>1. ~(m - n < PortValues)
      BY <2>2, <2>4, <2>6, ModUnique
    <3> QED BY <2>2, <2>4, <3>1
  <2> QED BY <2>4, <2>5, <2>6
<1> QED BY <1>1, ConnInvariant, InitPortInv, NextPortInv, PTL DEF Spec

-----------------------------------------------------------------------------
(* The media of an offer, and what CreateAnswer makes of them.             *)

Types == {"audio", "video"}
Answers ==
  [direction : {"recvonly", "sendonly"}, ext : SUBSET (Nat \X {"tcc", "other"}), ssrc : Nat,
   port : Int]

(* The values of the variables the media reach. *)
MediaTyped ==
  /\ offer \in [Conns -> Seq(Media)]
  /\ ssrcs \in [Conns -> {<<>>} \cup [Types -> Nat]]
  /\ extMap_ \in [Conns -> SUBSET Nat]
  /\ answer \in [Conns -> Seq(Answers)]

(* What the first k media of an offer declare for a type. *)
Sending(body, k, type) == {j \in 1..k : Sends(body[j]) /\ body[j].type = type}
Sofar(body, k, type) ==
  IF Sending(body, k, type) = {} THEN 0 ELSE body[Max(Sending(body, k, type))].ssrc

(* remoteStream_ has what the media answered so far declare. *)
Filled(c) ==
  /\ Len(answer[c]) <= Len(offer[c])
  /\ ssrcs[c] = <<>> => \A j \in 1..Len(answer[c]) : ~Sends(offer[c][j])
  /\ ssrcs[c] # <<>> => \A type \in Types : ssrcs[c][type] = Sofar(offer[c], Len(answer[c]), type)

(* A connection has the offer of its request; nothing has been done for one that
   is not made, and no stream is taken and no media answered before the handler
   comes to it. *)
Fresh ==
  /\ \A c \in Conns : kind[c] # "none" => offer[c] \in PostOffers \cup PlayOffers
  /\ \A c \in Conns : kind[c] = "none" =>
       answer[c] = <<>> /\ ssrcs[c] = <<>> /\ extMap_[c] = {} /\ localStream_[c] = None
  /\ \A t \in Threads :
       at[t] \in {"getLoop", "gotLoop", "getPort", "attach"} =>
         answer[mine[t]] = <<>> /\ localStream_[mine[t]] = None

(* A stream that is main's or a player's has been filled in to the end. *)
Final(s) == kind[s] # "none" /\ ssrcs[s] # <<>> /\ Len(answer[s]) = Len(offer[s])
Finals ==
  /\ stream # None => Final(stream)
  /\ \A c \in Conns : localStream_[c] # None => Final(localStream_[c])

(* A player is a sink of the stream whose SSRCs its answers announce, and of no
   other. *)
Attached ==
  /\ \A c, s \in Conns : c \in sinks[s] => localStream_[c] = s
  /\ \A c \in Conns : localStream_[c] # None /\ kind[c] # "failed" => c \in sinks[localStream_[c]]
  /\ \A t \in Threads :
       ~crashed /\ at[t] \in {"answer", "answered"} /\ kind[mine[t]] = "play" =>
         localStream_[mine[t]] # None
Announces(c) ==
  kind[c] = "play" =>
    \A k \in 1..Len(answer[c]) :
      /\ localStream_[c] # None
      /\ Receives(offer[c][k]) =>
           answer[c][k].ssrc = Declared(offer[localStream_[c]], offer[c][k].type)

(* The answers carry the transport-cc lines of the offer, extMap_ their ids. *)
Mapped(c) ==
  /\ \A k \in 1..Len(answer[c]) : answer[c][k].ext = SetExtension(offer[c][k].ext)
  /\ \A i : i \in extMap_[c] <=> \E k \in 1..Len(answer[c]) : i \in Ids(answer[c][k].ext)

MediaInv ==
  /\ MediaTyped /\ Fresh /\ Finals /\ Attached
  /\ \A c \in Conns : Filled(c) /\ Announces(c) /\ Mapped(c)

LEMMA MediaFacts ==
  \A media \in Media :
    media.type \in Types /\ media.ssrc \in Nat /\ media.ext \in SUBSET (Nat \X {"tcc", "other"})
  BY DEF Media, Types

(* One more media that sends overrides what the type had. *)
LEMMA SofarGrows ==
  ASSUME NEW body, NEW k \in Nat, NEW type
  PROVE  Sofar(body, k + 1, type) =
           IF Sends(body[k + 1]) /\ body[k + 1].type = type THEN body[k + 1].ssrc
                                                            ELSE Sofar(body, k, type)
<1> DEFINE S == Sending(body, k, type)
           T == Sending(body, k + 1, type)
           new == Sends(body[k + 1]) /\ body[k + 1].type = type
<1>1. \A j : j \in 1..(k + 1) <=> j \in 1..k \/ j = k + 1
  OBVIOUS
<1>2. S \subseteq 1..k /\ (new => T = S \cup {k + 1}) /\ (~new => T = S)
  BY <1>1 DEF Sending
<1> HIDE DEF S, T, new
<1>3. CASE new
  <2>1. \A x \in T : x <= k + 1 /\ x \in Nat
    <3>1. \A x \in S : x <= k + 1 /\ x \in Nat
      BY <1>2
    <3>2. T = S \cup {k + 1} /\ k + 1 \in Nat /\ k + 1 <= k + 1
      BY <1>2, <1>3
    <3> QED BY <3>1, <3>2
  <2>2. k + 1 \in T /\ T # {}
    BY <1>2, <1>3
  <2>3. \A x \in T : (\A y \in T : x >= y) <=> x = k + 1
    BY <2>1, <2>2
  <2>4. Max(T) = k + 1
    BY <2>2, <2>3 DEF Max
  <2> QED BY <1>3, <2>2, <2>4 DEF Sofar, T, new
<1>4. CASE ~new
  BY <1>2, <1>4 DEF Sofar, S, T, new
<1> QED BY <1>3, <1>4

LEMMA SofarNone ==
  ASSUME NEW body, NEW k, \A j \in 1..k : ~Sends(body[j]), NEW type
  PROVE  Sofar(body, k, type) = 0
  BY DEF Sofar, Sending

LEMMA SofarAll ==
  ASSUME NEW body, NEW type
  PROVE  Declared(body, type) = Sofar(body, Len(body), type)
  BY DEF Declared, Sofar, Sending

(* A stream that has been made is not null. *)
LEMMA StreamNotNull == ASSUME NEW f \in [Types -> Nat] PROVE f # <<>>
<1>1. DOMAIN f = Types /\ "audio" \in Types
  BY DEF Types
<1>2. DOMAIN <<>> = {}
  OBVIOUS
<1> QED BY <1>1, <1>2

(* What WithSSRC does to a stream filled in so far. *)
LEMMA WithSSRCFills ==
  ASSUME NEW body \in Seq(Media), NEW k \in Nat, k + 1 <= Len(body),
         NEW old \in {<<>>} \cup [Types -> Nat],
         old = <<>> => \A j \in 1..k : ~Sends(body[j]),
         old # <<>> => \A type \in Types : old[type] = Sofar(body, k, type)
  PROVE  LET new == WithSSRC(old, body[k + 1])
         IN  /\ new \in {<<>>} \cup [Types -> Nat]
             /\ new = <<>> => \A j \in 1..(k + 1) : ~Sends(body[j])
             /\ new # <<>> => \A type \in Types : new[type] = Sofar(body, k + 1, type)
<1> DEFINE media == body[k + 1]
           new == WithSSRC(old, media)
<1>1. k + 1 \in 1..Len(body) /\ media \in Media
  OBVIOUS
<1>2. media.type \in Types /\ media.ssrc \in Nat
  BY <1>1, MediaFacts
<1>3. \A j : j \in 1..(k + 1) <=> j \in 1..k \/ j = k + 1
  OBVIOUS
<1>4. \A type \in Types : Sofar(body, k + 1, type) =
        IF Sends(media) /\ media.type = type THEN media.ssrc ELSE Sofar(body, k, type)
  BY SofarGrows
<1> HIDE DEF media
<1>5. CASE ~Sends(media)
  <2>1. new = old
    BY <1>5 DEF WithSSRC
  <2>2. \A type \in Types : Sofar(body, k + 1, type) = Sofar(body, k, type)
    BY <1>4, <1>5
  <2>3. ~Sends(body[k + 1])
    BY <1>5 DEF media
  <2> QED BY <1>3, <2>1, <2>2, <2>3 DEF media
<1>6. CASE Sends(media)
  <2>1. new = [type \in Types |-> IF type = media.type THEN media.ssrc
                                 ELSE IF old = <<>> THEN 0 ELSE old[type]]
    BY <1>6 DEF WithSSRC, Types
  <2>2. \A type \in Types : old # <<>> => old[type] \in Nat
    OBVIOUS
  <2>3. new \in [Types -> Nat]
    BY <1>2, <2>1, <2>2
  <2>4. new # <<>>
    BY <2>3, StreamNotNull
  <2>5. ASSUME NEW type \in Types PROVE new[type] = Sofar(body, k + 1, type)
    <3>1. CASE type = media.type
      BY <1>4, <1>6, <2>1, <3>1
    <3>2. CASE type # media.type
      <4>1. old = <<>> => Sofar(body, k, type) = 0
        BY SofarNone
      <4> QED BY <1>4, <2>1, <3>2, <4>1
    <3> QED BY <3>1, <3>2
  <2> QED BY <2>3, <2>4, <2>5 DEF media
<1> QED BY <1>5, <1>6

LEMMA InitMediaInv == Init => MediaInv
<1> SUFFICES ASSUME Init PROVE MediaInv
  OBVIOUS
<1>1. /\ stream = None /\ \A t \in Threads : at[t] = "idle"
      /\ \A c \in Conns : /\ kind[c] = "none" /\ offer[c] = <<>> /\ ssrcs[c] = <<>>
                          /\ extMap_[c] = {} /\ answer[c] = <<>> /\ localStream_[c] = None
  BY DEF Init
<1>2. MediaTyped
  BY EmptyHolds DEF Init, MediaTyped
<1>3. Fresh /\ Finals /\ Attached
  BY <1>1 DEF Init, Fresh, Finals, Attached
<1>4. \A c \in Conns : Filled(c) /\ Announces(c) /\ Mapped(c)
  BY <1>1 DEF Filled, Announces, Mapped
<1> QED BY <1>2, <1>3, <1>4 DEF MediaInv

(* Steps that leave the media and the connections alone. *)
LEMMA QuietMediaInv ==
  ASSUME ConnInv, MediaInv, kind' = kind, mine' = mine, offer' = offer, ssrcs' = ssrcs,
         extMap_' = extMap_, answer' = answer, localStream_' = localStream_,
         stream' = stream, crashed' = crashed,
         \A s \in Conns : sinks'[s] \subseteq sinks[s],
         \A c, s \in Conns : c \in sinks[s] /\ kind[c] # "failed" => c \in sinks'[s],
         \A t \in Threads : at'[t] \in {"getLoop", "gotLoop", "getPort", "attach"} =>
                              at[t] \in {"getLoop", "gotLoop", "getPort", "attach"},
         \A t \in Threads : at'[t] \in {"answer", "answered"} /\ kind[mine[t]] = "play" =>
                              at[t] \in {"answer", "answered"}
  PROVE  MediaInv'
<1>1. MediaTyped' /\ Fresh'
  BY DEF MediaInv, MediaTyped, Fresh
<1>2. Finals'
  BY DEF MediaInv, Finals, Final
<1>3. Attached'
  <2>1. \A c \in Conns : localStream_[c] # None => localStream_[c] \in Conns
    BY DEF ConnInv, Typed
  <2> QED BY <2>1 DEF MediaInv, Attached
<1>4. \A c \in Conns : Filled(c)' /\ Announces(c)' /\ Mapped(c)'
  BY DEF MediaInv, Filled, Announces, Mapped
<1> QED BY <1>1, <1>2, <1>3, <1>4 DEF MediaInv

LEMMA CountersMediaInv ==
  ASSUME ConnInv, MediaInv, NEW t \in Threads, GetLoop(t) \/ GetPortRead(t) \/ GetPortWrite(t)
  PROVE  MediaInv'
<1>1. at \in [Threads -> Places]
  BY DEF ConnInv, Typed
<1>2. /\ at[t] \in {"getLoop", "gotLoop", "getPort"}
      /\ \A u \in Threads : u # t => at'[u] = at[u]
      /\ kind[mine[t]] = "play" => at'[t] \in {"gotLoop", "getPort", "attach"}
  BY <1>1 DEF GetLoop, GetPortRead, GetPortWrite, Goto
<1>3. /\ kind' = kind /\ mine' = mine /\ offer' = offer /\ ssrcs' = ssrcs
      /\ extMap_' = extMap_ /\ answer' = answer /\ localStream_' = localStream_
      /\ stream' = stream /\ sinks' = sinks /\ crashed' = crashed
  BY DEF GetLoop, GetPortRead, GetPortWrite, session
<1> QED BY <1>2, <1>3, QuietMediaInv

LEMMA AddPCMediaInv ==
  ASSUME ConnInv, MediaInv, NEW t \in Threads, AddPC(t)
  PROVE  MediaInv'
<1>1. at \in [Threads -> Places]
  BY DEF ConnInv, Typed
<1>2. at'[t] = "idle" /\ \A u \in Threads : u # t => at'[u] = at[u]
  BY <1>1 DEF AddPC, Goto
<1>3. /\ kind' = kind /\ mine' = mine /\ offer' = offer /\ ssrcs' = ssrcs
      /\ extMap_' = extMap_ /\ answer' = answer /\ localStream_' = localStream_
      /\ stream' = stream /\ sinks' = sinks /\ crashed' = crashed
  BY DEF AddPC, session
<1> QED BY <1>2, <1>3, QuietMediaInv

(* Media only takes sinks away whose handlers have failed. *)
LEMMA TasksMediaInv ==
  ASSUME ConnInv, MediaInv, NEW p \in Conns, OnRTP(p) \/ RunTasks(p)
  PROVE  MediaInv'
<1>1. /\ kind' = kind /\ mine' = mine /\ offer' = offer /\ ssrcs' = ssrcs /\ at' = at
      /\ extMap_' = extMap_ /\ answer' = answer /\ localStream_' = localStream_
      /\ stream' = stream /\ crashed' = crashed
  BY DEF OnRTP, RunTasks, session, handlers
<1>2. \/ sinks' = sinks
      \/ kind[p] = "failed" /\ sinks' = [s \in Conns |-> sinks[s] \ {p}]
  BY <1>1 DEF OnRTP, RunTasks, DropReference, Dead, RemoveSink
<1>3. /\ \A s \in Conns : sinks'[s] \subseteq sinks[s]
      /\ \A c, s \in Conns : c \in sinks[s] /\ kind[c] # "failed" => c \in sinks'[s]
  BY <1>2
<1> QED BY <1>1, <1>3, QuietMediaInv

LEMMA ConstructMediaInv ==
  ASSUME ConnInv, MediaInv, NEW t \in Threads, NEW k \in {"post", "play"},
         NEW body \in PostOffers \cup PlayOffers, Construct(t, k, body)
  PROVE  MediaInv'
<1> DEFINE n == Made + 1
<1>1. /\ n \in Conns /\ kind[n] = "none" /\ kind'[n] = k /\ mine'[t] = n /\ at'[t] = "getLoop"
      /\ \A u \in Threads : u # t => at'[u] = at[u] /\ mine'[u] = mine[u]
      /\ \A c \in Conns : c # n => kind'[c] = kind[c]
  BY ConstructFacts
<1>2. /\ offer' = [offer EXCEPT ![n] = body] /\ ssrcs' = ssrcs /\ extMap_' = extMap_
      /\ answer' = answer /\ localStream_' = localStream_ /\ stream' = stream
      /\ sinks' = sinks /\ crashed' = crashed
  BY DEF Construct, session
<1> HIDE DEF n
<1>3. MediaTyped /\ Fresh /\ Finals /\ Attached
  BY DEF MediaInv
<1>4. body \in Seq(Media)
  BY OffersAssumption
<1>5. /\ offer' \in [Conns -> Seq(Media)] /\ offer'[n] = body
      /\ \A c \in Conns : c # n => offer'[c] = offer[c]
  BY <1>1, <1>2, <1>3, <1>4 DEF MediaTyped
<1>6. answer[n] = <<>> /\ ssrcs[n] = <<>> /\ extMap_[n] = {} /\ localStream_[n] = None
  BY <1>1, <1>3 DEF Fresh
<1>7. MediaTyped'
  BY <1>2, <1>3, <1>5 DEF MediaTyped
<1>8. Fresh'
  BY <1>1, <1>2, <1>3, <1>5, <1>6 DEF Fresh
<1>9. Finals'
  <2>1. ASSUME NEW s \in Conns, Final(s) PROVE Final(s)'
    BY <1>1, <1>2, <1>5, <2>1 DEF Final
  <2>2. stream \in Conns \cup {None} /\ localStream_ \in [Conns -> Conns \cup {None}]
    BY DEF ConnInv, Typed
  <2> QED BY <1>2, <1>3, <2>1, <2>2 DEF Finals
<1>10. Attached'
  <2>1. \A u \in Threads : at'[u] \in {"answer", "answered"} =>
          u # t /\ mine[u] \in Conns /\ kind[mine[u]] # "none" /\ mine[u] # n
    BY <1>1 DEF ConnInv, Numbered
  <2>2. \A u \in Threads :
          ~crashed /\ at'[u] \in {"answer", "answered"} /\ kind'[mine'[u]] = "play" =>
            localStream_[mine'[u]] # None
    BY <1>1, <1>3, <2>1 DEF Attached
  <2>3. \A c \in Conns :
          localStream_[c] # None /\ kind'[c] # "failed" => c \in sinks[localStream_[c]]
    BY <1>1, <1>3, <1>6 DEF Attached
  <2> QED BY <1>2, <1>3, <2>2, <2>3 DEF Attached
<1>11. ASSUME NEW c \in Conns PROVE Filled(c)' /\ Announces(c)' /\ Mapped(c)'
  <2>1. CASE c = n
    <3>1. Len(body) \in Nat /\ Len(<<>>) = 0 /\ 1..0 = {}
      BY <1>4
    <3> QED BY <1>2, <1>5, <1>6, <2>1, <3>1 DEF Filled, Announces, Mapped
  <2>2. CASE c # n
    <3>1. Filled(c) /\ Announces(c) /\ Mapped(c) /\ kind'[c] = kind[c] /\ offer'[c] = offer[c]
      BY <1>1, <1>5, <2>2 DEF MediaInv
    <3>2. kind[c] = "play" /\ localStream_[c] # None =>
            offer'[localStream_[c]] = offer[localStream_[c]]
      <4>1. localStream_[c] # None => localStream_[c] \in Conns /\ kind[localStream_[c]] # "none"
        BY <1>3 DEF ConnInv, Typed, Finals, Final
      <4> QED BY <1>1, <1>5, <4>1
    <3>3. Filled(c)' /\ Mapped(c)'
      BY <1>2, <3>1 DEF Filled, Mapped
    <3>4. Announces(c)'
      BY <1>2, <3>1, <3>2 DEF Announces
    <3> QED BY <3>3, <3>4
  <2> QED BY <2>1, <2>2
<1> QED BY <1>7, <1>8, <1>9, <1>10, <1>11 DEF MediaInv

LEMMA AddStreamMediaInv ==
  ASSUME ConnInv, MediaInv, ~crashed, NEW t \in Threads, AddStream(t)
  PROVE  MediaInv'
<1> DEFINE c == mine[t]
<1>1. Typed /\ Numbered /\ MediaTyped /\ Fresh /\ Finals /\ Attached
  BY DEF ConnInv, MediaInv
<1>2. /\ at[t] = "attach" /\ at' = [at EXCEPT ![t] = "answer"] /\ crashed' = (stream = None)
      /\ localStream_' = [localStream_ EXCEPT ![c] = stream]
      /\ sinks' = [d \in Conns |-> IF d = stream THEN sinks[d] \cup {c} ELSE sinks[d]]
      /\ mine' = mine /\ kind' = kind /\ offer' = offer /\ ssrcs' = ssrcs /\ stream' = stream
      /\ extMap_' = extMap_ /\ answer' = answer
  BY DEF AddStream, Goto
<1>3. c \in Conns /\ kind[c] = "play" /\ answer[c] = <<>> /\ localStream_[c] = None
  BY <1>1, <1>2 DEF Numbered, Fresh
<1>4. /\ \A u \in Threads : u # t => at'[u] = at[u]
      /\ \A u \in Threads : u # t /\ at[u] # "idle" => mine[u] # c
      /\ at'[t] = "answer"
  BY <1>1, <1>2 DEF Typed, Numbered
<1> HIDE DEF c
<1>5. localStream_'[c] = stream /\ \A d \in Conns : d # c => localStream_'[d] = localStream_[d]
  BY <1>1, <1>2, <1>3 DEF Typed
<1>6. MediaTyped'
  BY <1>1, <1>2 DEF MediaTyped
<1>7. Fresh'
  BY <1>1, <1>2, <1>3, <1>4, <1>5 DEF Fresh
<1>8. Finals'
  <2>1. \A s \in Conns : Final(s)' = Final(s)
    BY <1>2 DEF Final
  <2>2. stream \in Conns \cup {None} /\ localStream_ \in [Conns -> Conns \cup {None}]
    BY <1>1 DEF Typed
  <2> QED BY <1>1, <1>2, <1>5, <2>1, <2>2 DEF Finals
<1>9. Attached'
  <2>1. \A d \in Conns : sinks[d] \subseteq sinks'[d]
    BY <1>2
  <2>2. ASSUME NEW d \in Conns, localStream_'[d] # None, kind[d] # "failed"
        PROVE  d \in sinks'[localStream_'[d]]
    <3>1. CASE d = c
      BY <1>1, <1>2, <1>5, <2>2, <3>1 DEF Typed
    <3>2. CASE d # c
      <4>1. localStream_'[d] = localStream_[d] /\ localStream_[d] \in Conns
        BY <1>1, <1>5, <2>2, <3>2 DEF Typed
      <4> QED BY <1>1, <2>1, <2>2, <4>1 DEF Attached
    <3> QED BY <3>1, <3>2
  <2>3. ASSUME NEW u \in Threads, ~crashed', at'[u] \in {"answer", "answered"},
               kind[mine[u]] = "play"
        PROVE  localStream_'[mine[u]] # None
    <3>1. CASE u = t
      BY <1>2, <1>5, <2>3, <3>1 DEF c
    <3>2. CASE u # t
      <4>1. at[u] \in {"answer", "answered"} /\ mine[u] # c /\ mine[u] \in Conns /\ ~crashed
        BY <1>1, <1>4, <2>3, <3>2 DEF Numbered
      <4> QED BY <1>1, <1>5, <2>3, <4>1 DEF Attached
    <3> QED BY <3>1, <3>2
  <2>4. ASSUME NEW d \in Conns, NEW s \in Conns, d \in sinks'[s]
        PROVE  localStream_'[d] = s
    <3>1. CASE d = c
      <4>1. c \notin sinks[s]
        BY <1>1, <1>3, ConnFacts DEF Attached
      <4>2. s = stream
        BY <1>2, <2>4, <3>1, <4>1
      <4> QED BY <1>5, <3>1, <4>2
    <3>2. CASE d # c
      <4>1. d \in sinks[s]
        BY <1>2, <2>4, <3>2
      <4> QED BY <1>1, <1>5, <3>2, <4>1 DEF Attached
    <3> QED BY <3>1, <3>2
  <2> QED BY <1>2, <2>2, <2>3, <2>4 DEF Attached
<1>10. ASSUME NEW d \in Conns PROVE Filled(d)' /\ Announces(d)' /\ Mapped(d)'
  <2>1. Filled(d) /\ Announces(d) /\ Mapped(d)
    BY DEF MediaInv
  <2>2. Filled(d)' /\ Mapped(d)'
    BY <1>2, <2>1 DEF Filled, Mapped
  <2>3. CASE d = c
    BY <1>2, <1>3, <2>2, <2>3 DEF Announces
  <2>4. CASE d # c
    BY <1>2, <1>5, <2>1, <2>2, <2>4 DEF Announces
  <2> QED BY <2>3, <2>4
<1> QED BY <1>6, <1>7, <1>8, <1>9, <1>10 DEF MediaInv

LEMMA CallbackMediaInv ==
  ASSUME ConnInv, MediaInv, NEW t \in Threads, Callback(t)
  PROVE  MediaInv'
<1> DEFINE c == mine[t]
<1>1. Typed /\ Numbered /\ MediaTyped /\ Fresh /\ Finals /\ Attached
  BY DEF ConnInv, MediaInv
<1>2. /\ at[t] = "answer" /\ at' = [at EXCEPT ![t] = "answered"]
      /\ ~(Len(answer[c]) + 1 <= Len(offer[c]))
      /\ stream' = IF ssrcs[c] # <<>> THEN c ELSE stream
      /\ localStream_' = localStream_ /\ sinks' = sinks /\ crashed' = crashed
      /\ mine' = mine /\ kind' = kind /\ offer' = offer /\ ssrcs' = ssrcs
      /\ extMap_' = extMap_ /\ answer' = answer
  BY DEF Callback, Goto, HasMedia, AtMedia, session
<1>3. c \in Conns /\ kind[c] # "none"
  BY <1>1, <1>2 DEF Numbered
<1>4. at'[t] = "answered" /\ \A u \in Threads : u # t => at'[u] = at[u]
  BY <1>1, <1>2 DEF Typed
<1> HIDE DEF c
<1>5. Len(answer[c]) = Len(offer[c])
  <2>1. Len(answer[c]) \in Nat /\ Len(offer[c]) \in Nat
    BY <1>1, <1>3 DEF MediaTyped
  <2>2. Len(answer[c]) <= Len(offer[c])
    BY <1>3 DEF MediaInv, Filled
  <2> QED BY <1>2, <2>1, <2>2
<1>6. MediaTyped' /\ Fresh'
  BY <1>1, <1>2, <1>4 DEF MediaTyped, Fresh
<1>7. Finals'
  <2>1. \A s : Final(s)' = Final(s)
    BY <1>2 DEF Final
  <2>2. ssrcs[c] # <<>> => Final(c)
    BY <1>3, <1>5 DEF Final
  <2> QED BY <1>1, <1>2, <2>1, <2>2 DEF Finals
<1>8. Attached'
  BY <1>1, <1>2, <1>4 DEF Attached
<1>9. \A d \in Conns : Filled(d)' /\ Announces(d)' /\ Mapped(d)'
  BY <1>2 DEF MediaInv, Filled, Announces, Mapped
<1> QED BY <1>6, <1>7, <1>8, <1>9 DEF MediaInv

LEMMA ThrowMediaInv ==
  ASSUME ConnInv, MediaInv, NEW t \in Threads, Throw(t)
  PROVE  MediaInv'
<1> DEFINE c == mine[t]
<1>1. Typed /\ Numbered /\ MediaTyped /\ Fresh /\ Finals /\ Attached
  BY DEF ConnInv, MediaInv
<1>2. /\ at[t] = "answer" /\ at' = [at EXCEPT ![t] = "idle"]
      /\ kind' = [kind EXCEPT ![c] = "failed"]
      /\ sinks' = sinks \/ sinks' = [s \in Conns |-> sinks[s] \ {c}]
      /\ stream' = stream /\ localStream_' = localStream_ /\ crashed' = crashed
      /\ mine' = mine /\ offer' = offer /\ ssrcs' = ssrcs
      /\ extMap_' = extMap_ /\ answer' = answer
  BY DEF Throw, Goto, HasMedia, RemoveSink, DropReference, session
<1>3. /\ c \in Conns /\ kind[c] # "none"
      /\ \A u \in Threads : u # t /\ at[u] # "idle" => mine[u] # c /\ mine[u] \in Conns
  BY <1>1, <1>2 DEF Numbered
<1> HIDE DEF c
<1>4. /\ at'[t] = "idle" /\ \A u \in Threads : u # t => at'[u] = at[u]
      /\ kind'[c] = "failed" /\ \A d \in Conns : d # c => kind'[d] = kind[d]
  BY <1>1, <1>2, <1>3 DEF Typed
<1>5. MediaTyped' /\ Fresh'
  BY <1>1, <1>2, <1>3, <1>4 DEF MediaTyped, Fresh
<1>6. Finals'
  <2>1. ASSUME NEW s \in Conns, Final(s) PROVE Final(s)'
    BY <1>2, <1>3, <1>4, <2>1 DEF Final
  <2>2. stream \in Conns \cup {None} /\ localStream_ \in [Conns -> Conns \cup {None}]
    BY <1>1 DEF Typed
  <2> QED BY <1>1, <1>2, <2>1, <2>2 DEF Finals
<1>7. Attached'
  <2>1. ASSUME NEW d \in Conns, localStream_[d] # None, kind'[d] # "failed"
        PROVE  d \in sinks'[localStream_[d]]
    <3>1. d # c /\ d \in sinks[localStream_[d]] /\ localStream_[d] \in Conns
      BY <1>1, <1>4, <2>1 DEF Attached, Typed
    <3> QED BY <1>2, <3>1
  <2>2. \A u \in Threads : at'[u] \in {"answer", "answered"} /\ kind'[mine[u]] = "play" =>
          at[u] \in {"answer", "answered"} /\ kind[mine[u]] = "play"
    BY <1>3, <1>4
  <2>3. \A d, s \in Conns : d \in sinks'[s] => d \in sinks[s]
    BY <1>2
  <2> QED BY <1>1, <1>2, <2>1, <2>2, <2>3 DEF Attached
<1>8. ASSUME NEW d \in Conns PROVE Filled(d)' /\ Announces(d)' /\ Mapped(d)'
  <2>1. Filled(d) /\ Announces(d) /\ Mapped(d)
    BY DEF MediaInv
  <2>2. Filled(d)' /\ Mapped(d)'
    BY <1>2, <2>1 DEF Filled, Mapped
  <2>3. kind'[d] = "play" => kind[d] = "play"
    BY <1>4
  <2> QED BY <1>2, <2>1, <2>2, <2>3 DEF Announces
<1> QED BY <1>5, <1>6, <1>7, <1>8 DEF MediaInv

LEMMA AnswerMediaMediaInv ==
  ASSUME ConnInv, MediaInv, ~crashed, NEW t \in Threads, AnswerMedia(t)
  PROVE  MediaInv'
<1>0. PICK c : c = mine[t]
  OBVIOUS
<1> DEFINE k == Len(answer[c])
           media == offer[c][k + 1]
           accepted == SetExtension(media.ext)
           ssrc == Announced(c, media)
           rec == [direction |-> Direction(media), ext |-> accepted, ssrc |-> ssrc, port |-> port[c]]
<1>1. Typed /\ Numbered /\ MediaTyped /\ Fresh /\ Finals /\ Attached
  BY DEF ConnInv, MediaInv
<1>2. /\ at[t] = "answer" /\ k + 1 <= Len(offer[c])
      /\ extMap_' = [extMap_ EXCEPT ![c] = extMap_[c] \cup Ids(accepted)]
      /\ ssrcs' = [ssrcs EXCEPT ![c] = WithSSRC(ssrcs[c], media)]
      /\ answer' = [answer EXCEPT ![c] = Append(answer[c], rec)]
      /\ stream' = stream /\ localStream_' = localStream_ /\ crashed' = crashed
      /\ mine' = mine /\ offer' = offer /\ kind' = kind /\ at' = at /\ sinks' = sinks
  BY <1>0 DEF AnswerMedia, HasMedia, AtMedia
<1>3. c \in Conns /\ kind[c] \in {"post", "play"}
  BY <1>0, <1>1, <1>2 DEF Numbered
<1>4. /\ offer[c] \in Seq(Media) /\ answer[c] \in Seq(Answers) /\ k \in Nat
      /\ ssrcs[c] \in {<<>>} \cup [Types -> Nat] /\ extMap_[c] \in SUBSET Nat
      /\ port[c] \in Int
  BY <1>1, <1>3 DEF MediaTyped, Typed
<1>5. media \in Media
  <2>1. k + 1 \in 1..Len(offer[c])
    BY <1>2, <1>4
  <2> QED BY <1>4, <2>1
<1>6. Filled(c) /\ Announces(c) /\ Mapped(c)
  BY <1>3 DEF MediaInv
<1> DEFINE new == WithSSRC(ssrcs[c], media)
<1>7. /\ new \in {<<>>} \cup [Types -> Nat]
      /\ new = <<>> => \A j \in 1..(k + 1) : ~Sends(offer[c][j])
      /\ new # <<>> => \A type \in Types : new[type] = Sofar(offer[c], k + 1, type)
  BY <1>2, <1>4, <1>6, WithSSRCFills DEF Filled
<1>8. /\ accepted \in SUBSET (Nat \X {"tcc", "other"}) /\ Ids(accepted) \subseteq Nat
      /\ media.type \in Types
  <2>1. media.type \in Types /\ media.ext \in SUBSET (Nat \X {"tcc", "other"})
    BY <1>5, MediaFacts
  <2>2. accepted \in SUBSET (Nat \X {"tcc", "other"})
    BY <2>1 DEF SetExtension
  <2> HIDE DEF accepted
  <2>3. Ids(accepted) \subseteq Nat
    <3>1. \A e \in accepted : e[1] \in Nat
      BY <2>2
    <3>2. \A n \in Nat : n % IdValues \in Nat
      BY CountersAssumption
    <3> QED BY <3>1, <3>2 DEF Ids
  <2> QED BY <2>1, <2>2, <2>3
<1> HIDE DEF accepted, media
<1>9. /\ ssrc \in Nat
      /\ kind[c] = "play" =>
           /\ localStream_[c] # None
           /\ Receives(media) => ssrc = Declared(offer[localStream_[c]], media.type)
  <2> DEFINE s == localStream_[c]
  <2>1. kind[c] = "play" => s # None
    BY <1>0, <1>1, <1>2 DEF Attached
  <2>2. ASSUME s # None
        PROVE  ssrcs[s][media.type] \in Nat /\ ssrcs[s][media.type] = Declared(offer[s], media.type)
    <3>1. s \in Conns /\ Final(s) /\ Filled(s)
      BY <1>1, <1>3, <2>2 DEF Typed, Finals, MediaInv
    <3> HIDE DEF s
    <3>2. ssrcs[s] \in [Types -> Nat]
      BY <1>1, <3>1 DEF MediaTyped, Final
    <3>3. ssrcs[s][media.type] = Sofar(offer[s], Len(offer[s]), media.type)
      BY <1>8, <3>1 DEF Final, Filled
    <3> QED BY <1>8, <3>2, <3>3, SofarAll
  <2>3. CASE Receives(media) /\ s # None
    BY <2>1, <2>2, <2>3 DEF Announced
  <2>4. CASE ~(Receives(media) /\ s # None)
    BY <2>1, <2>4 DEF Announced
  <2> QED BY <2>3, <2>4
<1> HIDE DEF ssrc, new
<1>10. rec \in Answers /\ rec.ext = accepted /\ rec.ssrc = ssrc
  <2>1. Direction(media) \in {"recvonly", "sendonly"}
    BY DEF Direction
  <2> QED BY <1>4, <1>8, <1>9, <2>1 DEF Answers
<1> HIDE DEF rec
<1> DEFINE list == Append(answer[c], rec)
<1>11. /\ list \in Seq(Answers) /\ Len(list) = k + 1 /\ list[k + 1] = rec
       /\ \A j \in 1..k : list[j] = answer[c][j]
  BY <1>4, <1>10
<1> HIDE DEF list
<1>12. /\ answer'[c] = list /\ ssrcs'[c] = new /\ extMap_'[c] = extMap_[c] \cup Ids(accepted)
       /\ \A d \in Conns : d # c => /\ answer'[d] = answer[d] /\ ssrcs'[d] = ssrcs[d]
                                     /\ extMap_'[d] = extMap_[d]
  BY <1>1, <1>2, <1>3 DEF MediaTyped, list, new
<1>13. MediaTyped'
  <2>1. answer' = [answer EXCEPT ![c] = list] /\ ssrcs' = [ssrcs EXCEPT ![c] = new]
    BY <1>2 DEF list, new
  <2>2. answer' \in [Conns -> Seq(Answers)]
    BY <1>1, <1>11, <2>1 DEF MediaTyped
  <2>3. ssrcs' \in [Conns -> {<<>>} \cup [Types -> Nat]]
    BY <1>1, <1>7, <2>1 DEF MediaTyped
  <2>4. extMap_' \in [Conns -> SUBSET Nat]
    BY <1>1, <1>2, <1>4, <1>8 DEF MediaTyped
  <2> QED BY <1>1, <1>2, <2>2, <2>3, <2>4 DEF MediaTyped
<1>14. Fresh'
  <2>1. \A u \in Threads : at[u] \in {"getLoop", "gotLoop", "getPort", "attach"} =>
          mine[u] \in Conns /\ mine[u] # c
    BY <1>0, <1>1, <1>2 DEF Numbered
  <2> QED BY <1>1, <1>2, <1>3, <1>12, <2>1 DEF Fresh
<1>15. Finals'
  <2>1. ASSUME NEW s \in Conns, Final(s) PROVE Final(s)'
    <3>1. s # c
      BY <1>2, <1>4, <2>1 DEF Final
    <3> QED BY <1>2, <1>12, <2>1, <3>1 DEF Final
  <2>2. stream \in Conns \cup {None} /\ localStream_ \in [Conns -> Conns \cup {None}]
    BY <1>1 DEF Typed
  <2> QED BY <1>1, <1>2, <2>1, <2>2 DEF Finals
<1>16. Attached'
  BY <1>1, <1>2 DEF Attached
<1>17. \A j : j \in 1..(k + 1) <=> j \in 1..k \/ j = k + 1
  BY <1>4
<1> HIDE DEF k
<1>18. Filled(c)'
  BY <1>2, <1>7, <1>11, <1>12 DEF Filled
<1>19. Announces(c)'
  <2> SUFFICES ASSUME kind[c] = "play", NEW j \in 1..(k + 1)
               PROVE  /\ localStream_[c] # None
                      /\ Receives(offer[c][j]) =>
                           list[j].ssrc = Declared(offer[localStream_[c]], offer[c][j].type)
    BY <1>2, <1>11, <1>12 DEF Announces
  <2>1. CASE j \in 1..k
    BY <1>6, <1>11, <2>1 DEF Announces, k
  <2>2. CASE j = k + 1
    BY <1>9, <1>10, <1>11, <2>2 DEF media
  <2> QED BY <1>17, <2>1, <2>2
<1>20. Mapped(c)'
  <2>1. ASSUME NEW j \in 1..(k + 1) PROVE list[j].ext = SetExtension(offer[c][j].ext)
    <3>1. CASE j \in 1..k
      BY <1>6, <1>11, <3>1 DEF Mapped, k
    <3>2. CASE j = k + 1
      BY <1>10, <1>11, <3>2 DEF media, accepted
    <3> QED BY <1>17, <3>1, <3>2
  <2>2. ASSUME NEW i
        PROVE  i \in extMap_[c] \cup Ids(accepted) <=> \E j \in 1..(k + 1) : i \in Ids(list[j].ext)
    <3>1. i \in extMap_[c] <=> \E j \in 1..k : i \in Ids(list[j].ext)
      BY <1>6, <1>11 DEF Mapped, k
    <3>2. i \in Ids(accepted) <=> i \in Ids(list[k + 1].ext)
      BY <1>10, <1>11
    <3> QED BY <1>17, <3>1, <3>2
  <2> QED BY <1>2, <1>11, <1>12, <2>1, <2>2 DEF Mapped
<1>21. ASSUME NEW d \in Conns, d # c PROVE Filled(d)' /\ Announces(d)' /\ Mapped(d)'
  <2>1. Filled(d) /\ Announces(d) /\ Mapped(d)
    BY DEF MediaInv
  <2> QED BY <1>2, <1>12, <1>21, <2>1 DEF Filled, Announces, Mapped
<1> QED BY <1>13, <1>14, <1>15, <1>16, <1>18, <1>19, <1>20, <1>21 DEF MediaInv

LEMMA NextMediaInv == ConnInv /\ MediaInv /\ [Next]_vars => MediaInv'
<1> SUFFICES ASSUME ConnInv, MediaInv, [Next]_vars PROVE MediaInv'
  OBVIOUS
<1>1. CASE UNCHANGED vars
  BY <1>1, QuietMediaInv DEF vars
<1>2. ASSUME ~crashed, NEW t \in Threads, Handler(t) PROVE MediaInv'
  <2>1. ASSUME NEW k \in {"post", "play"}, NEW body \in PostOffers \cup PlayOffers,
               Construct(t, k, body)
        PROVE  MediaInv'
    BY <2>1, ConstructMediaInv
  <2> QED BY <1>2, <2>1, CountersMediaInv, AddStreamMediaInv, AnswerMediaMediaInv,
             CallbackMediaInv, AddPCMediaInv, ThrowMediaInv DEF Handler
<1> QED BY <1>1, <1>2, TasksMediaInv DEF Next

LEMMA MediaInvariant == Spec => [](ConnInv /\ MediaInv)
  BY ConnInvariant, InitMediaInv, NextMediaInv, PTL DEF Spec

(* A stream that has its SSRCs to the end has what the offer declares. *)
LEMMA FinalDeclared ==
  ASSUME MediaInv, NEW s \in Conns, Final(s), NEW type \in Types
  PROVE  ssrcs[s][type] = Declared(offer[s], type)
<1>1. ssrcs[s][type] = Sofar(offer[s], Len(offer[s]), type)
  BY DEF MediaInv, Final, Filled
<1> QED BY <1>1, SofarAll

(* Whatever the offers: a player never meets a stream that CreateAnswer is still
   filling in, for callback_ hands it out after the last media. *)
THEOREM StreamAlwaysWhole == Spec => []StreamWhole
<1>1. ConnInv /\ MediaInv => StreamWhole
  <2> SUFFICES ASSUME ConnInv, MediaInv, NEW s \in {stream} \cup {localStream_[c] : c \in Conns},
                      s # None, NEW type \in {"audio", "video"}
               PROVE  ssrcs[s][type] = Declared(offer[s], type)
    BY DEF StreamWhole
  <2>1. s \in Conns /\ Final(s)
    BY DEF ConnInv, Typed, MediaInv, Finals
  <2> QED BY <2>1, FinalDeclared DEF Types
<1> QED BY <1>1, MediaInvariant, PTL

(* Whatever publishers replace main's stream meanwhile, a player in the table is
   a sink of one stream only, and its answer announces the SSRCs declared by the
   publisher of that stream. *)
THEOREM AnswerAlwaysNamesStream == Spec => []AnswerNamesStream
<1>1. ConnInv /\ MediaInv => AnswerNamesStream
  <2> SUFFICES ASSUME ConnInv, MediaInv, NEW c \in pcTable, kind[c] = "play"
               PROVE  /\ \A s \in Conns : c \in sinks[s] <=> s = localStream_[c]
                      /\ \A k \in 1..Len(answer[c]) : Receives(offer[c][k]) =>
                           answer[c][k].ssrc = Declared(offer[localStream_[c]], offer[c][k].type)
    BY DEF AnswerNamesStream
  <2>1. c \in Conns /\ Announces(c)
    BY DEF ConnInv, Typed, MediaInv
  <2>2. ASSUME NEW s \in Conns PROVE c \in sinks[s] <=> s = localStream_[c]
    BY <2>1, ConnFacts DEF MediaInv, Attached
  <2> QED BY <2>1, <2>2 DEF Announces
<1> QED BY <1>1, MediaInvariant, PTL

(* The least of a set of numbers. *)
LEMMA LeastOf ==
  ASSUME NEW S, S \subseteq Nat, S # {}
  PROVE  Min(S) \in S /\ \A y \in S : Min(S) <= y
<1>1. PICK R : IsWellFoundedOn(R, Nat) /\ \A x, y \in Nat : y < x => <<y, x>> \in R
  <2> DEFINE Below == OpToRel(<, Nat)
  <2>1. IsWellFoundedOn(Below, Nat)
    BY NatLessThanWellFounded
  <2>2. \A x, y \in Nat : y < x => <<y, x>> \in Below
    BY DEF OpToRel
  <2> QED BY <2>1, <2>2, Zenon
<1>2. \E x \in S : \A y \in S : ~(<<y, x>> \in R)
  BY <1>1, WFMin
<1>3. PICK x \in S : \A y \in S : ~(<<y, x>> \in R)
  BY <1>2
<1>4. ASSUME NEW y \in S PROVE x <= y
  <2>1. x \in Nat /\ y \in Nat /\ ~(y < x)
    BY <1>1, <1>3
  <2> QED BY <2>1
<1>5. \E z \in S : \A y \in S : z <= y
  BY <1>4
<1> QED BY <1>5 DEF Min

(* GetExtensionId yields, for any offers, an id that one of the answered media
   gave transport-cc, cut to eight bits; it is the id each of them has agreed to
   except where the offer itself has a lower one or the id is cut. *)
THEOREM ExtensionAlwaysAgreed == Spec => []ExtensionAgreed
<1>1. ConnInv /\ MediaInv => ExtensionAgreed
  <2> SUFFICES ASSUME ConnInv, MediaInv, NEW c \in pcTable
               PROVE  /\ IF TccLines(c) = {} THEN GetExtensionId(c) = -1
                         ELSE \E e \in TccLines(c) : GetExtensionId(c) = e[1] % IdValues
                      /\ \A k \in 1..Len(answer[c]) : \A e \in answer[c][k].ext :
                           \/ GetExtensionId(c) = e[1]
                           \/ e[1] >= IdValues
                           \/ \E f \in TccLines(c) : f[1] % IdValues < e[1]
    BY DEF ExtensionAgreed
  <2> DEFINE n == Len(answer[c])
             lines == TccLines(c)
  <2>1. c \in Conns /\ Mapped(c) /\ Filled(c) /\ offer[c] \in Seq(Media) /\ n \in Nat
    BY DEF ConnInv, Typed, MediaInv, MediaTyped
  <2>2. \A k \in 1..n : offer[c][k].ext \subseteq Nat \X {"tcc", "other"}
    <3>1. \A k \in 1..n : k \in 1..Len(offer[c])
      BY <2>1 DEF Filled
    <3> QED BY <2>1, <3>1, MediaFacts
  <2>3. \A e : e \in lines <=> \E k \in 1..n : e \in answer[c][k].ext
    BY <2>1 DEF TccLines, Mapped, SetExtension
  <2>4. \A e \in lines : e[1] \in Nat /\ e[1] % IdValues \in Nat
    BY <2>2, CountersAssumption DEF TccLines
  <2>5. \A i : i \in extMap_[c] <=> \E e \in lines : i = e[1] % IdValues
    BY <2>1, <2>3 DEF Mapped, Ids
  <2> HIDE DEF n, lines
  <2>6. CASE lines = {}
    <3>1. GetExtensionId(c) = -1
      BY <2>5, <2>6 DEF GetExtensionId
    <3> QED BY <2>3, <2>6, <3>1 DEF n, lines
  <2>7. CASE lines # {}
    <3> DEFINE g == Min(extMap_[c])
    <3>1. extMap_[c] \subseteq Nat /\ extMap_[c] # {}
      BY <2>4, <2>5, <2>7
    <3>2. GetExtensionId(c) = g /\ g \in extMap_[c] /\ \A y \in extMap_[c] : g <= y
      BY <3>1, LeastOf DEF GetExtensionId
    <3> HIDE DEF g
    <3>3. PICK f \in lines : g = f[1] % IdValues
      BY <2>5, <3>2
    <3>4. ASSUME NEW e \in lines, e[1] < IdValues, g # e[1] PROVE g < e[1]
      <4>1. e[1] \in Nat /\ IdValues \in Nat \ {0} /\ g \in Nat
        BY <2>4, <3>1, <3>2, CountersAssumption
      <4>2. e[1] % IdValues = e[1]
        BY <3>4, <4>1, ModSmall
      <4>3. g <= e[1]
        BY <2>5, <3>2, <4>2
      <4> QED BY <3>4, <4>1, <4>3
    <3>5. \A e \in lines : e[1] >= IdValues \/ e[1] < IdValues
      BY <2>4, CountersAssumption
    <3>6. \A e \in lines : g = e[1] \/ e[1] >= IdValues \/ f[1] % IdValues < e[1]
      BY <3>3, <3>4, <3>5
    <3> QED BY <2>3, <2>7, <3>2, <3>3, <3>6 DEF n, lines
  <2> QED BY <2>6, <2>7
<1> QED BY <1>1, MediaInvariant, PTL

=============================================================================
