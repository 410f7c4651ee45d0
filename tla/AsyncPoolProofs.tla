-------------------------- MODULE AsyncPoolProofs --------------------------
(***************************************************************************)
(* Proofs about AsyncPool for any number of threads and tasks: the         *)
(* lifetime of the handles on loops that any number of threads run, and    *)
(* the task queue that a loop run by one thread implements.                *)
(***************************************************************************)
EXTENDS AsyncPool, BasicLemmas, FiniteSetTheorems

Places == {"idle", "inited", "armed", "marked", "woken"}

(* The values of the variables. *)
Typed ==
  /\ at \in [Threads -> Places]
  /\ count \in [Threads -> Nat]
  /\ \A t \in Threads : count[t] <= MaxTasks /\ (at[t] # "idle" => count[t] >= 1)
  /\ queue \in Seq(Handles)
  /\ data \in SUBSET Handles
  /\ pending \in [Handles -> Nat]
  /\ scan \in [Runners -> Seq(Handles)]
  /\ running \in [Runners -> Handles \cup {NoHandle}]
  /\ closing \in SUBSET Handles
  /\ deleted \in SUBSET Handles
  /\ ran \in Seq(Handles)

(* Async has allocated the handle. *)
Allocated(h) == h[2] <= count[h[1]]

(* Its sender is still inside Async. *)
Busy(h) == at[h[1]] # "idle" /\ h[2] = count[h[1]]

(* It has been closed. *)
Spent == deleted \cup closing

(* The loop's list and the runners' local ones hold each handle once, and none
   that is closed. *)
Lists ==
  /\ IsInjective(queue)
  /\ \A h \in Range(queue) : Allocated(h) /\ h \notin Spent
  /\ \A r \in Runners :
       /\ IsInjective(scan[r])
       /\ Range(scan[r]) \cap Range(queue) = {}
       /\ \A h \in Range(scan[r]) : Allocated(h) /\ h \notin Spent
       /\ \A s \in Runners : r # s => Range(scan[r]) \cap Range(scan[s]) = {}

(* A handle is signalled when its closure is set and its sender is through,
   and closed after that. *)
Signalled(h) ==
  /\ ~Allocated(h) => pending[h] = 0
  /\ pending[h] = 2 => Allocated(h) /\ h \in data /\ h \notin Spent /\ ~Busy(h)
  /\ h \in Spent => Allocated(h) /\ pending[h] = 0 /\ ~Busy(h)
  /\ Busy(h) /\ at[h[1]] \in {"inited", "armed"} => pending[h] = 0
  /\ Busy(h) /\ at[h[1]] # "inited" => h \in data

(* The callback a runner is in is the only one of its handle, which is open. *)
Called(r) ==
  running[r] # NoHandle =>
    /\ Allocated(running[r]) /\ running[r] \in data /\ running[r] \notin Spent
    /\ pending[running[r]] = 0 /\ ~Busy(running[r])
    /\ \A s \in Runners : r # s => running[s] # running[r]

Lifetimes == (\A h \in Handles : Signalled(h)) /\ (\A r \in Runners : Called(r))

HandleInv == Typed /\ Lists /\ Lifetimes

-----------------------------------------------------------------------------
(* The lists.                                                              *)

(* uv_close takes a handle out of the list it is in; the others keep their
   order. *)
LEMMA UnlinkedAt ==
  ASSUME NEW S, NEW s \in Seq(S), IsInjective(s), NEW k \in 1..Len(s)
  PROVE  LET u == Unlink(s, s[k])
         IN  /\ u \in Seq(S) /\ Len(u) = Len(s) - 1
             /\ \A i \in 1..(Len(s) - 1) : u[i] = IF i < k THEN s[i] ELSE s[i + 1]
<1> DEFINE n == Len(s)
           a == SubSeq(s, 1, k - 1)
           b == SubSeq(s, k + 1, n)
<1>1. n \in Nat /\ DOMAIN s = 1..n /\ k \in Nat /\ 1 <= k /\ k <= n
  OBVIOUS
<1>2. \A i \in 1..n : s[i] = s[k] <=> i = k
  BY <1>1 DEF IsInjective
<1>3. {i \in 1..n : s[i] = s[k]} = {k}
  BY <1>2
<1>4. Min({k}) = k
  BY <1>1 DEF Min
<1>5. SelectInSeq(s, LAMBDA v : v = s[k]) = k
  BY <1>3, <1>4 DEF SelectInSeq
<1>6. Unlink(s, s[k]) = a \o b
  BY <1>5 DEF Unlink, RemoveFirst, RemoveAt
<1>7. /\ a \in Seq(S) /\ Len(a) = k - 1 /\ \A i \in 1..(k - 1) : a[i] = s[i]
      /\ b \in Seq(S) /\ Len(b) = n - k /\ \A i \in 1..(n - k) : b[i] = s[i + k]
  OBVIOUS
<1> HIDE DEF n, a, b
<1>8. a \o b \in Seq(S) /\ Len(a \o b) = n - 1
  <2>1. a \o b \in Seq(S) /\ Len(a \o b) = Len(a) + Len(b)
    BY <1>7, ConcatProperties
  <2> QED BY <1>1, <1>7, <2>1
<1>9. ASSUME NEW i \in 1..(n - 1)
      PROVE  (a \o b)[i] = IF i < k THEN s[i] ELSE s[i + 1]
  <2>1. (a \o b)[i] = IF i <= k - 1 THEN a[i] ELSE b[i - (k - 1)]
    BY <1>1, <1>7
  <2>2. CASE i < k
    <3>1. i \in 1..(k - 1)
      BY <1>1, <2>2
    <3> QED BY <1>1, <1>7, <2>1, <2>2, <3>1
  <2>3. CASE ~(i < k)
    <3>1. i - (k - 1) \in 1..(n - k) /\ (i - (k - 1)) + k = i + 1
      BY <1>1, <2>3
    <3> QED BY <1>1, <1>7, <2>1, <2>3, <3>1
  <2> QED BY <2>2, <2>3
<1> QED BY <1>6, <1>8, <1>9 DEF n

(* What the list holds afterwards. *)
LEMMA Unlinked ==
  ASSUME NEW S, NEW s \in Seq(S), IsInjective(s), NEW h
  PROVE  /\ Unlink(s, h) \in Seq(S) /\ IsInjective(Unlink(s, h))
         /\ Range(Unlink(s, h)) = Range(s) \ {h}
<1> DEFINE n == Len(s)
           u == Unlink(s, h)
<1>1. n \in Nat /\ DOMAIN s = 1..n
  OBVIOUS
<1>2. CASE h \notin Range(s)
  <2>1. u = s
    BY <1>2 DEF Unlink, RemoveFirst, Range
  <2> QED BY <1>2, <2>1
<1>3. CASE h \in Range(s)
  <2>1. PICK k \in 1..n : s[k] = h
    BY <1>1, <1>3 DEF Range
  <2>2. /\ u \in Seq(S) /\ Len(u) = n - 1
        /\ \A i \in 1..(n - 1) : u[i] = IF i < k THEN s[i] ELSE s[i + 1]
    BY <2>1, UnlinkedAt
  <2>3. DOMAIN u = 1..(n - 1)
    BY <2>2
  <2> HIDE DEF n, u
  <2>4. \A i, j \in 1..n : s[i] = s[j] => i = j
    BY <1>1 DEF IsInjective
  <2>5. IsInjective(u)
    BY <1>1, <2>2, <2>3, <2>4 DEF IsInjective
  <2>6. ASSUME NEW i \in 1..(n - 1) PROVE u[i] \in Range(s) \ {h}
    <3>1. CASE i < k
      BY <1>1, <2>1, <2>2, <2>4, <3>1 DEF Range
    <3>2. CASE ~(i < k)
      <4>1. i + 1 \in 1..n /\ i + 1 # k /\ u[i] = s[i + 1]
        BY <1>1, <2>2, <3>2
      <4> QED BY <1>1, <2>1, <2>4, <4>1 DEF Range
    <3> QED BY <3>1, <3>2
  <2>7. ASSUME NEW i \in 1..n, s[i] # h PROVE s[i] \in Range(u)
    <3>1. CASE i < k
      <4>1. i \in 1..(n - 1) /\ u[i] = s[i]
        BY <1>1, <2>2, <3>1
      <4> QED BY <2>3, <4>1 DEF Range
    <3>2. CASE ~(i < k)
      <4>1. i - 1 \in 1..(n - 1) /\ u[i - 1] = s[i]
        BY <1>1, <2>1, <2>2, <2>7, <3>2
      <4> QED BY <2>3, <4>1 DEF Range
    <3> QED BY <3>1, <3>2
  <2>8. Range(u) = Range(s) \ {h}
    BY <1>1, <2>3, <2>6, <2>7 DEF Range
  <2> QED BY <2>2, <2>5, <2>8 DEF u
<1> QED BY <1>2, <1>3

-----------------------------------------------------------------------------
(* The lifetime of a handle, with any number of runners.                   *)

LEMMA HandleFacts ==
  /\ \A h \in Handles : h[1] \in Threads /\ h[2] \in Nat /\ 1 <= h[2] /\ h[2] <= MaxTasks
  /\ \A g, h \in Handles : g[1] = h[1] /\ g[2] = h[2] => g = h
  /\ \A t \in Threads, n \in Nat : 1 <= n /\ n <= MaxTasks =>
       <<t, n>> \in Handles /\ <<t, n>>[1] = t /\ <<t, n>>[2] = n
  BY RunnersAssumption DEF Handles

LEMMA InitHandleInv == Init => HandleInv
<1> SUFFICES ASSUME Init PROVE HandleInv
  OBVIOUS
<1> USE DEF Init
<1>1. Typed
  BY RunnersAssumption, EmptyHolds DEF Typed, Places
<1>2. Lists
  BY EmptyHolds DEF Lists, Spent
<1>3. Lifetimes
  <2>1. \A h \in Handles : ~Busy(h) /\ ~Allocated(h)
    BY HandleFacts DEF Busy, Allocated
  <2> QED BY <2>1, HandleFacts DEF Lifetimes, Signalled, Called, Spent
<1> QED BY <1>1, <1>2, <1>3 DEF HandleInv

(* The handle of the call a thread is in. *)
LEMMA CurrentHandle ==
  ASSUME Typed, NEW t \in Threads, at[t] # "idle"
  PROVE  /\ Current(t) \in Handles /\ Current(t)[1] = t /\ Current(t)[2] = count[t]
         /\ Allocated(Current(t)) /\ Busy(Current(t))
         /\ \A h \in Handles : h = Current(t) <=> h[1] = t /\ h[2] = count[t]
<1>1. count[t] \in Nat /\ 1 <= count[t] /\ count[t] <= MaxTasks
  BY DEF Typed
<1>2. Current(t) \in Handles /\ Current(t)[1] = t /\ Current(t)[2] = count[t]
  BY <1>1, HandleFacts DEF Current
<1> QED BY <1>1, <1>2, HandleFacts DEF Allocated, Busy

(* A step inside Async that neither allocates a handle nor lets go of one. *)
LEMMA AsyncKeeps ==
  ASSUME Typed, NEW t \in Threads, NEW place \in Places \ {"idle"}, at[t] # "idle",
         at' = [at EXCEPT ![t] = place], count' = count
  PROVE  /\ \A h \in Handles : Allocated(h)' = Allocated(h) /\ Busy(h)' = Busy(h)
         /\ \A h \in Handles : Busy(h) /\ h # Current(t) => h[1] # t /\ at'[h[1]] = at[h[1]]
         /\ at'[t] = place /\ at' \in [Threads -> Places]
         /\ \A u \in Threads : count'[u] <= MaxTasks /\ (at'[u] # "idle" => count'[u] >= 1)
<1>1. at \in [Threads -> Places]
  BY DEF Typed
<1>2. \A h \in Handles : Allocated(h)' = Allocated(h) /\ Busy(h)' = Busy(h)
  BY <1>1, HandleFacts DEF Allocated, Busy
<1>3. \A h \in Handles : Busy(h) /\ h # Current(t) => h[1] # t /\ at'[h[1]] = at[h[1]]
  BY <1>1, HandleFacts, CurrentHandle DEF Busy
<1>4. at'[t] = place /\ at' \in [Threads -> Places]
  BY <1>1
<1> QED BY <1>1, <1>2, <1>3, <1>4 DEF Typed

(* The lists hold handles. *)
LEMMA ListedAreHandles ==
  ASSUME Typed
  PROVE  /\ \A h \in Range(queue) : h \in Handles
         /\ \A r \in Runners : \A h \in Range(scan[r]) : h \in Handles
  BY DEF Typed, Range

LEMMA AsyncInitHandleInv ==
  ASSUME HandleInv, NEW t \in Threads, AsyncInit(t)
  PROVE  HandleInv'
<1> USE DEF AsyncInit
<1> DEFINE g == <<t, count[t] + 1>>
<1>1. /\ at[t] = "idle" /\ count[t] \in Nat /\ count[t] + 1 <= MaxTasks
      /\ at \in [Threads -> Places] /\ count \in [Threads -> Nat] /\ queue \in Seq(Handles)
  BY RunnersAssumption DEF HandleInv, Typed
<1>2. g \in Handles /\ g[1] = t /\ g[2] = count[t] + 1
  BY <1>1, HandleFacts
<1>3. ~Allocated(g) /\ \A h \in Handles : h = g <=> h[1] = t /\ h[2] = count[t] + 1
  BY <1>1, <1>2, HandleFacts DEF Allocated
<1>4. queue' = Append(queue, g)
  BY DEF Link
<1> HIDE DEF g
<1>5. /\ \A h \in Handles : Allocated(h)' <=> Allocated(h) \/ h = g
      /\ \A h \in Handles : Busy(h)' <=> Busy(h) \/ h = g
      /\ \A h \in Handles : Busy(h) => h[1] # t /\ at'[h[1]] = at[h[1]]
      /\ at'[t] = "inited"
  BY <1>1, <1>3, HandleFacts DEF Allocated, Busy
<1>6. g \notin Range(queue) /\ (\A r \in Runners : g \notin Range(scan[r])) /\ g \notin Spent
  BY <1>2, <1>3 DEF HandleInv, Lists, Lifetimes, Signalled
<1>7. queue' \in Seq(Handles) /\ Range(queue') = Range(queue) \cup {g} /\ IsInjective(queue')
  <2>1. IsInjective(queue)
    BY DEF HandleInv, Lists
  <2> QED BY ONLY <1>1, <1>2, <1>4, <1>6, <2>1, AppendHolds
<1>8. Spent' = Spent
  BY DEF Spent
<1>9. Typed'
  <2>1. at' \in [Threads -> Places] /\ count' \in [Threads -> Nat]
    BY <1>1 DEF Places
  <2>2. \A u \in Threads : count'[u] <= MaxTasks /\ (at'[u] # "idle" => count'[u] >= 1)
    BY <1>1 DEF HandleInv, Typed
  <2> QED BY <1>7, <2>1, <2>2 DEF HandleInv, Typed
<1>10. Lists'
  BY <1>2, <1>5, <1>6, <1>7, <1>8, ListedAreHandles DEF HandleInv, Lists
<1>11. Lifetimes'
  <2>1. ASSUME NEW h \in Handles PROVE Signalled(h)'
    BY <1>2, <1>3, <1>5, <1>6, <1>8 DEF HandleInv, Lifetimes, Signalled
  <2>2. ASSUME NEW r \in Runners, running[r] # NoHandle
        PROVE  /\ running[r] \in Handles /\ Allocated(running[r])' /\ ~Busy(running[r])'
    BY <1>3, <1>5, <2>2 DEF HandleInv, Typed, Lifetimes, Called
  <2> QED BY <1>8, <2>1, <2>2 DEF HandleInv, Lifetimes, Called
<1> QED BY <1>9, <1>10, <1>11 DEF HandleInv

LEMMA AsyncSetDataHandleInv ==
  ASSUME HandleInv, NEW t \in Threads, AsyncSetData(t)
  PROVE  HandleInv'
<1>1. Typed /\ Lists /\ Lifetimes /\ at[t] = "inited" /\ "armed" \in Places \ {"idle"}
  BY DEF HandleInv, AsyncSetData, Places
<1>2. /\ Current(t) \in Handles /\ Current(t)[1] = t
      /\ Allocated(Current(t)) /\ Busy(Current(t))
  BY <1>1, CurrentHandle
<1>3. /\ \A h \in Handles : Allocated(h)' = Allocated(h) /\ Busy(h)' = Busy(h)
      /\ \A h \in Handles : Busy(h) /\ h # Current(t) => h[1] # t /\ at'[h[1]] = at[h[1]]
      /\ at'[t] = "armed" /\ at' \in [Threads -> Places]
      /\ \A u \in Threads : count'[u] <= MaxTasks /\ (at'[u] # "idle" => count'[u] >= 1)
  BY <1>1, AsyncKeeps DEF AsyncSetData
<1>4. Typed'
  BY <1>1, <1>2, <1>3 DEF AsyncSetData, Typed
<1>5. Spent' = Spent
  BY DEF AsyncSetData, Spent
<1>6. Lists'
  BY <1>1, <1>3, <1>5, ListedAreHandles DEF AsyncSetData, Lists
<1>7. Lifetimes'
  <2>1. ASSUME NEW h \in Handles PROVE Signalled(h)'
    BY <1>1, <1>2, <1>3, <1>5 DEF AsyncSetData, Lifetimes, Signalled
  <2>2. ASSUME NEW r \in Runners, running[r] # NoHandle
        PROVE  running[r] \in Handles
    BY <1>1, <2>2 DEF Typed
  <2> QED BY <1>1, <1>3, <1>5, <2>1, <2>2 DEF AsyncSetData, Lifetimes, Called
<1> QED BY <1>4, <1>6, <1>7 DEF HandleInv

LEMMA SendMarkHandleInv ==
  ASSUME HandleInv, NEW t \in Threads, SendMark(t)
  PROVE  HandleInv'
<1>1. Typed /\ Lists /\ Lifetimes /\ at[t] = "armed" /\ "marked" \in Places \ {"idle"}
  BY DEF HandleInv, SendMark, Places
<1>2. /\ Current(t) \in Handles /\ Current(t)[1] = t
      /\ Allocated(Current(t)) /\ Busy(Current(t))
  BY <1>1, CurrentHandle
<1>3. /\ \A h \in Handles : Allocated(h)' = Allocated(h) /\ Busy(h)' = Busy(h)
      /\ \A h \in Handles : Busy(h) /\ h # Current(t) => h[1] # t /\ at'[h[1]] = at[h[1]]
      /\ at'[t] = "marked" /\ at' \in [Threads -> Places]
      /\ \A u \in Threads : count'[u] <= MaxTasks /\ (at'[u] # "idle" => count'[u] >= 1)
  BY <1>1, AsyncKeeps DEF SendMark
<1>4. Typed'
  BY <1>1, <1>2, <1>3 DEF SendMark, Typed
<1>5. Spent' = Spent
  BY DEF SendMark, Spent
<1>6. Lists'
  BY <1>1, <1>3, <1>5, ListedAreHandles DEF SendMark, Lists
<1>7. Lifetimes'
  <2>0. /\ pending'[Current(t)] = 1
        /\ \A h \in Handles : h # Current(t) => pending'[h] = pending[h]
    BY <1>1, <1>2 DEF SendMark, Typed
  <2>1. ASSUME NEW h \in Handles PROVE Signalled(h)'
    <3>1. CASE h = Current(t)
      BY <1>1, <1>2, <1>3, <1>5, <2>0, <3>1 DEF SendMark, Lifetimes, Signalled
    <3>2. CASE h # Current(t)
      BY <1>1, <1>2, <1>3, <1>5, <2>0, <3>2 DEF SendMark, Lifetimes, Signalled
    <3> QED BY <3>1, <3>2
  <2>2. ASSUME NEW r \in Runners, running[r] # NoHandle
        PROVE  running[r] \in Handles /\ pending'[running[r]] = 0
    BY <1>1, <1>2, <2>0, <2>2 DEF Typed, Lifetimes, Called
  <2> QED BY <1>1, <1>3, <1>5, <2>1, <2>2 DEF SendMark, Lifetimes, Called
<1> QED BY <1>4, <1>6, <1>7 DEF HandleInv

LEMMA SendWakeHandleInv ==
  ASSUME HandleInv, NEW t \in Threads, SendWake(t)
  PROVE  HandleInv'
<1>1. Typed /\ Lists /\ Lifetimes /\ at[t] = "marked" /\ "woken" \in Places \ {"idle"}
  BY DEF HandleInv, SendWake, Places
<1>2. /\ Current(t) \in Handles /\ Current(t)[1] = t
      /\ Allocated(Current(t)) /\ Busy(Current(t))
  BY <1>1, CurrentHandle
<1>3. /\ \A h \in Handles : Allocated(h)' = Allocated(h) /\ Busy(h)' = Busy(h)
      /\ \A h \in Handles : Busy(h) /\ h # Current(t) => h[1] # t /\ at'[h[1]] = at[h[1]]
      /\ at'[t] = "woken" /\ at' \in [Threads -> Places]
      /\ \A u \in Threads : count'[u] <= MaxTasks /\ (at'[u] # "idle" => count'[u] >= 1)
  BY <1>1, AsyncKeeps DEF SendWake
<1>4. Typed'
  BY <1>1, <1>2, <1>3 DEF SendWake, Typed
<1>5. Spent' = Spent
  BY DEF SendWake, Spent
<1>6. Lists'
  BY <1>1, <1>3, <1>5, ListedAreHandles DEF SendWake, Lists
<1>7. Lifetimes'
  <2>1. ASSUME NEW h \in Handles PROVE Signalled(h)'
    BY <1>1, <1>2, <1>3, <1>5 DEF SendWake, Lifetimes, Signalled
  <2>2. ASSUME NEW r \in Runners, running[r] # NoHandle
        PROVE  running[r] \in Handles
    BY <1>1, <2>2 DEF Typed
  <2> QED BY <1>1, <1>3, <1>5, <2>1, <2>2 DEF SendWake, Lifetimes, Called
<1> QED BY <1>4, <1>6, <1>7 DEF HandleInv

LEMMA SendDoneHandleInv ==
  ASSUME HandleInv, NEW t \in Threads, SendDone(t)
  PROVE  HandleInv'
<1>1. Typed /\ Lists /\ Lifetimes /\ at[t] = "woken"
  BY DEF HandleInv, SendDone
<1>2. /\ Current(t) \in Handles /\ Current(t)[1] = t
      /\ Allocated(Current(t)) /\ Busy(Current(t))
      /\ \A h \in Handles : h = Current(t) <=> h[1] = t /\ h[2] = count[t]
  BY <1>1, CurrentHandle
<1>3. /\ \A h \in Handles : Allocated(h)' = Allocated(h)
      /\ \A h \in Handles : Busy(h)' <=> Busy(h) /\ h # Current(t)
      /\ \A h \in Handles : Busy(h)' => at'[h[1]] = at[h[1]]
  BY <1>1, <1>2, HandleFacts DEF SendDone, Typed, Allocated, Busy
<1>4. Typed'
  BY <1>1, <1>2 DEF SendDone, Typed, Places
<1>5. Spent' = Spent
  BY DEF SendDone, Spent
<1>6. Lists'
  BY <1>1, <1>3, <1>5, ListedAreHandles DEF SendDone, Lists
<1>7. Lifetimes'
  <2>0. /\ pending'[Current(t)] = 2
        /\ \A h \in Handles : h # Current(t) => pending'[h] = pending[h]
    BY <1>1, <1>2 DEF SendDone, Typed
  <2>1. ASSUME NEW h \in Handles PROVE Signalled(h)'
    <3>1. CASE h = Current(t)
      BY <1>1, <1>2, <1>3, <1>5, <2>0, <3>1 DEF SendDone, Lifetimes, Signalled
    <3>2. CASE h # Current(t)
      BY <1>1, <1>2, <1>3, <1>5, <2>0, <3>2 DEF SendDone, Lifetimes, Signalled
    <3> QED BY <3>1, <3>2
  <2>2. ASSUME NEW r \in Runners, running[r] # NoHandle
        PROVE  running[r] \in Handles /\ pending'[running[r]] = 0 /\ ~Busy(running[r])'
    BY <1>1, <1>2, <1>3, <2>0, <2>2 DEF SendDone, Typed, Lifetimes, Called
  <2> QED BY <1>1, <1>3, <1>5, <2>1, <2>2 DEF SendDone, Lifetimes, Called
<1> QED BY <1>4, <1>6, <1>7 DEF HandleInv

(* A step of a loop leaves the senders and their handles alone. *)
LEMMA LoopKeeps ==
  ASSUME at' = at, count' = count
  PROVE  \A h \in Handles : Allocated(h)' = Allocated(h) /\ Busy(h)' = Busy(h)
  BY DEF Allocated, Busy

LEMMA BeginPassHandleInv ==
  ASSUME HandleInv, NEW r \in Runners, BeginPass(r)
  PROVE  HandleInv'
<1>1. Typed /\ Lists /\ Lifetimes /\ scan \in [Runners -> Seq(Handles)] /\ scan[r] = <<>>
  BY DEF HandleInv, Typed, BeginPass
<1>2. \A h \in Handles : Allocated(h)' = Allocated(h) /\ Busy(h)' = Busy(h)
  BY LoopKeeps DEF BeginPass
<1>3. queue' = <<>> /\ queue' \in Seq(Handles) /\ Range(queue') = {} /\ IsInjective(queue')
  BY EmptyHolds DEF BeginPass
<1>4. /\ scan' \in [Runners -> Seq(Handles)] /\ scan'[r] = queue
      /\ \A s \in Runners : s # r => scan'[s] = scan[s]
  BY <1>1 DEF Typed, BeginPass
<1>5. Spent' = Spent
  BY DEF BeginPass, Spent
<1>6. Typed'
  BY <1>1, <1>3, <1>4 DEF BeginPass, Typed
<1>7. Lists'
  <2>1. ASSUME NEW s \in Runners
        PROVE  /\ IsInjective(scan'[s])
               /\ \A h \in Range(scan'[s]) : Allocated(h)' /\ h \notin Spent'
               /\ \A u \in Runners : s # u => Range(scan'[s]) \cap Range(scan'[u]) = {}
    <3>1. CASE s = r
      BY <1>1, <1>2, <1>4, <1>5, <3>1, ListedAreHandles DEF Lists
    <3>2. CASE s # r
      BY <1>1, <1>2, <1>4, <1>5, <3>2, ListedAreHandles DEF Lists
    <3> QED BY <3>1, <3>2
  <2> QED BY <1>3, <2>1 DEF Lists
<1>8. Lifetimes'
  <2>1. ASSUME NEW h \in Handles PROVE Signalled(h)'
    BY <1>1, <1>2, <1>5 DEF BeginPass, Lifetimes, Signalled
  <2>2. ASSUME NEW s \in Runners, running[s] # NoHandle PROVE running[s] \in Handles
    BY <1>1, <2>2 DEF Typed
  <2> QED BY <1>1, <1>2, <1>5, <2>1, <2>2 DEF BeginPass, Lifetimes, Called
<1> QED BY <1>6, <1>7, <1>8 DEF HandleInv

(* A runner puts the head of its list back into the loop's. *)
LEMMA HeadMoved ==
  ASSUME Typed, Lists, NEW r \in Runners, scan[r] # <<>>,
         scan' = [scan EXCEPT ![r] = Tail(@)], queue' = Append(queue, Head(scan[r])),
         at' = at, count' = count, closing' = closing, deleted' = deleted
  PROVE  /\ Lists' /\ queue' \in Seq(Handles) /\ scan' \in [Runners -> Seq(Handles)]
         /\ Head(scan[r]) \in Handles /\ Head(scan[r]) \in Range(scan[r])
<1> DEFINE h == Head(scan[r])
           rest == Tail(scan[r])
<1>1. scan \in [Runners -> Seq(Handles)] /\ scan[r] \in Seq(Handles) /\ queue \in Seq(Handles)
  BY DEF Typed
<1>2. IsInjective(scan[r]) /\ IsInjective(queue) /\ Range(scan[r]) \cap Range(queue) = {}
  BY DEF Lists
<1>3. /\ h \in Handles /\ rest \in Seq(Handles) /\ Range(scan[r]) = Range(rest) \cup {h}
      /\ IsInjective(rest) /\ h \notin Range(rest)
  BY <1>1, <1>2, TailHolds
<1>4. scan' = [scan EXCEPT ![r] = rest] /\ queue' = Append(queue, h)
  OBVIOUS
<1> HIDE DEF h, rest
<1>5. /\ scan' \in [Runners -> Seq(Handles)] /\ scan'[r] = rest
      /\ \A s \in Runners : s # r => scan'[s] = scan[s]
  BY <1>1, <1>3, <1>4
<1>6. h \notin Range(queue)
  BY <1>2, <1>3
<1>7. queue' \in Seq(Handles) /\ Range(queue') = Range(queue) \cup {h} /\ IsInjective(queue')
  BY ONLY <1>1, <1>2, <1>3, <1>4, <1>6, AppendHolds
<1>8. Spent' = Spent /\ \A g \in Handles : Allocated(g)' = Allocated(g)
  BY LoopKeeps DEF Spent
<1>9. /\ \A g \in Range(queue) : Allocated(g) /\ g \notin Spent /\ g \in Handles
      /\ \A s \in Runners : \A g \in Range(scan[s]) : Allocated(g) /\ g \notin Spent /\ g \in Handles
  BY ListedAreHandles DEF Lists
<1>10. ASSUME NEW s \in Runners
       PROVE  /\ IsInjective(scan'[s])
              /\ Range(scan'[s]) \cap Range(queue') = {}
              /\ Range(scan'[s]) \subseteq Range(scan[s])
              /\ \A g \in Range(scan'[s]) : Allocated(g)' /\ g \notin Spent'
  <2>1. CASE s = r
    BY <1>2, <1>3, <1>5, <1>7, <1>8, <1>9, <2>1
  <2>2. CASE s # r
    <3>1. scan'[s] = scan[s] /\ IsInjective(scan[s])
      BY <1>5, <2>2 DEF Lists
    <3>2. Range(scan[s]) \cap Range(queue) = {} /\ Range(scan[s]) \cap Range(scan[r]) = {}
      BY <2>2 DEF Lists
    <3> QED BY <1>3, <1>7, <1>8, <1>9, <3>1, <3>2
  <2> QED BY <2>1, <2>2
<1>11. ASSUME NEW s \in Runners, NEW u \in Runners, s # u
       PROVE  Range(scan'[s]) \cap Range(scan'[u]) = {}
  <2>1. Range(scan[s]) \cap Range(scan[u]) = {}
    BY <1>11 DEF Lists
  <2> QED BY <1>10, <2>1
<1>12. \A g \in Range(queue') : Allocated(g)' /\ g \notin Spent'
  BY <1>3, <1>7, <1>8, <1>9
<1>13. Lists'
  BY <1>7, <1>10, <1>11, <1>12 DEF Lists
<1> QED BY <1>3, <1>5, <1>7, <1>13 DEF h

LEMMA SkipHandleHandleInv ==
  ASSUME HandleInv, NEW r \in Runners, SkipHandle(r)
  PROVE  HandleInv'
<1>1. Typed /\ Lists /\ Lifetimes
  BY DEF HandleInv
<1>2. \A h \in Handles : Allocated(h)' = Allocated(h) /\ Busy(h)' = Busy(h)
  BY LoopKeeps DEF SkipHandle
<1>3. Lists' /\ queue' \in Seq(Handles) /\ scan' \in [Runners -> Seq(Handles)]
  BY <1>1, HeadMoved DEF SkipHandle
<1>4. Spent' = Spent
  BY DEF SkipHandle, Spent
<1>5. Typed'
  BY <1>1, <1>3 DEF SkipHandle, Typed
<1>6. Lifetimes'
  <2>1. ASSUME NEW h \in Handles PROVE Signalled(h)'
    BY <1>1, <1>2, <1>4 DEF SkipHandle, Lifetimes, Signalled
  <2>2. ASSUME NEW s \in Runners, running[s] # NoHandle PROVE running[s] \in Handles
    BY <1>1, <2>2 DEF Typed
  <2> QED BY <1>1, <1>2, <1>4, <2>1, <2>2 DEF SkipHandle, Lifetimes, Called
<1> QED BY <1>3, <1>5, <1>6 DEF HandleInv

LEMMA BeginTaskHandleInv ==
  ASSUME HandleInv, NEW r \in Runners, BeginTask(r)
  PROVE  HandleInv'
<1> DEFINE h == Head(scan[r])
<1>1. Typed /\ Lists /\ Lifetimes /\ running[r] = NoHandle
  BY DEF HandleInv, BeginTask
<1>2. \A g \in Handles : Allocated(g)' = Allocated(g) /\ Busy(g)' = Busy(g)
  BY LoopKeeps DEF BeginTask
<1>3. Lists' /\ queue' \in Seq(Handles) /\ scan' \in [Runners -> Seq(Handles)] /\ h \in Handles
  BY <1>1, HeadMoved DEF BeginTask
<1>4. Spent' = Spent /\ data' = data /\ at' = at
  BY DEF BeginTask, Spent
<1>5. /\ pending[h] = 2 /\ pending' = [pending EXCEPT ![h] = 0]
      /\ running' = [running EXCEPT ![r] = h] /\ ran' = Append(ran, h)
  BY DEF BeginTask
<1> HIDE DEF h
<1>6. Typed'
  <2>1. ran' \in Seq(Handles) /\ pending' \in [Handles -> Nat]
        /\ running' \in [Runners -> Handles \cup {NoHandle}]
    BY <1>1, <1>3, <1>5 DEF Typed
  <2> QED BY <1>1, <1>3, <2>1 DEF BeginTask, Typed
<1>7. /\ pending'[h] = 0 /\ \A g \in Handles : g # h => pending'[g] = pending[g]
      /\ running'[r] = h /\ \A s \in Runners : s # r => running'[s] = running[s]
  BY <1>1, <1>3, <1>5 DEF Typed
<1>8. Allocated(h) /\ h \in data /\ h \notin Spent /\ ~Busy(h)
  BY <1>1, <1>3, <1>5 DEF Lifetimes, Signalled
<1>9. ASSUME NEW g \in Handles PROVE Signalled(g)'
  <2>1. CASE g = h
    BY <1>2, <1>3, <1>4, <1>7, <1>8, <2>1 DEF Signalled
  <2>2. CASE g # h
    BY <1>1, <1>2, <1>4, <1>7, <2>2 DEF Lifetimes, Signalled
  <2> QED BY <2>1, <2>2
<1>10. ASSUME NEW s \in Runners, running[s] # NoHandle PROVE running[s] \in Handles /\ running[s] # h
  BY <1>1, <1>5, <1>10 DEF Typed, Lifetimes, Called
<1>11. ASSUME NEW s \in Runners PROVE Called(s)'
  <2>1. CASE s = r
    <3>1. \A u \in Runners : u # r => running'[u] # h
      BY <1>3, <1>7, <1>10, NoHandleAssumption
    <3> QED BY <1>2, <1>3, <1>4, <1>7, <1>8, <2>1, <3>1 DEF Called
  <2>2. CASE s # r
    <3>1. CASE running[s] = NoHandle
      BY <1>7, <2>2, <3>1 DEF Called
    <3>2. CASE running[s] # NoHandle
      <4>1. Called(s)
        BY <1>1 DEF Lifetimes
      <4>2. running'[s] = running[s] /\ running[s] \in Handles /\ running[s] # h
        BY <1>7, <1>10, <2>2, <3>2
      <4>3. \A u \in Runners : s # u => running'[u] # running[s]
        BY <1>7, <3>2, <4>1, <4>2 DEF Called
      <4>4. pending'[running[s]] = 0 /\ Allocated(running[s]) /\ ~Busy(running[s])
            /\ running[s] \in data /\ running[s] \notin Spent
        BY <1>7, <3>2, <4>1, <4>2 DEF Called
      <4>5. \A g \in Handles : g = running[s] => (Allocated(g)' /\ ~Busy(g)')
        BY <1>2, <4>4
      <4> QED BY <1>4, <4>2, <4>3, <4>4, <4>5 DEF Called
    <3> QED BY <3>1, <3>2
  <2> QED BY <2>1, <2>2
<1> QED BY <1>3, <1>6, <1>9, <1>11 DEF HandleInv, Lifetimes

LEMMA EndTaskHandleInv ==
  ASSUME HandleInv, NEW r \in Runners, EndTask(r)
  PROVE  HandleInv'
<1> DEFINE g == running[r]
<1>1. Typed /\ Lists /\ Lifetimes /\ g # NoHandle
  BY DEF HandleInv, EndTask
<1>2. \A h \in Handles : Allocated(h)' = Allocated(h) /\ Busy(h)' = Busy(h)
  BY LoopKeeps DEF EndTask
<1>3. /\ queue' = Unlink(queue, g) /\ scan' = [s \in Runners |-> Unlink(scan[s], g)]
      /\ closing' = closing \cup {g} /\ data' = data \ {g}
      /\ running' = [running EXCEPT ![r] = NoHandle]
      /\ pending' = pending /\ at' = at
  BY DEF EndTask
<1>4. g \in Handles /\ Allocated(g) /\ g \notin Spent /\ pending[g] = 0 /\ ~Busy(g)
  BY <1>1 DEF Typed, Lifetimes, Called
<1>5. Spent' = Spent \cup {g}
  BY DEF EndTask, Spent
<1> HIDE DEF g
<1>6. queue' \in Seq(Handles) /\ IsInjective(queue') /\ Range(queue') = Range(queue) \ {g}
  <2>1. queue \in Seq(Handles) /\ IsInjective(queue)
    BY <1>1 DEF Typed, Lists
  <2> QED BY <1>3, <2>1, Unlinked
<1>7. ASSUME NEW s \in Runners
      PROVE  /\ scan'[s] \in Seq(Handles) /\ IsInjective(scan'[s])
             /\ Range(scan'[s]) = Range(scan[s]) \ {g}
  <2>1. scan[s] \in Seq(Handles) /\ IsInjective(scan[s]) /\ scan'[s] = Unlink(scan[s], g)
    BY <1>1, <1>3 DEF Typed, Lists
  <2> QED BY <2>1, Unlinked
<1>8. Typed'
  <2>1. scan' \in [Runners -> Seq(Handles)]
    BY <1>3, <1>7
  <2>2. running' \in [Runners -> Handles \cup {NoHandle}] /\ closing' \subseteq Handles
        /\ data' \subseteq Handles
    BY <1>1, <1>3, <1>4 DEF Typed
  <2> QED BY <1>1, <1>6, <2>1, <2>2 DEF EndTask, Typed
<1>9. Lists'
  <2>1. \A h \in Range(queue') : Allocated(h)' /\ h \notin Spent'
    BY <1>1, <1>2, <1>5, <1>6, ListedAreHandles DEF Lists
  <2>2. ASSUME NEW s \in Runners
        PROVE  /\ Range(scan'[s]) \cap Range(queue') = {}
               /\ \A h \in Range(scan'[s]) : Allocated(h)' /\ h \notin Spent'
               /\ \A u \in Runners : s # u => Range(scan'[s]) \cap Range(scan'[u]) = {}
    BY <1>1, <1>2, <1>5, <1>6, <1>7, ListedAreHandles DEF Lists
  <2> QED BY <1>6, <1>7, <2>1, <2>2 DEF Lists
<1>10. ASSUME NEW h \in Handles PROVE Signalled(h)'
  <2>1. CASE h = g
    BY <1>2, <1>3, <1>4, <1>5, <2>1 DEF Signalled
  <2>2. CASE h # g
    BY <1>1, <1>2, <1>3, <1>5, <2>2 DEF Lifetimes, Signalled
  <2> QED BY <2>1, <2>2
<1>11. ASSUME NEW s \in Runners PROVE Called(s)'
  <2>1. CASE s = r
    BY <1>1, <1>3, <2>1 DEF Called, Typed
  <2>2. CASE s # r /\ running[s] = NoHandle
    BY <1>1, <1>3, <2>2 DEF Called, Typed
  <2>3. CASE s # r /\ running[s] # NoHandle
    <3>1. Called(s) /\ running[s] \in Handles /\ running'[s] = running[s]
      BY <1>1, <1>3, <2>3 DEF Lifetimes, Typed
    <3>2. running[s] # g
      BY <2>3, <3>1 DEF Called, g
    <3>3. \A u \in Runners : s # u => running'[u] # running[s]
      BY <1>1, <1>3, <2>3, <3>1 DEF Called, Typed
    <3>4. pending[running[s]] = 0 /\ Allocated(running[s]) /\ ~Busy(running[s])
          /\ running[s] \in data /\ running[s] \notin Spent
      BY <2>3, <3>1 DEF Called
    <3>5. \A h \in Handles : h = running[s] => (Allocated(h)' /\ ~Busy(h)')
      BY <1>2, <3>4
    <3> QED BY <1>3, <1>5, <3>1, <3>2, <3>3, <3>4, <3>5 DEF Called
  <2> QED BY <2>1, <2>2, <2>3
<1> QED BY <1>8, <1>9, <1>10, <1>11 DEF HandleInv, Lifetimes

LEMMA CloseHandlesHandleInv ==
  ASSUME HandleInv, NEW r \in Runners, CloseHandles(r)
  PROVE  HandleInv'
<1>1. Typed /\ Lists /\ Lifetimes
  BY DEF HandleInv
<1>2. \A h \in Handles : Allocated(h)' = Allocated(h) /\ Busy(h)' = Busy(h)
  BY LoopKeeps DEF CloseHandles
<1>3. Spent' = Spent
  BY DEF CloseHandles, Spent, Delete
<1>4. Typed'
  BY <1>1 DEF CloseHandles, Typed, Delete
<1>5. Lists'
  BY <1>1, <1>2, <1>3, ListedAreHandles DEF CloseHandles, Lists
<1>6. Lifetimes'
  <2>1. ASSUME NEW h \in Handles PROVE Signalled(h)'
    BY <1>1, <1>2, <1>3 DEF CloseHandles, Lifetimes, Signalled
  <2>2. ASSUME NEW s \in Runners, running[s] # NoHandle PROVE running[s] \in Handles
    BY <1>1, <2>2 DEF Typed
  <2> QED BY <1>1, <1>2, <1>3, <2>1, <2>2 DEF CloseHandles, Lifetimes, Called
<1> QED BY <1>4, <1>5, <1>6 DEF HandleInv

LEMMA NextHandleInv == HandleInv /\ [Next]_vars => HandleInv'
<1> SUFFICES ASSUME HandleInv, [Next]_vars PROVE HandleInv'
  OBVIOUS
<1>1. CASE UNCHANGED vars
  BY <1>1 DEF vars, HandleInv, Typed, Lists, Lifetimes, Signalled, Called, Allocated, Busy, Spent
<1>2. ASSUME NEW t \in Threads, Async(t) PROVE HandleInv'
  BY <1>2, AsyncInitHandleInv, AsyncSetDataHandleInv, SendMarkHandleInv, SendWakeHandleInv,
     SendDoneHandleInv DEF Async
<1>3. ASSUME NEW r \in Runners, LoopStep(r) PROVE HandleInv'
  BY <1>3, BeginPassHandleInv, SkipHandleHandleInv, BeginTaskHandleInv, EndTaskHandleInv,
     CloseHandlesHandleInv DEF LoopStep
<1> QED BY <1>1, <1>2, <1>3 DEF Next

LEMMA HandleInvariant == Init /\ [][Next]_vars => []HandleInv
  BY InitHandleInv, NextHandleInv, PTL

(* However many threads post to a loop and however many run it, no one touches
   the uv_async_t of a task after the callback has closed it, neither its sender
   nor a runner, and async_cb never finds its closure gone. *)
THEOREM HandleAlwaysAlive == Spec => []HandleLifetime
<1>1. HandleInv => HandleLifetime
  <2> SUFFICES ASSUME HandleInv PROVE HandleLifetime
    OBVIOUS
  <2>1. Typed /\ Lists /\ Lifetimes
    BY DEF HandleInv
  <2>2. ASSUME NEW t \in Threads, at[t] # "idle" PROVE Current(t) \notin Spent
    BY <2>1, <2>2, CurrentHandle DEF Lifetimes, Signalled
  <2>3. \A h \in Spent : h \notin Range(queue) /\ \A r \in Runners : running[r] # h /\ h \notin Range(scan[r])
    BY <2>1, NoHandleAssumption DEF Lists, Lifetimes, Called, Typed, Spent
  <2>4. \A h : Contains(queue, h) => h \in Range(queue)
    BY <2>1 DEF Typed, Contains, Range
  <2>5. \A r \in Runners : \A h : Contains(scan[r], h) => h \in Range(scan[r])
    BY <2>1 DEF Typed, Contains, Range
  <2>6. \A r \in Runners : running[r] # NoHandle => running[r] \in data
    BY <2>1 DEF Lifetimes, Called
  <2> QED BY <2>2, <2>3, <2>4, <2>5, <2>6 DEF HandleLifetime, Spent
<1> QED BY <1>1, HandleInvariant, PTL DEF Spec

-----------------------------------------------------------------------------
(* The order of the tasks, on a loop that one thread runs.                 *)

(* Of the handles of one thread that have not run, the earlier is the first in
   the list. *)
InTurn(list, done) ==
  \A i, j \in 1..Len(list) :
    i < j /\ list[i][1] = list[j][1] /\ list[i] \notin done /\ list[j] \notin done
      => list[i][2] < list[j][2]

(* The head of a list goes first. *)
LEMMA InTurnTail ==
  ASSUME NEW S, NEW s \in Seq(S), NEW done, s # <<>>, InTurn(s, done)
  PROVE  /\ InTurn(Tail(s), done)
         /\ \A g \in Range(Tail(s)) :
              g[1] = Head(s)[1] /\ g \notin done /\ Head(s) \notin done => Head(s)[2] < g[2]
<1> DEFINE n == Len(s)
           u == Tail(s)
<1>1. /\ n \in Nat \ {0} /\ Head(s) = s[1] /\ Len(u) = n - 1 /\ DOMAIN u = 1..(n - 1)
      /\ \A i \in 1..(n - 1) : u[i] = s[i + 1]
  OBVIOUS
<1>2. \A i, j \in 1..n :
        i < j /\ s[i][1] = s[j][1] /\ s[i] \notin done /\ s[j] \notin done => s[i][2] < s[j][2]
  BY DEF InTurn
<1> HIDE DEF n, u
<1>3. InTurn(u, done)
  <2> SUFFICES ASSUME NEW i \in 1..(n - 1), NEW j \in 1..(n - 1), i < j, u[i][1] = u[j][1],
                      u[i] \notin done, u[j] \notin done
               PROVE  u[i][2] < u[j][2]
    BY <1>1 DEF InTurn
  <2>1. i + 1 \in 1..n /\ j + 1 \in 1..n /\ i + 1 < j + 1 /\ u[i] = s[i + 1] /\ u[j] = s[j + 1]
    BY <1>1
  <2> QED BY <1>2, <2>1
<1>4. ASSUME NEW g \in Range(u), g[1] = s[1][1], g \notin done, s[1] \notin done
      PROVE  s[1][2] < g[2]
  <2>1. PICK i \in 1..(n - 1) : u[i] = g
    BY <1>1 DEF Range
  <2>2. 1 \in 1..n /\ i + 1 \in 1..n /\ 1 < i + 1 /\ s[i + 1] = g
    BY <1>1, <2>1
  <2> QED BY <1>2, <1>4, <2>2
<1> QED BY <1>1, <1>3, <1>4 DEF u

(* A handle that comes after those of its thread, or that has run, may be
   linked in at the end. *)
LEMMA InTurnAppend ==
  ASSUME NEW S, NEW s \in Seq(S), NEW e \in S, NEW done, InTurn(s, done),
         \A g \in Range(s) : g[1] = e[1] /\ g \notin done /\ e \notin done => g[2] < e[2]
  PROVE  InTurn(Append(s, e), done)
<1> DEFINE n == Len(s)
           u == Append(s, e)
<1>1. /\ n \in Nat /\ Len(u) = n + 1 /\ DOMAIN s = 1..n /\ u[n + 1] = e
      /\ \A i \in 1..n : u[i] = s[i] /\ u[i] \in Range(s)
  BY DEF Range
<1>2. \A i, j \in 1..n :
        i < j /\ s[i][1] = s[j][1] /\ s[i] \notin done /\ s[j] \notin done => s[i][2] < s[j][2]
  BY DEF InTurn
<1> HIDE DEF n, u
<1>3. ASSUME NEW i \in 1..(n + 1), NEW j \in 1..(n + 1), i < j, u[i][1] = u[j][1],
             u[i] \notin done, u[j] \notin done
      PROVE  u[i][2] < u[j][2]
  <2>1. i \in 1..n
    BY <1>1, <1>3
  <2>2. CASE j = n + 1
    BY <1>1, <1>3, <2>1, <2>2
  <2>3. CASE j # n + 1
    <3>1. j \in 1..n
      BY <1>1, <2>3
    <3> QED BY <1>1, <1>2, <1>3, <2>1, <3>1
  <2> QED BY <2>2, <2>3
<1> QED BY <1>1, <1>3 DEF InTurn, u

(* Taking a handle out keeps the others in turn. *)
LEMMA InTurnUnlink ==
  ASSUME NEW S, NEW s \in Seq(S), IsInjective(s), NEW done, InTurn(s, done), NEW h
  PROVE  InTurn(Unlink(s, h), done)
<1> DEFINE n == Len(s)
           u == Unlink(s, h)
<1>1. n \in Nat /\ DOMAIN s = 1..n
  OBVIOUS
<1>2. CASE h \notin Range(s)
  <2>1. u = s
    BY <1>2 DEF Unlink, RemoveFirst, Range
  <2> QED BY <2>1
<1>3. CASE h \in Range(s)
  <2>1. PICK k \in 1..n : s[k] = h
    BY <1>1, <1>3 DEF Range
  <2>2. /\ u \in Seq(S) /\ Len(u) = n - 1
        /\ \A i \in 1..(n - 1) : u[i] = IF i < k THEN s[i] ELSE s[i + 1]
    BY <2>1, UnlinkedAt
  <2>3. \A i, j \in 1..n :
          i < j /\ s[i][1] = s[j][1] /\ s[i] \notin done /\ s[j] \notin done => s[i][2] < s[j][2]
    BY DEF InTurn
  <2> HIDE DEF n, u
  <2>4. ASSUME NEW i \in 1..(n - 1), NEW j \in 1..(n - 1), i < j
        PROVE  \E a, b \in 1..n : a < b /\ u[i] = s[a] /\ u[j] = s[b]
    <3> DEFINE a == IF i < k THEN i ELSE i + 1
               b == IF j < k THEN j ELSE j + 1
    <3>1. a \in 1..n /\ b \in 1..n /\ a < b /\ u[i] = s[a] /\ u[j] = s[b]
      BY <1>1, <2>2, <2>4
    <3> QED BY <3>1
  <2>5. ASSUME NEW i \in 1..(n - 1), NEW j \in 1..(n - 1), i < j, u[i][1] = u[j][1],
               u[i] \notin done, u[j] \notin done
        PROVE  u[i][2] < u[j][2]
    <3>1. PICK a \in 1..n, b \in 1..n : a < b /\ u[i] = s[a] /\ u[j] = s[b]
      BY <2>4, <2>5
    <3> QED BY <2>3, <2>5, <3>1
  <2> QED BY <2>2, <2>5 DEF InTurn, u
<1> QED BY <1>2, <1>3

(* TaskQueue counts as this module does. *)
LEMMA SameCardinality == \A S : Tasks!Cardinality(S) = Cardinality(S)
  BY DEF Tasks!Cardinality, Cardinality

(* How many of a thread's tasks have run. *)
LEMMA DoneFacts ==
  ASSUME ran \in Seq(Handles), NEW t \in Threads
  PROVE  Tasks!Done(t) \in Nat /\ IsFiniteSet({i \in 1..Len(ran) : ran[i][1] = t})
<1> DEFINE P == {i \in 1..Len(ran) : ran[i][1] = t}
           n == Len(ran)
<1>1. 1 \in Int /\ n \in Int
  OBVIOUS
<1>2. IsFiniteSet(1..n)
  BY <1>1, FS_Interval
<1>3. P \subseteq 1..n
  OBVIOUS
<1> HIDE DEF P, n
<1>4. IsFiniteSet(P)
  BY <1>2, <1>3, FS_Subset
<1>5. Cardinality(P) \in Nat
  BY <1>4, FS_CardinalityType
<1> QED BY <1>4, <1>5, SameCardinality DEF P, n, Tasks!Done

LEMMA DoneAppend ==
  ASSUME ran \in Seq(Handles), NEW h \in Handles, ran' = Append(ran, h), NEW t \in Threads
  PROVE  Tasks!Done(t)' = IF h[1] = t THEN Tasks!Done(t) + 1 ELSE Tasks!Done(t)
<1> DEFINE n == Len(ran)
           P == {i \in 1..Len(ran) : ran[i][1] = t}
           Q == {i \in 1..Len(ran') : ran'[i][1] = t}
<1>1. /\ n \in Nat /\ Len(ran') = n + 1 /\ ran'[n + 1] = h
      /\ \A i \in 1..n : ran'[i] = ran[i]
  OBVIOUS
<1>2. n + 1 \notin P /\ Q = IF h[1] = t THEN P \cup {n + 1} ELSE P
  <2>1. \A i : i \in 1..(n + 1) <=> i \in 1..n \/ i = n + 1
    BY <1>1
  <2>2. n + 1 \notin 1..n
    BY <1>1
  <2> QED BY <1>1, <2>1, <2>2
<1>3. IsFiniteSet(P)
  BY DoneFacts
<1>4. Tasks!Done(t) = Cardinality(P) /\ Tasks!Done(t)' = Cardinality(Q)
  BY SameCardinality DEF Tasks!Done
<1> HIDE DEF n, P, Q
<1>5. Cardinality(P \cup {n + 1}) = Cardinality(P) + 1
  BY <1>2, <1>3, FS_AddElement
<1> QED BY <1>2, <1>4, <1>5

(* The handles whose closures have run. *)
Finished == Range(ran)

Past == \A h \in Finished : h \in Handles /\ Allocated(h) /\ pending[h] = 0 /\ ~Busy(h)

(* The others are in a list, and signalled unless the sender has not come that
   far. *)
Waits(h) ==
  Allocated(h) /\ h \notin Finished =>
    /\ pending[h] = 0 => Busy(h) /\ at[h[1]] \in {"inited", "armed"}
    /\ h \in Range(queue) \/ \E r \in Runners : h \in Range(scan[r])

(* Those of one thread are in turn in both lists, and in the runner's before
   the loop's. *)
Ordered ==
  /\ InTurn(queue, Finished)
  /\ \A r \in Runners :
       /\ InTurn(scan[r], Finished)
       /\ running[r] # NoHandle => running[r] \in Finished
       /\ \A h \in Range(scan[r]), g \in Range(queue) :
            h[1] = g[1] /\ h \notin Finished /\ g \notin Finished => h[2] < g[2]

(* Those that have run are a thread's first ones. *)
Counted ==
  \A t \in Threads :
    /\ Tasks!Done(t) \in Nat
    /\ \A h \in Handles : h[1] = t => (h \in Finished <=> h[2] <= Tasks!Done(t))

Fifo == Past /\ (\A h \in Handles : Waits(h)) /\ Ordered /\ Counted

LEMMA InitFifo == Init => Fifo
<1> SUFFICES ASSUME Init PROVE Fifo
  OBVIOUS
<1>1. /\ ran = <<>> /\ queue = <<>> /\ \A r \in Runners : scan[r] = <<>> /\ running[r] = NoHandle
  BY DEF Init
<1>2. Finished = {}
  BY <1>1, EmptyHolds DEF Finished
<1>3. \A h \in Handles : ~Allocated(h)
  BY HandleFacts DEF Init, Allocated
<1>4. InTurn(<<>>, {}) /\ Range(<<>>) = {}
  BY EmptyHolds DEF InTurn
<1>5. \A t \in Threads : Tasks!Done(t) = 0
  <2> SUFFICES ASSUME NEW t \in Threads PROVE Tasks!Done(t) = 0
    OBVIOUS
  <2>1. {i \in 1..Len(ran) : ran[i][1] = t} = {}
    BY <1>1
  <2>2. Tasks!Done(t) = Cardinality({})
    BY <2>1, SameCardinality DEF Tasks!Done
  <2>3. Cardinality({}) = 0
    BY FS_EmptySet, Zenon
  <2> QED BY <2>2, <2>3
<1>6. Counted
  BY <1>2, <1>5, HandleFacts DEF Counted
<1> QED BY <1>1, <1>2, <1>3, <1>4, <1>6 DEF Fifo, Past, Waits, Ordered

(* Steps that run no task and move no handle. *)
LEMMA QuietFifo ==
  ASSUME Fifo, ran' = ran, queue' = queue, scan' = scan, running' = running
  PROVE  Finished' = Finished /\ Ordered' /\ Counted'
<1>1. Finished' = Finished
  BY DEF Finished
<1>2. \A t \in Threads : Tasks!Done(t)' = Tasks!Done(t)
  BY DEF Tasks!Done
<1> QED BY <1>1, <1>2 DEF Fifo, Ordered, Counted

LEMMA AsyncInitFifo ==
  ASSUME HandleInv, Fifo, NEW t \in Threads, AsyncInit(t)
  PROVE  Fifo'
<1> DEFINE g == <<t, count[t] + 1>>
<1>1. /\ at[t] = "idle" /\ count[t] \in Nat /\ count[t] + 1 <= MaxTasks
      /\ at \in [Threads -> Places] /\ count \in [Threads -> Nat] /\ queue \in Seq(Handles)
  BY RunnersAssumption DEF HandleInv, Typed, AsyncInit
<1>2. g \in Handles /\ g[1] = t /\ g[2] = count[t] + 1
  BY <1>1, HandleFacts
<1>3. /\ queue' = Append(queue, g) /\ at' = [at EXCEPT ![t] = "inited"]
      /\ count' = [count EXCEPT ![t] = count[t] + 1]
      /\ pending' = pending /\ ran' = ran /\ scan' = scan /\ running' = running
  BY DEF AsyncInit, Link
<1> HIDE DEF g
<1>4. ~Allocated(g) /\ \A h \in Handles : Allocated(h) /\ h[1] = t => h[2] < g[2]
  BY <1>1, <1>2, HandleFacts DEF Allocated
<1>5. /\ \A h \in Handles : Allocated(h)' <=> Allocated(h) \/ h = g
      /\ \A h \in Handles : Busy(h)' <=> Busy(h) \/ h = g
      /\ \A h \in Handles : Busy(h) => at'[h[1]] = at[h[1]]
      /\ at'[g[1]] = "inited"
  BY <1>1, <1>2, <1>3, HandleFacts DEF Allocated, Busy
<1>6. Finished' = Finished /\ g \notin Finished
  BY <1>3, <1>4 DEF Finished, Fifo, Past
<1>7. Range(queue') = Range(queue) \cup {g}
  BY ONLY <1>1, <1>2, <1>3, AppendHolds
<1>8. /\ \A h \in Range(queue) : h \in Handles /\ Allocated(h)
      /\ \A r \in Runners : \A h \in Range(scan[r]) : h \in Handles /\ Allocated(h)
  BY ListedAreHandles DEF HandleInv, Lists
<1>9. Past'
  BY <1>3, <1>4, <1>5, <1>6 DEF Fifo, Past
<1>10. ASSUME NEW h \in Handles PROVE Waits(h)'
  <2>1. Waits(h)
    BY DEF Fifo
  <2> QED BY <1>3, <1>5, <1>6, <1>7, <2>1 DEF Waits
<1>11. Ordered'
  <2>1. InTurn(queue, Finished)
    BY DEF Fifo, Ordered
  <2>2. \A h \in Range(queue) : h[1] = g[1] => h[2] < g[2]
    BY <1>2, <1>4, <1>8
  <2>3. InTurn(queue', Finished)
    BY <1>1, <1>2, <1>3, <2>1, <2>2, InTurnAppend
  <2>4. ASSUME NEW r \in Runners, NEW h \in Range(scan[r]), h[1] = g[1] PROVE h[2] < g[2]
    BY <1>2, <1>4, <1>8, <2>4
  <2> QED BY <1>3, <1>6, <1>7, <2>3, <2>4 DEF Fifo, Ordered
<1>12. Counted'
  <2>1. \A u \in Threads : Tasks!Done(u)' = Tasks!Done(u)
    BY <1>3 DEF Tasks!Done
  <2> QED BY <1>6, <2>1 DEF Fifo, Counted
<1> QED BY <1>9, <1>10, <1>11, <1>12 DEF Fifo

LEMMA AsyncRestFifo ==
  ASSUME HandleInv, Fifo, NEW t \in Threads,
         AsyncSetData(t) \/ SendMark(t) \/ SendWake(t) \/ SendDone(t)
  PROVE  Fifo'
<1>1. /\ ran' = ran /\ queue' = queue /\ scan' = scan /\ running' = running /\ count' = count
      /\ at[t] # "idle"
  BY DEF AsyncSetData, SendMark, SendWake, SendDone
<1>2. Finished' = Finished /\ Ordered' /\ Counted'
  BY <1>1, QuietFifo
<1>3. /\ Current(t) \in Handles /\ Current(t)[1] = t /\ Busy(Current(t))
      /\ \A h \in Handles : h = Current(t) <=> h[1] = t /\ h[2] = count[t]
  BY <1>1, CurrentHandle DEF HandleInv
<1>4. Typed
  BY DEF HandleInv
<1>5. Current(t) \notin Finished
  BY <1>3 DEF Fifo, Past
<1>6. ASSUME NEW h \in Handles, h # Current(t)
      PROVE  /\ Allocated(h)' = Allocated(h) /\ Busy(h)' = Busy(h) /\ pending'[h] = pending[h]
             /\ Busy(h) => at'[h[1]] = at[h[1]]
  BY <1>1, <1>3, <1>4, <1>6, HandleFacts DEF AsyncSetData, SendMark, SendWake, SendDone, Typed, Allocated, Busy
<1>7. Past'
  BY <1>2, <1>5, <1>6 DEF Fifo, Past
<1>8. ASSUME NEW h \in Handles PROVE Waits(h)'
  <2>1. Waits(h)
    BY DEF Fifo
  <2>2. CASE h # Current(t)
    BY <1>1, <1>2, <1>6, <2>1, <2>2 DEF Waits
  <2>3. CASE h = Current(t)
    <3>1. Allocated(h)
      BY <1>1, <1>4, <2>3, CurrentHandle
    <3>2. h \in Range(queue') \/ \E r \in Runners : h \in Range(scan'[r])
      BY <1>1, <1>5, <2>1, <2>3, <3>1 DEF Waits
    <3>3. pending'[h] = 0 => Busy(h)' /\ at'[h[1]] \in {"inited", "armed"}
      <4>1. CASE AsyncSetData(t)
        BY <1>3, <1>4, <2>3, <4>1 DEF AsyncSetData, Typed, Busy
      <4>2. CASE SendMark(t) \/ SendDone(t)
        BY <1>3, <1>4, <2>3, <4>2 DEF SendMark, SendDone, Typed
      <4>3. CASE SendWake(t)
        BY <1>3, <1>5, <2>1, <2>3, <3>1, <4>3 DEF SendWake, Waits
      <4> QED BY <4>1, <4>2, <4>3
    <3> QED BY <3>2, <3>3 DEF Waits
  <2> QED BY <2>2, <2>3
<1> QED BY <1>2, <1>7, <1>8 DEF Fifo

LEMMA BeginPassFifo ==
  ASSUME HandleInv, Fifo, \A r, s \in Runners : r = s, NEW r \in Runners, BeginPass(r)
  PROVE  Fifo'
<1>1. /\ scan[r] = <<>> /\ scan' = [scan EXCEPT ![r] = queue] /\ queue' = <<>>
      /\ at' = at /\ count' = count /\ pending' = pending /\ running' = running /\ ran' = ran
  BY DEF BeginPass
<1>2. scan \in [Runners -> Seq(Handles)]
  BY DEF HandleInv, Typed
<1>3. scan'[r] = queue /\ \A s \in Runners : s = r
  BY <1>1, <1>2
<1>4. Range(scan[r]) = {} /\ Range(queue') = {} /\ InTurn(queue', Finished)
  BY <1>1, EmptyHolds DEF InTurn
<1>5. Finished' = Finished /\ (\A t \in Threads : Tasks!Done(t)' = Tasks!Done(t))
  BY <1>1 DEF Finished, Tasks!Done
<1>6. \A h \in Handles : Allocated(h)' = Allocated(h) /\ Busy(h)' = Busy(h)
  BY <1>1, LoopKeeps
<1>7. Past'
  BY <1>1, <1>5, <1>6 DEF Fifo, Past
<1>8. ASSUME NEW h \in Handles PROVE Waits(h)'
  <2>1. Waits(h)
    BY DEF Fifo
  <2>2. (\E s \in Runners : h \in Range(scan[s])) => h \in Range(scan[r])
    BY <1>3
  <2> QED BY <1>1, <1>3, <1>4, <1>5, <1>6, <2>1, <2>2 DEF Waits
<1>9. Ordered'
  BY <1>1, <1>3, <1>4, <1>5 DEF Fifo, Ordered
<1>10. Counted'
  BY <1>5 DEF Fifo, Counted
<1> QED BY <1>7, <1>8, <1>9, <1>10 DEF Fifo

LEMMA SkipHandleFifo ==
  ASSUME HandleInv, Fifo, \A r, s \in Runners : r = s, NEW r \in Runners, SkipHandle(r)
  PROVE  Fifo'
<1> DEFINE h == Head(scan[r])
           rest == Tail(scan[r])
<1>1. /\ scan[r] # <<>> /\ scan' = [scan EXCEPT ![r] = rest] /\ queue' = Append(queue, h)
      /\ pending[h] = 0
      /\ at' = at /\ count' = count /\ pending' = pending /\ running' = running /\ ran' = ran
  BY DEF SkipHandle
<1>2. scan \in [Runners -> Seq(Handles)] /\ scan[r] \in Seq(Handles) /\ queue \in Seq(Handles)
  BY DEF HandleInv, Typed
<1>3. h \in Handles /\ Range(scan[r]) = Range(rest) \cup {h} /\ h \notin Range(rest)
  <2>1. IsInjective(scan[r])
    BY DEF HandleInv, Lists
  <2> QED BY <1>1, <1>2, <2>1, TailHolds
<1>4. InTurn(rest, Finished)
  <2>1. InTurn(scan[r], Finished)
    BY DEF Fifo, Ordered
  <2> QED BY <1>1, <1>2, <2>1, InTurnTail
<1> HIDE DEF h, rest
<1>5. scan'[r] = rest /\ \A s \in Runners : s = r
  BY <1>1, <1>2
<1>6. Range(queue') = Range(queue) \cup {h}
  BY ONLY <1>1, <1>2, <1>3, AppendHolds
<1>7. Finished' = Finished /\ (\A t \in Threads : Tasks!Done(t)' = Tasks!Done(t))
  BY <1>1 DEF Finished, Tasks!Done
<1>8. \A g \in Handles : Allocated(g)' = Allocated(g) /\ Busy(g)' = Busy(g)
  BY <1>1, LoopKeeps
<1>9. /\ Allocated(h)
      /\ \A g \in Range(queue) : g \in Handles /\ Allocated(g) /\ g # h
      /\ \A g \in Range(rest) : g \in Handles /\ Allocated(g) /\ g # h
  BY <1>3, ListedAreHandles DEF HandleInv, Lists
<1>10. ASSUME NEW g \in Handles, Allocated(g), g # h, g[1] = h[1], h \notin Finished
       PROVE  g[2] < h[2]
  <2>1. Busy(h)
    BY <1>1, <1>3, <1>9, <1>10 DEF Fifo, Waits
  <2>2. count[h[1]] \in Nat
    BY <1>3, HandleFacts DEF HandleInv, Typed
  <2> QED BY <1>3, <1>10, <2>1, <2>2, HandleFacts DEF Busy, Allocated
<1>11. Past'
  BY <1>1, <1>7, <1>8 DEF Fifo, Past
<1>12. ASSUME NEW g \in Handles PROVE Waits(g)'
  <2>1. Waits(g)
    BY DEF Fifo
  <2>2. (\E s \in Runners : g \in Range(scan[s])) => g \in Range(rest) \/ g = h
    BY <1>3, <1>5
  <2> QED BY <1>1, <1>5, <1>6, <1>7, <1>8, <2>1, <2>2 DEF Waits
<1>13. Ordered'
  <2>1. InTurn(queue, Finished)
    BY DEF Fifo, Ordered
  <2>2. InTurn(queue', Finished)
    BY <1>1, <1>2, <1>3, <1>9, <1>10, <2>1, InTurnAppend
  <2>3. \A g \in Range(rest), f \in Range(queue') :
          g[1] = f[1] /\ g \notin Finished /\ f \notin Finished => g[2] < f[2]
    BY <1>3, <1>6, <1>9, <1>10 DEF Fifo, Ordered
  <2>4. running'[r] # NoHandle => running'[r] \in Finished
    BY <1>1 DEF Fifo, Ordered
  <2> QED BY <1>4, <1>5, <1>7, <2>2, <2>3, <2>4 DEF Ordered
<1>14. Counted'
  BY <1>7 DEF Fifo, Counted
<1> QED BY <1>11, <1>12, <1>13, <1>14 DEF Fifo

(* The task a runner begins is the first of its thread that has not run. *)
LEMMA TaskInTurn ==
  ASSUME HandleInv, Fifo, \A r, s \in Runners : r = s, NEW r \in Runners, BeginTask(r)
  PROVE  LET h == Head(scan[r])
         IN  h \in Handles /\ h \notin Finished /\ h[2] = Tasks!Done(h[1]) + 1
<1> DEFINE h == Head(scan[r])
           rest == Tail(scan[r])
           t == h[1]
           d == Tasks!Done(h[1])
<1>1. scan[r] # <<>> /\ pending[h] = 2 /\ scan[r] \in Seq(Handles)
  BY DEF BeginTask, HandleInv, Typed
<1>2. h \in Handles /\ Range(scan[r]) = Range(rest) \cup {h}
  BY <1>1, TailHolds
<1>3. \A g \in Range(rest) :
        g[1] = h[1] /\ g \notin Finished /\ h \notin Finished => h[2] < g[2]
  <2>1. InTurn(scan[r], Finished)
    BY DEF Fifo, Ordered
  <2> QED BY <1>1, <2>1, InTurnTail
<1> HIDE DEF h, rest
<1>4. h \notin Finished /\ Allocated(h)
  BY <1>1, <1>2 DEF HandleInv, Lifetimes, Signalled, Fifo, Past
<1>5. t \in Threads /\ d \in Nat /\ h[2] \in Nat /\ h[2] <= MaxTasks /\ h[2] > d
  BY <1>2, <1>4, HandleFacts DEF Fifo, Counted
<1>6. ASSUME h[2] # d + 1 PROVE FALSE
  <2> DEFINE g == <<t, d + 1>>
  <2>1. g \in Handles /\ g[1] = t /\ g[2] = d + 1 /\ g[2] < h[2]
    BY <1>5, <1>6, HandleFacts, RunnersAssumption
  <2> HIDE DEF g
  <2>2. g \notin Finished
    BY <1>5, <2>1 DEF Fifo, Counted
  <2>3. Allocated(g)
    <3>1. count[t] \in Nat
      BY <1>5 DEF HandleInv, Typed
    <3> QED BY <1>4, <1>5, <2>1, <3>1 DEF Allocated
  <2>4. g \in Range(queue) \/ g \in Range(rest)
    <3>1. g \in Range(queue) \/ \E s \in Runners : g \in Range(scan[s])
      BY <2>1, <2>2, <2>3 DEF Fifo, Waits
    <3>2. g # h
      BY <1>5, <2>1
    <3> QED BY <1>2, <3>1, <3>2
  <2>5. CASE g \in Range(queue)
    <3>1. h[2] < g[2]
      BY <1>2, <1>4, <2>1, <2>2, <2>5 DEF Fifo, Ordered
    <3> QED BY <1>5, <2>1, <3>1
  <2>6. CASE g \in Range(rest)
    <3>1. h[2] < g[2]
      BY <1>3, <1>4, <2>1, <2>2, <2>6
    <3> QED BY <1>5, <2>1, <3>1
  <2> QED BY <2>4, <2>5, <2>6
<1> QED BY <1>2, <1>4, <1>6 DEF h

LEMMA BeginTaskFifo ==
  ASSUME HandleInv, Fifo, \A r, s \in Runners : r = s, NEW r \in Runners, BeginTask(r)
  PROVE  Fifo'
<1> DEFINE h == Head(scan[r])
           rest == Tail(scan[r])
<1>1. /\ scan[r] # <<>> /\ scan' = [scan EXCEPT ![r] = rest] /\ queue' = Append(queue, h)
      /\ pending[h] = 2 /\ pending' = [pending EXCEPT ![h] = 0]
      /\ running' = [running EXCEPT ![r] = h] /\ ran' = Append(ran, h)
      /\ at' = at /\ count' = count
  BY DEF BeginTask
<1>2. /\ scan \in [Runners -> Seq(Handles)] /\ scan[r] \in Seq(Handles) /\ queue \in Seq(Handles)
      /\ pending \in [Handles -> Nat] /\ ran \in Seq(Handles)
      /\ running \in [Runners -> Handles \cup {NoHandle}]
  BY DEF HandleInv, Typed
<1>3. Range(scan[r]) = Range(rest) \cup {h}
  BY <1>1, <1>2, TailHolds
<1>4. InTurn(rest, Finished)
  <2>1. InTurn(scan[r], Finished)
    BY DEF Fifo, Ordered
  <2> QED BY <1>1, <1>2, <2>1, InTurnTail
<1>5. h \in Handles /\ h \notin Finished /\ h[2] = Tasks!Done(h[1]) + 1
  BY TaskInTurn
<1> HIDE DEF h, rest
<1>6. scan'[r] = rest /\ running'[r] = h /\ \A s \in Runners : s = r
  BY <1>1, <1>2
<1>7. Range(queue') = Range(queue) \cup {h} /\ Finished' = Finished \cup {h}
  <2>1. Range(queue') = Range(queue) \cup {h}
    BY ONLY <1>1, <1>2, <1>5, AppendHolds
  <2>2. Range(ran') = Range(ran) \cup {h}
    BY ONLY <1>1, <1>2, <1>5, AppendHolds
  <2> QED BY <2>1, <2>2 DEF Finished
<1>8. \A g \in Handles : Allocated(g)' = Allocated(g) /\ Busy(g)' = Busy(g)
  BY <1>1, LoopKeeps
<1>9. pending'[h] = 0 /\ \A g \in Handles : g # h => pending'[g] = pending[g]
  BY <1>1, <1>2, <1>5
<1>10. Past'
  <2>1. Allocated(h) /\ ~Busy(h)
    BY <1>1, <1>5 DEF HandleInv, Lifetimes, Signalled
  <2> QED BY <1>5, <1>7, <1>8, <1>9, <2>1 DEF Fifo, Past
<1>11. ASSUME NEW g \in Handles PROVE Waits(g)'
  <2>1. Waits(g)
    BY DEF Fifo
  <2>2. (\E s \in Runners : g \in Range(scan[s])) => g \in Range(rest) \/ g = h
    BY <1>3, <1>6
  <2> QED BY <1>1, <1>6, <1>7, <1>8, <1>9, <2>1, <2>2 DEF Waits
<1>12. Ordered'
  <2> DEFINE done == Finished \cup {h}
  <2>1. InTurn(queue, done) /\ InTurn(rest, done)
    BY <1>4 DEF Fifo, Ordered, InTurn
  <2>2. h \in done /\ done = Finished'
    BY <1>7
  <2> HIDE DEF done
  <2>3. InTurn(queue', done)
    BY <1>1, <1>2, <1>5, <2>1, <2>2, InTurnAppend
  <2>4. \A g \in Range(rest), f \in Range(queue') :
          g[1] = f[1] /\ g \notin done /\ f \notin done => g[2] < f[2]
    BY <1>3, <1>7, <2>2 DEF Fifo, Ordered
  <2> QED BY <1>6, <2>1, <2>2, <2>3, <2>4 DEF Ordered
<1>13. Counted'
  <2> SUFFICES ASSUME NEW t \in Threads
               PROVE  /\ Tasks!Done(t)' \in Nat
                      /\ \A g \in Handles :
                           g[1] = t => (g \in Finished' <=> g[2] <= Tasks!Done(t)')
    BY DEF Counted
  <2>1. Tasks!Done(t)' = IF h[1] = t THEN Tasks!Done(t) + 1 ELSE Tasks!Done(t)
    BY <1>1, <1>2, <1>5, DoneAppend
  <2>2. /\ Tasks!Done(t) \in Nat
        /\ \A g \in Handles : g[1] = t => (g \in Finished <=> g[2] <= Tasks!Done(t))
    BY DEF Fifo, Counted
  <2>3. CASE h[1] = t
    BY <1>5, <1>7, <2>1, <2>2, <2>3, HandleFacts
  <2>4. CASE h[1] # t
    BY <1>7, <2>1, <2>2, <2>4
  <2> QED BY <2>3, <2>4
<1> QED BY <1>10, <1>11, <1>12, <1>13 DEF Fifo

LEMMA EndTaskFifo ==
  ASSUME HandleInv, Fifo, NEW r \in Runners, EndTask(r)
  PROVE  Fifo'
<1> DEFINE g == running[r]
<1>1. /\ g # NoHandle /\ running' = [running EXCEPT ![r] = NoHandle]
      /\ queue' = Unlink(queue, g) /\ scan' = [s \in Runners |-> Unlink(scan[s], g)]
      /\ at' = at /\ count' = count /\ pending' = pending /\ ran' = ran
  BY DEF EndTask
<1>2. g \in Finished
  BY <1>1 DEF Fifo, Ordered
<1> HIDE DEF g
<1>3. queue \in Seq(Handles) /\ IsInjective(queue) /\ InTurn(queue, Finished)
  BY DEF HandleInv, Typed, Lists, Fifo, Ordered
<1>4. Range(queue') = Range(queue) \ {g} /\ InTurn(queue', Finished)
  BY <1>1, <1>3, Unlinked, InTurnUnlink
<1>5. ASSUME NEW s \in Runners
      PROVE  Range(scan'[s]) = Range(scan[s]) \ {g} /\ InTurn(scan'[s], Finished)
  <2>1. /\ scan[s] \in Seq(Handles) /\ IsInjective(scan[s]) /\ InTurn(scan[s], Finished)
        /\ scan'[s] = Unlink(scan[s], g)
    BY <1>1 DEF HandleInv, Typed, Lists, Fifo, Ordered
  <2> QED BY <2>1, Unlinked, InTurnUnlink
<1>6. Finished' = Finished /\ (\A t \in Threads : Tasks!Done(t)' = Tasks!Done(t))
  BY <1>1 DEF Finished, Tasks!Done
<1>7. \A h \in Handles : Allocated(h)' = Allocated(h) /\ Busy(h)' = Busy(h)
  BY <1>1, LoopKeeps
<1>8. Past'
  BY <1>1, <1>6, <1>7 DEF Fifo, Past
<1>9. ASSUME NEW h \in Handles PROVE Waits(h)'
  <2>1. Waits(h)
    BY DEF Fifo
  <2> QED BY <1>1, <1>2, <1>4, <1>5, <1>6, <1>7, <2>1 DEF Waits
<1>10. Ordered'
  <2>1. \A s \in Runners : running'[s] # NoHandle => running'[s] \in Finished
    BY <1>1 DEF HandleInv, Typed, Fifo, Ordered
  <2>2. \A s \in Runners : \A h \in Range(scan'[s]), f \in Range(queue') :
          h[1] = f[1] /\ h \notin Finished /\ f \notin Finished => h[2] < f[2]
    BY <1>4, <1>5 DEF Fifo, Ordered
  <2> QED BY <1>4, <1>5, <1>6, <2>1, <2>2 DEF Ordered
<1>11. Counted'
  BY <1>6 DEF Fifo, Counted
<1> QED BY <1>8, <1>9, <1>10, <1>11 DEF Fifo

LEMMA CloseHandlesFifo ==
  ASSUME Fifo, NEW r \in Runners, CloseHandles(r)
  PROVE  Fifo'
<1>1. /\ ran' = ran /\ queue' = queue /\ scan' = scan /\ running' = running
      /\ at' = at /\ count' = count /\ pending' = pending
  BY DEF CloseHandles
<1>2. Finished' = Finished /\ Ordered' /\ Counted'
  BY <1>1, QuietFifo
<1>3. \A h \in Handles : Allocated(h)' = Allocated(h) /\ Busy(h)' = Busy(h)
  BY <1>1, LoopKeeps
<1> QED BY <1>1, <1>2, <1>3 DEF Fifo, Past, Waits

LEMMA NextFifo ==
  ASSUME \A r, s \in Runners : r = s, HandleInv, Fifo, [Next]_vars
  PROVE  Fifo'
<1>1. CASE UNCHANGED vars
  <2>1. Finished' = Finished /\ Ordered' /\ Counted'
    BY <1>1, QuietFifo DEF vars
  <2>2. \A h \in Handles : Allocated(h)' = Allocated(h) /\ Busy(h)' = Busy(h)
    BY <1>1, LoopKeeps DEF vars
  <2> QED BY <1>1, <2>1, <2>2 DEF vars, Fifo, Past, Waits
<1>2. ASSUME NEW t \in Threads, Async(t) PROVE Fifo'
  BY <1>2, AsyncInitFifo, AsyncRestFifo DEF Async
<1>3. ASSUME NEW r \in Runners, LoopStep(r) PROVE Fifo'
  BY <1>3, BeginPassFifo, SkipHandleFifo, BeginTaskFifo, EndTaskFifo, CloseHandlesFifo
     DEF LoopStep
<1> QED BY <1>1, <1>2, <1>3 DEF Next

(* The abstract queue sees a task posted when its handle is marked, ... *)
LEMMA AsyncImplements ==
  ASSUME HandleInv, NEW t \in Threads, Async(t)
  PROVE  Tasks!Post(t) \/ UNCHANGED Tasks!vars
<1>1. /\ at \in [Threads -> Places] /\ count \in [Threads -> Nat] /\ ran' = ran
      /\ count[t] <= MaxTasks /\ (at[t] # "idle" => count[t] >= 1)
  BY DEF HandleInv, Typed, Async, AsyncInit, AsyncSetData, SendMark, SendWake, SendDone
<1>2. CASE SendMark(t)
  <2>1. Posted[t] < MaxTasks /\ Posted' = [Posted EXCEPT ![t] = Posted[t] + 1]
    <3>1. /\ at[t] = "armed" /\ count' = count /\ at'[t] = "marked"
          /\ \A u \in Threads : u # t => at'[u] = at[u]
      BY <1>1, <1>2 DEF SendMark
    <3>2. Posted[t] = count[t] - 1 /\ Posted'[t] = count[t] /\ Posted[t] < MaxTasks
      BY <1>1, <3>1, RunnersAssumption DEF Posted
    <3>3. \A u \in Threads : u # t => Posted'[u] = Posted[u]
      BY <3>1 DEF Posted
    <3>4. DOMAIN Posted = Threads /\ DOMAIN Posted' = Threads
          /\ Posted = [u \in Threads |-> Posted[u]] /\ Posted' = [u \in Threads |-> Posted'[u]]
      BY DEF Posted
    <3>5. Posted'[t] = Posted[t] + 1
      BY <1>1, <3>2
    <3> HIDE DEF Posted
    <3> QED BY <3>2, <3>3, <3>4, <3>5
  <2> QED BY <1>1, <2>1 DEF Tasks!Post
<1>3. CASE ~SendMark(t)
  <2>1. Posted' = Posted
    BY <1>1, <1>3 DEF Async, AsyncInit, AsyncSetData, SendWake, SendDone, Posted
  <2> QED BY <1>1, <2>1 DEF Tasks!vars
<1> QED BY <1>2, <1>3

(* ... and run when async_cb calls its closure. *)
LEMMA BeginTaskImplements ==
  ASSUME HandleInv, Fifo, \A r, s \in Runners : r = s, NEW r \in Runners, BeginTask(r)
  PROVE  \E t \in Threads : Tasks!Run(t)
<1> DEFINE h == Head(scan[r])
<1>1. h \in Handles /\ h \notin Finished /\ h[2] = Tasks!Done(h[1]) + 1
  BY TaskInTurn
<1>2. pending[h] = 2 /\ ran' = Append(ran, h) /\ at' = at /\ count' = count
  BY DEF BeginTask
<1> HIDE DEF h
<1>3. Allocated(h) /\ ~Busy(h)
  BY <1>1, <1>2 DEF HandleInv, Lifetimes, Signalled
<1>4. h[1] \in Threads /\ h = <<h[1], h[2]>>
  BY <1>1 DEF Handles
<1>5. Tasks!Done(h[1]) \in Nat /\ count[h[1]] \in Nat
  BY <1>4 DEF Fifo, Counted, HandleInv, Typed
<1>6. Tasks!Done(h[1]) < Posted[h[1]]
  BY <1>1, <1>3, <1>4, <1>5 DEF Posted, Allocated, Busy
<1>7. Posted' = Posted
  BY <1>2 DEF Posted
<1>8. ran' = Append(ran, <<h[1], Tasks!Done(h[1]) + 1>>)
  BY <1>1, <1>2, <1>4
<1> QED BY <1>4, <1>6, <1>7, <1>8 DEF Tasks!Run

(* On a loop that one thread runs, Pool::Async and async_cb are a task queue,
   for any number of posting threads and tasks: no posted closure is run twice
   or before one that the same thread posted earlier. *)
THEOREM OneRunnerRunsInOrder ==
  ASSUME \A r, s \in Runners : r = s
  PROVE  Spec => Tasks!Init /\ [][Tasks!Next]_Tasks!vars
<1>1. Init => Tasks!Init
  BY DEF Init, Tasks!Init, Posted
<1>2. HandleInv /\ Fifo /\ [Next]_vars => [Tasks!Next]_Tasks!vars
  <2> SUFFICES ASSUME HandleInv, Fifo, [Next]_vars PROVE [Tasks!Next]_Tasks!vars
    OBVIOUS
  <2>1. CASE UNCHANGED vars
    BY <2>1 DEF vars, Tasks!vars, Posted
  <2>2. ASSUME NEW t \in Threads, Async(t) PROVE [Tasks!Next]_Tasks!vars
    BY <2>2, AsyncImplements DEF Tasks!Next
  <2>3. ASSUME NEW r \in Runners, BeginTask(r) PROVE [Tasks!Next]_Tasks!vars
    BY <2>3, BeginTaskImplements DEF Tasks!Next
  <2>4. ASSUME NEW r \in Runners, LoopStep(r), ~BeginTask(r) PROVE UNCHANGED Tasks!vars
    BY <2>4 DEF LoopStep, BeginPass, SkipHandle, EndTask, CloseHandles, Tasks!vars, Posted
  <2> QED BY <2>1, <2>2, <2>3, <2>4 DEF Next
<1>3. HandleInv /\ Fifo /\ [Next]_vars => Fifo'
  BY NextFifo
<1> QED BY <1>1, <1>2, <1>3, InitFifo, HandleInvariant, PTL DEF Spec

=============================================================================
