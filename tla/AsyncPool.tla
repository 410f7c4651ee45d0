----------------------------- MODULE AsyncPool -----------------------------
(***************************************************************************)
(* Pool::Async and async_cb on one libuv loop.                             *)
(*                                                                         *)
(* Any thread may post a task: Async allocates a uv_async_t of its own for *)
(* it, links it into the loop, stores the closure and signals.  The thread *)
(* that runs the loop finds the signalled handles, runs the closures,      *)
(* closes each handle in its own callback and deletes it when libuv says   *)
(* it is closed.                                                           *)
(*                                                                         *)
(* The libuv half (uv__async_io, uv_async_send, uv__async_spin, uv_close)  *)
(* is external.  uv_async_init is called from threads that do not own the  *)
(* loop although libuv does not synchronise it; it is one step here.       *)
(***************************************************************************)
EXTENDS Integers, Sequences, FiniteSets, SequencesExt

CONSTANTS
  Threads,    \* the threads that post
  Runners,    \* the threads inside uv_run on the loop
  MaxTasks,   \* bound on the tasks each thread posts
  NoHandle

ASSUME RunnersAssumption == Runners # {} /\ MaxTasks \in Nat

Handles == Threads \X (1..MaxTasks)

ASSUME NoHandleAssumption == NoHandle \notin Handles

VARIABLES
  at,         \* where each posting thread is inside Async
  count,      \* how many handles it has allocated
  queue,      \* loop->async_handles
  data,       \* handles whose data points to a closure
  pending,    \* handle->pending: 0, 1 (sender busy), 2
  wake,       \* the loop's wakeup descriptor is readable
  scan,       \* each runner's local list in uv__async_io
  running,    \* the handle whose async_cb a runner is in
  closing,    \* the loop's closing handles
  deleted,    \* handles that have been deleted
  ran         \* history: the handles whose closures have run, in order

vars == <<at, count, queue, data, pending, wake, scan, running, closing, deleted, ran>>

(* The handle of the Async call t is in. *)
Current(t) == <<t, count[t]>>

Init ==
  /\ at = [t \in Threads |-> "idle"]
  /\ count = [t \in Threads |-> 0]
  /\ queue = <<>>
  /\ data = {}
  /\ pending = [h \in Handles |-> 0]
  /\ wake = FALSE
  /\ scan = [r \in Runners |-> <<>>]
  /\ running = [r \in Runners |-> NoHandle]
  /\ closing = {}
  /\ deleted = {}
  /\ ran = <<>>

-----------------------------------------------------------------------------
(* Pool::Async.                                                            *)

(* uv_async_init links the handle in at the end of the loop's list. *)
Link(list, h) == Append(list, h)

(* new uv_async_t; uv_async_init. *)
AsyncInit(t) ==
  /\ at[t] = "idle" /\ count[t] < MaxTasks
  /\ at' = [at EXCEPT ![t] = "inited"]
  /\ count' = [count EXCEPT ![t] = @ + 1]
  /\ queue' = Link(queue, <<t, count[t] + 1>>)
  /\ UNCHANGED <<data, pending, wake, scan, running, closing, deleted, ran>>

(* handle->data = new std::function. *)
AsyncSetData(t) ==
  /\ at[t] = "inited"
  /\ at' = [at EXCEPT ![t] = "armed"]
  /\ data' = data \cup {Current(t)}
  /\ UNCHANGED <<count, queue, pending, wake, scan, running, closing, deleted, ran>>

(* uv_async_send: mark the handle, ... *)
SendMarkIfAsleep(t) ==
  /\ at[t] = "armed"
  /\ at' = [at EXCEPT ![t] = IF wake THEN "idle" ELSE "marked"]
  /\ pending' = [pending EXCEPT ![Current(t)] = IF wake THEN 0 ELSE 1]
  /\ UNCHANGED <<count, queue, data, wake, scan, running, closing, deleted, ran>>
SendMark(t) ==
  /\ at[t] = "armed"
  /\ at' = [at EXCEPT ![t] = "marked"]
  /\ pending' = [pending EXCEPT ![Current(t)] = 1]
  /\ UNCHANGED <<count, queue, data, wake, scan, running, closing, deleted, ran>>

(* ... wake the loop, ... *)
SendWake(t) ==
  /\ at[t] = "marked"
  /\ at' = [at EXCEPT ![t] = "woken"]
  /\ wake' = TRUE
  /\ UNCHANGED <<count, queue, data, pending, scan, running, closing, deleted, ran>>

(* ... and let go of the handle. *)
SendDone(t) ==
  /\ at[t] = "woken"
  /\ at' = [at EXCEPT ![t] = "idle"]
  /\ pending' = [pending EXCEPT ![Current(t)] = 2]
  /\ UNCHANGED <<count, queue, data, wake, scan, running, closing, deleted, ran>>

Async(t) == AsyncInit(t) \/ AsyncSetData(t) \/ SendMark(t) \/ SendWake(t) \/ SendDone(t)

-----------------------------------------------------------------------------
(* The loop.                                                               *)

(* uv__async_io: clear the wakeup and take the handles over. *)
BeginPass(r) ==
  /\ wake /\ running[r] = NoHandle /\ scan[r] = <<>>
  /\ wake' = FALSE
  /\ scan' = [scan EXCEPT ![r] = queue]
  /\ queue' = <<>>
  /\ UNCHANGED <<at, count, data, pending, running, closing, deleted, ran>>

(* A handle that has not been signalled goes back to the loop's list. *)
SkipHandle(r) ==
  /\ running[r] = NoHandle /\ scan[r] # <<>> /\ pending[Head(scan[r])] = 0
  /\ scan' = [scan EXCEPT ![r] = Tail(@)]
  /\ queue' = Append(queue, Head(scan[r]))
  /\ UNCHANGED <<at, count, data, pending, wake, running, closing, deleted, ran>>

(* One that has, once its sender is done with it, has its callback called:
   async_cb runs the closure. *)
BeginTask(r) ==
  /\ running[r] = NoHandle /\ scan[r] # <<>> /\ pending[Head(scan[r])] = 2
  /\ scan' = [scan EXCEPT ![r] = Tail(@)]
  /\ queue' = Append(queue, Head(scan[r]))
  /\ pending' = [pending EXCEPT ![Head(scan[r])] = 0]
  /\ running' = [running EXCEPT ![r] = Head(scan[r])]
  /\ ran' = Append(ran, Head(scan[r]))
  /\ UNCHANGED <<at, count, data, wake, closing, deleted>>

(* uv_close unlinks the handle; it is deleted once closed. *)
Unlink(list, h) == RemoveFirst(list, h)

(* The rest of async_cb: uv_close, delete func, data = nullptr. *)
EndTaskDeletes(r) ==
  /\ running[r] # NoHandle
  /\ running' = [running EXCEPT ![r] = NoHandle]
  /\ deleted' = deleted \cup {running[r]}
  /\ data' = data \ {running[r]}
  /\ UNCHANGED <<at, count, queue, pending, wake, scan, closing, ran>>
EndTask(r) ==
  /\ running[r] # NoHandle
  /\ running' = [running EXCEPT ![r] = NoHandle]
  /\ queue' = Unlink(queue, running[r])
  /\ scan' = [s \in Runners |-> Unlink(scan[s], running[r])]
  /\ closing' = closing \cup {running[r]}
  /\ data' = data \ {running[r]}
  /\ UNCHANGED <<at, count, pending, wake, deleted, ran>>

DeleteForgotten(handles) == deleted
Delete(handles) == deleted \cup handles

(* uv__run_closing_handles at the end of the iteration: delete handle. *)
CloseHandles(r) ==
  /\ running[r] = NoHandle /\ scan[r] = <<>> /\ closing # {}
  /\ closing' = {}
  /\ deleted' = Delete(closing)
  /\ UNCHANGED <<at, count, queue, data, pending, wake, scan, running, ran>>

LoopStep(r) == BeginPass(r) \/ SkipHandle(r) \/ BeginTask(r) \/ EndTask(r) \/ CloseHandles(r)

Next == (\E t \in Threads : Async(t)) \/ (\E r \in Runners : LoopStep(r))

(* Pool::run leaves uv_run only if the loop has no handles, and its one-minute
   timer never goes; a thread inside Async finishes the call. *)
Fairness ==
  /\ \A t \in Threads : WF_vars(at[t] # "idle" /\ Async(t))
  /\ \A r \in Runners : WF_vars(BeginPass(r)) /\ WF_vars(SkipHandle(r) \/ BeginTask(r))
                        /\ WF_vars(EndTask(r)) /\ WF_vars(CloseHandles(r))

Spec == Init /\ [][Next]_vars /\ Fairness

-----------------------------------------------------------------------------
(* Properties.                                                             *)

(* A task counts as posted once uv_async_send has marked its handle. *)
Posted == [t \in Threads |-> count[t] - (IF at[t] \in {"inited", "armed"} THEN 1 ELSE 0)]

Tasks == INSTANCE TaskQueue WITH posted <- Posted, ran <- ran

(* Async implements the task queue: every posted closure runs exactly once,
   eventually, and one thread's closures in the order it posted them. *)
ImplementsTaskQueue == Tasks!Spec

(* async_cb closes and deletes the handle while other handles are being
   posted and scanned: no one touches it after the delete, its sender
   included, and a callback never finds data unset. *)
HandleLifetime ==
  /\ \A t \in Threads : at[t] # "idle" => Current(t) \notin deleted \cup closing
  /\ \A h \in deleted \cup closing :
       /\ ~Contains(queue, h)
       /\ \A r \in Runners : running[r] # h /\ ~Contains(scan[r], h)
  /\ \A r \in Runners : running[r] # NoHandle => running[r] \in data

(* No uv_async_t leaks: every handle Async allocates is deleted in the end. *)
HandlesReclaimed ==
  \A t \in Threads, n \in 1..MaxTasks : count[t] = n ~> <<t, n>> \in deleted

(* A loop is run by one thread, which is what lets PeerConnection keep its
   state unlocked: two of a loop's callbacks never overlap. *)
LoopSerial == \A r, s \in Runners : running[r] # NoHandle /\ running[s] # NoHandle => r = s

=============================================================================
