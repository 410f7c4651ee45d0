----------------------------- MODULE TaskQueue -----------------------------
(***************************************************************************)
(* What PeerConnection relies on Pool::Async for: a task posted to a loop  *)
(* runs there exactly once, and the tasks one thread posts to one loop run *)
(* in the order it posted them.  Nothing is promised between threads.      *)
(***************************************************************************)
EXTENDS Integers, Sequences, FiniteSets

CONSTANTS
  Threads,   \* the threads that post
  MaxTasks   \* bound on the tasks each of them posts

VARIABLES
  posted,    \* how many tasks each thread has posted
  ran        \* the tasks that have run, each <<thread, its number>>, in order

vars == <<posted, ran>>

(* How many of a thread's tasks have run. *)
Done(t) == Cardinality({i \in 1..Len(ran) : ran[i][1] = t})

Init ==
  /\ posted = [t \in Threads |-> 0]
  /\ ran = <<>>

Post(t) ==
  /\ posted[t] < MaxTasks
  /\ posted' = [posted EXCEPT ![t] = @ + 1]
  /\ UNCHANGED ran

Run(t) ==
  /\ Done(t) < posted[t]
  /\ ran' = Append(ran, <<t, Done(t) + 1>>)
  /\ UNCHANGED posted

Next == \E t \in Threads : Post(t) \/ Run(t)

Spec == Init /\ [][Next]_vars /\ \A t \in Threads : WF_vars(Run(t))

=============================================================================
