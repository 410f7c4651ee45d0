------------------------------ MODULE IceTimer ------------------------------
(***************************************************************************)
(* The timeout of a PeerConnection: iceTimer, which Start's task sets off  *)
(* at once and then every Period, and lastPacketRecvTimeMS_, which every   *)
(* datagram sets and which OnIceTimer compares with the clock.             *)
(*                                                                         *)
(* Both run on the loop's thread, in the order in which the loop gets to   *)
(* them: it runs due timers first and sockets later, and may be late for   *)
(* either by up to Lag.                                                    *)
(***************************************************************************)
EXTENDS Integers

CONSTANTS
  Period,      \* of iceTimer, 2500 ms
  IceTimeout,  \* 10000 ms
  Lag,         \* how long the loop may leave a due callback waiting
  MaxTime      \* bound on the clock

ASSUME TimesAssumption ==
  /\ Period \in Nat \ {0} /\ IceTimeout \in Nat /\ Lag \in Nat /\ MaxTime \in Nat
  /\ Lag < IceTimeout

VARIABLES
  now,        \* get_time_ms(), the time since the system started
  due,        \* when iceTimer is due; 0 before Start
  lastPacketRecvTimeMS_,
  waiting,    \* when the datagram in the socket's buffer came in; 0 for none
  startedAt,  \* history: when Start's task ran
  heardAt,    \* history: when the last datagram read came in
  reported    \* history: OnIceTimer has found a timeout since then

timerVars == <<now, due, lastPacketRecvTimeMS_, waiting, startedAt, heardAt, reported>>
history == <<startedAt, heardAt, reported>>

TimerInit ==
  /\ now = 1 /\ due = 0 /\ lastPacketRecvTimeMS_ = 0 /\ waiting = 0
  /\ startedAt = 0 /\ heardAt = 0 /\ reported = FALSE

(* Start's task: the socket receives, and the timer is due at once. *)
Start ==
  /\ due = 0
  /\ due' = now /\ startedAt' = now
  /\ UNCHANGED <<now, lastPacketRecvTimeMS_, waiting, heardAt, reported>>

(* A datagram reaches the socket. *)
Arrive ==
  /\ due # 0 /\ waiting = 0
  /\ waiting' = now
  /\ UNCHANGED <<now, due, lastPacketRecvTimeMS_, history>>

RecvTimeKept == lastPacketRecvTimeMS_
RecvTime == now

(* The loop reads it. *)
OnSocketData ==
  /\ waiting # 0
  /\ lastPacketRecvTimeMS_' = RecvTime
  /\ heardAt' = waiting /\ waiting' = 0 /\ reported' = FALSE
  /\ UNCHANGED <<now, due, startedAt>>

(* The first tick only starts the measurement, unless a datagram has. *)
SeedForgotten == 0
Seed == now

Expired == now - lastPacketRecvTimeMS_ > IceTimeout

(* A tick. libuv sets the timer off again from the loop's own clock, which
   stands where this round of the loop began. *)
OnIceTimer ==
  /\ due # 0 /\ now >= due
  /\ \E loopTime \in due..now : due' = loopTime + Period
  /\ IF lastPacketRecvTimeMS_ = 0
     THEN lastPacketRecvTimeMS_' = Seed /\ UNCHANGED reported
     ELSE /\ UNCHANGED lastPacketRecvTimeMS_
          /\ reported' = (reported \/ Expired)
  /\ UNCHANGED <<now, waiting, startedAt, heardAt>>

(* Time passes from Start on, but the loop is never later than Lag. *)
Tick ==
  /\ now < MaxTime
  /\ due # 0 /\ now < due + Lag
  /\ waiting # 0 => now < waiting + Lag
  /\ now' = now + 1
  /\ UNCHANGED <<due, lastPacketRecvTimeMS_, waiting, history>>

TimerNext == Start \/ Arrive \/ OnSocketData \/ OnIceTimer \/ Tick

TimerSpec == TimerInit /\ [][TimerNext]_timerVars

-----------------------------------------------------------------------------
(* Properties.                                                             *)

Later(a, b) == IF a >= b THEN a ELSE b

(* Since when nothing has come in: Start, or the last datagram read. *)
Since == Later(startedAt, heardAt)

(* OnIceTimer finds a timeout only when the peer has really been silent, since
   the start or its last datagram, for the timeout less the loop's lateness,
   also if a datagram waits in the socket while the timer runs. *)
TimeoutJustified ==
  [][~reported /\ reported' =>
       (IF waiting # 0 THEN waiting ELSE now) - Since > IceTimeout - Lag]_timerVars

(* A silence is found within a period of the timeout, counted from the start
   if nothing ever came in, however the loop delays its ticks. *)
SilenceNoticed ==
  startedAt # 0 /\ waiting = 0 /\ now - Since > IceTimeout + Period + 2 * Lag => reported

=============================================================================
