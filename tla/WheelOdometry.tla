---------------------------- MODULE WheelOdometry ----------------------------
(***************************************************************************)
(* The wheel odometry node (wheel_odometry_node.cpp): encoder samples of   *)
(* the motor node are integrated into a pose, whose heading is corrected   *)
(* by orientation samples of the same time.                                *)
(*                                                                         *)
(* Both streams arrive late, with losses, and each in its own order; the   *)
(* motor node may be started anew (its positions begin at zero), the       *)
(* system clock may step back, and a parameter turns the node off and on.  *)
(* Distances are those of one wheel; headings are left to real arithmetic. *)
(***************************************************************************)
EXTENDS Integers, Sequences, FiniteSets

CONSTANTS
  MaxClock,         \* bound: the system clock, in ticks
  ImuTimeout,       \* imu_timeout_sec
  HistoryDuration,  \* imu_history_duration_sec
  MaxInterval,      \* max_encoder_interval_sec
  MaxSpeed,         \* max_wheel_speed_m_s, distance per tick
  MaxDelay,         \* how long an encoder sample waits for the executor
  Blackout,         \* how long a motor node that is started anew is silent
  MaxPending,       \* bound: orientation samples on their way
  MaxFault          \* bound: restarts, clock steps and parameter changes together

ASSUME OdometryAssumption ==
  /\ {MaxClock, ImuTimeout, HistoryDuration, MaxInterval, MaxSpeed, MaxDelay,
      Blackout, MaxPending, MaxFault} \subseteq Nat
  /\ MaxDelay <= HistoryDuration
  /\ MaxInterval < Blackout

None  == [stamp |-> 0]
Fault == {"restart", "step", "switch"}

VARIABLES
  clock,    \* the system clock, from which both drivers take their stamps
  place,    \* true distance the wheel has travelled
  origin,   \* where the wheel was when the motor node started
  silent,   \* ticks until a new motor node publishes
  wheelNet, \* the sample in the subscription (keep_last(1)), or None
  imuNet,   \* stamps of orientation samples not yet delivered
  enabled,  \* the parameter "enabled"
  known,    \* encoder_initialized_
  base,     \* previous_encoder_stamp_ and the previous position
  history,  \* stamps of imu_yaw_history_
  lastUsed, \* last_used_imu_stamp_
  phantom,  \* distance the pose counts less the distance travelled meanwhile
  mark,     \* true place at the last sample that the node took in
  received, \* stamps of every orientation sample delivered
  faults    \* how often each fault happened

vars == <<clock, place, origin, silent, wheelNet, imuNet, enabled, known, base, history,
          lastUsed, phantom, mark, received, faults>>
world == <<clock, place, origin, silent>>
node  == <<known, base, lastUsed, phantom, mark>>

Init ==
  /\ clock = 1 /\ place = 0 /\ origin = 0 /\ silent = 0
  /\ wheelNet = None /\ imuNet = <<>>
  /\ enabled = TRUE /\ known = FALSE /\ base = [stamp |-> 0, position |-> 0]
  /\ history = <<>> /\ lastUsed = 0 /\ received = {}
  /\ phantom = 0 /\ mark = 0
  /\ faults = [f \in Fault |-> 0]

-----------------------------------------------------------------------------
(* The rest of the robot *)

(* A tick, in which the wheel may turn. *)
Tick ==
  /\ clock < MaxClock
  /\ wheelNet # None => wheelNet.age < MaxDelay
  /\ clock' = clock + 1
  /\ \E d \in {0, 1} : place' = place + d
  /\ silent' = IF silent = 0 THEN 0 ELSE silent - 1
  /\ wheelNet' = IF wheelNet = None THEN None ELSE [wheelNet EXCEPT !.age = @ + 1]
  /\ UNCHANGED <<origin, imuNet, enabled, node, history, received, faults>>

(* publish_wheel_encoder_state: a newer sample replaces one still waiting. *)
Encoder ==
  /\ silent = 0
  /\ wheelNet' = [stamp |-> clock, position |-> place - origin, place |-> place, age |-> 0]
  /\ UNCHANGED <<world, imuNet, enabled, node, history, received, faults>>

(* The AHRS driver publishes an orientation once per stamp. *)
Orientation ==
  /\ Len(imuNet) < MaxPending
  /\ clock \notin received \cup {imuNet[i] : i \in 1 .. Len(imuNet)}
  /\ imuNet' = Append(imuNet, clock)
  /\ UNCHANGED <<world, wheelNet, enabled, node, history, received, faults>>

Happens(f) ==
  /\ faults["restart"] + faults["step"] + faults["switch"] < MaxFault
  /\ faults' = [faults EXCEPT ![f] = @ + 1]

(* Never together with a clock step: see the README. *)
MotorRestarts ==
  /\ silent = 0 /\ faults["step"] = 0
  /\ Happens("restart")
  /\ origin' = place /\ silent' = Blackout
  /\ UNCHANGED <<clock, place, wheelNet, imuNet, enabled, node, history, received>>

ClockStepsBack ==
  /\ clock > 2 /\ faults["restart"] = 0
  /\ Happens("step")
  /\ clock' = clock - 2
  /\ UNCHANGED <<place, origin, silent, wheelNet, imuNet, enabled, node, history, received>>

SetEnabled ==
  /\ Happens("switch")
  /\ enabled' = ~enabled
  /\ UNCHANGED <<world, wheelNet, imuNet, node, history, received>>

-----------------------------------------------------------------------------
(* imu_callback *)

TrimmedShort(h) ==                     \* mutant: keeps nothing older than the duration
  SelectSeq(h, LAMBDA s : h[Len(h)] - s <= HistoryDuration)

(* pop_front while the sample after the front is too old as well. *)
Trimmed(h) ==
  LET last   == Len(h)
      old(i) == i + 1 < last /\ h[last] - h[i + 1] > HistoryDuration
      popped == CHOOSE n \in 0 .. last : (\A i \in 1 .. n : old(i)) /\ ~old(n + 1)
  IN  SubSeq(h, popped + 1, last)

(* An older stamp is ignored; an equal one only replaces the yaw. *)
ImuCallback ==
  /\ imuNet # <<>>
  /\ imuNet' = Tail(imuNet)
  /\ received' = received \cup {Head(imuNet)}
  /\ history' = IF history # <<>> /\ Head(imuNet) <= history[Len(history)] THEN history
                ELSE Trimmed(Append(history, Head(imuNet)))
  /\ UNCHANGED <<world, wheelNet, enabled, node, faults>>

-----------------------------------------------------------------------------
(* wheel_callback *)

(* imu_yaw_at: the stamp of the orientation at the encoder's stamp s, 0 if *)
(* there is none; it is s itself when the next sample is fresh as well and *)
(* the yaw is interpolated.                                                *)
YawAt(s) ==
  LET past   == Cardinality({i \in 1 .. Len(history) : history[i] <= s})
  IN  IF past = 0 THEN 0
      ELSE IF s - history[past] > ImuTimeout THEN 0
      ELSE IF past < Len(history) /\ history[past + 1] - s <= ImuTimeout THEN s
      ELSE history[past]

ImplausibleOnly(m) ==                  \* mutant: the length of the interval is not looked at
  LET d  == m.position - base.position
      dt == m.stamp - base.stamp
  IN  d > MaxSpeed * dt \/ d < -MaxSpeed * dt

(* Too long after the last sample, or farther than a wheel can have turned. *)
Implausible(m) ==
  LET d  == m.position - base.position
      dt == m.stamp - base.stamp
  IN  dt > MaxInterval \/ d > MaxSpeed * dt \/ d < -MaxSpeed * dt

Rebase(m) == base' = [stamp |-> m.stamp, position |-> m.position] /\ mark' = m.place

(* Without an orientation the node only remembers where the wheel is. *)
Starts(m, yaw) ==
  /\ ~known
  /\ Rebase(m)
  /\ known' = (yaw > 0)
  /\ lastUsed' = IF yaw > 0 THEN yaw ELSE lastUsed
  /\ UNCHANGED phantom

(* A stamp that did not grow changes nothing. *)
Repeats(m) ==
  /\ known /\ m.stamp <= base.stamp
  /\ UNCHANGED node

Distrusts(m) ==
  /\ known /\ m.stamp > base.stamp /\ Implausible(m)
  /\ Rebase(m)
  /\ UNCHANGED <<known, lastUsed, phantom>>

Integrates(m, yaw) ==
  /\ known /\ m.stamp > base.stamp /\ ~Implausible(m)
  /\ Rebase(m)
  /\ phantom' = phantom + (m.position - base.position) - (m.place - mark)
  /\ lastUsed' = IF yaw > lastUsed THEN yaw ELSE lastUsed
  /\ UNCHANGED known

(* The parameter is looked at here only.  Turning the node off and turning *)
(* it on both forget the baseline and the last orientation used.           *)
SwitchedOff ==
  /\ ~enabled
  /\ known' = FALSE /\ lastUsed' = 0
  /\ UNCHANGED <<base, phantom, mark>>

WheelCallback ==
  /\ wheelNet # None
  /\ wheelNet' = None
  /\ \/ SwitchedOff
     \/ /\ enabled
        /\ LET yaw == YawAt(wheelNet.stamp)
           IN  \/ Starts(wheelNet, yaw) \/ Repeats(wheelNet)
               \/ Distrusts(wheelNet) \/ Integrates(wheelNet, yaw)
  /\ UNCHANGED <<world, imuNet, enabled, history, received, faults>>

Next ==
  \/ Tick \/ Encoder \/ Orientation
  \/ MotorRestarts \/ ClockStepsBack \/ SetEnabled
  \/ ImuCallback \/ WheelCallback

Spec == Init /\ [][Next]_vars

-----------------------------------------------------------------------------
(* Properties *)

(* Every distance in the pose was travelled, and no part of it is counted  *)
(* twice: neither a lost or late sample, nor a motor node that starts over *)
(* at position zero, nor a clock that steps back, nor turning the node off *)
(* and on moves a robot that stands (the baseline of wheel_callback).      *)
PoseIsTravel == phantom = 0

(* The orientation of the encoder's own time is used, once: a sample is    *)
(* corrected if and only if a measurement at or before it, within the      *)
(* time-out, was delivered and is newer than what was used, alone or       *)
(* between it and a later one; trimming the history never costs a          *)
(* correction, and a later measurement alone never corrects (imu_callback, *)
(* imu_yaw_at).                                                            *)
OrientationIsOfItsTime ==
  [][(known /\ enabled /\ wheelNet # None /\ base' # base /\ faults["step"] = 0
        /\ ~Implausible(wheelNet)) =>
       LET s    == wheelNet.stamp
           past == {t \in received : t <= s /\ s - t <= ImuTimeout}
           next == {t \in received : t > s /\ t - s <= ImuTimeout}
       IN  lastUsed' > lastUsed
             <=> \/ \E t \in past : t > lastUsed
                 \/ past # {} /\ next # {} /\ s > lastUsed]_vars
=============================================================================
