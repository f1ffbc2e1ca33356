------------------------------ MODULE MCDrivers ------------------------------
(* The four driver nodes for TLC.   They share no state, so each behaviour *)
(* is one of a single driver while the others stay where they start: the   *)
(* states of the run are the sum of theirs and not the product.            *)
EXTENDS WheelOdometry

CONSTANTS MaxPacket, Camera, CameraOrder, Timeout, StepDuration, AckTimeout, Retries,
          StartDelay, Settle, MaxTime, MaxEvents, Samples, Capacity, MaxPosition, MaxStarts,
          MaxSent, MaxLine, Late

VARIABLES sent, running, rosOk, main, thread, packet, message, copy, lastStamp, published,
          times
VARIABLES now, due, turn, doing, phase, settled, deadline, driven, missed, acks, executed,
          reported, events
VARIABLES pc, request, waiting, answered, unpacking, looping, decoder, buffers, available,
          ready, starts, delivered, outgoing, incoming, scanning, position, lost
VARIABLE driver   \* the one that runs

Ahrs   == INSTANCE AhrsDriver
Gimbal == INSTANCE GimbalControl
Lidar  == INSTANCE LidarNode

ASSUME GimbalAssumption == Gimbal!Parameters
ASSUME LidarAssumption  == Lidar!Parameters

ahrs   == <<sent, running, rosOk, main, thread, packet, message, copy, lastStamp, published,
            times>>
gimbal == <<now, due, turn, doing, phase, settled, deadline, driven, missed, acks, executed,
            reported, events>>
lidar  == <<pc, request, waiting, answered, unpacking, looping, decoder, buffers, available,
            ready, starts, delivered, outgoing, incoming, scanning, position, lost>>

LeftFirst == <<"left", "right">>

DriversInit ==
  /\ driver \in {"odometry", "ahrs", "gimbal", "lidar"}
  /\ Init /\ Ahrs!Init /\ Gimbal!Init /\ Lidar!Init
  /\ driver # "gimbal" => phase = "waiting"
  /\ driver # "lidar" => ~scanning

OdometryRuns == driver = "odometry" /\ Next /\ UNCHANGED <<driver, ahrs, gimbal, lidar>>
AhrsRuns     == driver = "ahrs" /\ Ahrs!Next /\ UNCHANGED <<driver, vars, gimbal, lidar>>
GimbalRuns   == driver = "gimbal" /\ Gimbal!Next /\ UNCHANGED <<driver, vars, ahrs, lidar>>
LidarRuns    == driver = "lidar" /\ Lidar!Next /\ UNCHANGED <<driver, vars, ahrs, gimbal>>

DriversNext == OdometryRuns \/ AhrsRuns \/ GimbalRuns \/ LidarRuns

DriversSpec == DriversInit /\ [][DriversNext]_<<driver, vars, ahrs, gimbal, lidar>>

(* The publisher never repeats a measurement (publish_only_on_new_data). *)
NothingRepeated == Ahrs!NothingRepeated

(* What moves is under a watchdog that gets its turn (_watchdog). *)
MovesUnderWatch == Gimbal!MovesUnderWatch

(* Start angles that are reported were set (startup_set_angles). *)
AnglesWereSet == Gimbal!AnglesWereSet

(* No scan is older than the last scan command (startScanNormal_commonpath). *)
ScanIsNew == Lidar!ScanIsNew

(* A scan is one revolution, as far as it arrived (pushScanNodeData). *)
ScanIsOneRevolution == Lidar!ScanIsOneRevolution
=============================================================================
