------------------------------ MODULE AhrsDriver ------------------------------
(***************************************************************************)
(* The AHRS node (mw_ahrs.cpp): a reader thread takes packets off the      *)
(* serial line and stores them in messages behind a mutex, a publisher     *)
(* thread copies the messages and publishes those with a new stamp; main   *)
(* ends both and closes the port.                                          *)
(*                                                                         *)
(* The sensor sends its four packets in turn, cycle after cycle, and any   *)
(* of them may get lost.  A value is the cycle it was measured in.         *)
(***************************************************************************)
EXTENDS Naturals, Sequences

CONSTANT MaxPacket    \* bound: packets the sensor sends

Cycle   == <<"ACC", "GYO", "DEG", "MAG">>
Thread  == {"reader", "publisher"}
Message == {"raw", "data", "mag"}

VARIABLES
  sent,       \* packets the sensor sent, which is also the time
  running,    \* AHRS, the flag both loops look at
  rosOk,      \* rclcpp::ok()
  main,       \* where main is: constructor, spin, destructor
  thread,     \* per thread: "off", "loop", "busy" in the middle, "ended"
  packet,     \* what the reader holds: kind, cycle and packet_time
  message,    \* imu_data_raw_msg, imu_data_msg with imu_yaw_msg, imu_magnetic_msg
  copy,       \* the publisher's copies of them
  lastStamp,  \* last_raw_stamp, last_orientation_stamp, last_magnetic_stamp
  published,  \* what was published last of each
  times       \* how often each was published

vars   == <<sent, running, rosOk, main, thread, packet, message, copy, lastStamp, published,
            times>>
output == <<copy, lastStamp, published, times>>
ends   == <<running, rosOk, main>>

(* Of imu_data_msg only what the DEG packet brings. *)
Empty == [raw  |-> [stamp |-> 0, acc |-> 0, gyr |-> 0],
          data |-> [stamp |-> 0, deg |-> 0, yaw |-> 0],
          mag  |-> [stamp |-> 0, mag |-> 0]]

Init ==
  /\ sent = 0 /\ running = FALSE /\ rosOk = TRUE /\ main = "constructor"
  /\ thread = [t \in Thread |-> "off"]
  /\ packet = [kind |-> "none", cycle |-> 0, stamp |-> 0]
  /\ message = Empty /\ copy = Empty /\ published = Empty
  /\ lastStamp = [m \in Message |-> 0] /\ times = [m \in Message |-> 0]

-----------------------------------------------------------------------------
(* main *)

(* Port or sensor do not answer: the node spins without threads. *)
SetupFails ==
  /\ main = "constructor"
  /\ main' = "spin"
  /\ UNCHANGED <<sent, running, rosOk, thread, packet, message, output>>

StartReading ==
  /\ main = "constructor"
  /\ running' = TRUE /\ thread' = [thread EXCEPT !["reader"] = "loop"]
  /\ main' = "reading"
  /\ UNCHANGED <<sent, rosOk, packet, message, output>>

StartPubing ==
  /\ main = "reading"
  /\ thread' = [thread EXCEPT !["publisher"] = IF running THEN "loop" ELSE @]
  /\ main' = "spin"
  /\ UNCHANGED <<sent, running, rosOk, packet, message, output>>

Shutdown ==
  /\ rosOk /\ rosOk' = FALSE
  /\ UNCHANGED <<sent, running, main, thread, packet, message, output>>

(* The destructor: clear the flag, join the reader, then the publisher, *)
(* then stop the stream and close the port.                             *)
StopReading ==
  /\ main = "spin" /\ ~rosOk
  /\ running' = FALSE
  /\ main' = IF running THEN "stop reading" ELSE "stop pubing"
  /\ UNCHANGED <<sent, rosOk, thread, packet, message, output>>

Joined(t) == thread[t] \in {"off", "ended"}

JoinReader ==
  /\ main = "stop reading" /\ Joined("reader")
  /\ main' = "stop pubing"
  /\ UNCHANGED <<sent, running, rosOk, thread, packet, message, output>>

StopPubing ==
  /\ main = "stop pubing" /\ Joined("publisher")
  /\ running' = FALSE /\ main' = "stop stream"
  /\ UNCHANGED <<sent, rosOk, thread, packet, message, output>>

StopStreamAndDisconnect ==
  /\ main = "stop stream"
  /\ main' = "closed"
  /\ UNCHANGED <<sent, running, rosOk, thread, packet, message, output>>

-----------------------------------------------------------------------------
(* MwAhrsRead *)

(* The next packet, or the one after it, and the time it was received. *)
Receive ==
  /\ thread["reader"] = "loop" /\ running /\ rosOk
  /\ \E n \in {sent + 1, sent + 2} :
       /\ n <= MaxPacket
       /\ sent' = n
       /\ packet' = [kind |-> Cycle[((n - 1) % 4) + 1], cycle |-> ((n - 1) \div 4) + 1, stamp |-> n]
  /\ thread' = [thread EXCEPT !["reader"] = "busy"]
  /\ UNCHANGED <<ends, message, output>>

(* Under the mutex.  Accelerations and rates each restamp the raw message. *)
Store ==
  /\ thread["reader"] = "busy"
  /\ message' = CASE packet.kind = "ACC" -> [message EXCEPT !.raw.stamp = packet.stamp,
                                                            !.raw.acc = packet.cycle]
                  [] packet.kind = "GYO" -> [message EXCEPT !.raw.stamp = packet.stamp,
                                                            !.raw.gyr = packet.cycle]
                  [] packet.kind = "DEG" -> [message EXCEPT !.data = [stamp |-> packet.stamp,
                                               deg |-> packet.cycle, yaw |-> packet.cycle]]
                  [] packet.kind = "MAG" -> [message EXCEPT !.mag = [stamp |-> packet.stamp,
                                                                     mag |-> packet.cycle]]
  /\ thread' = [thread EXCEPT !["reader"] = "loop"]
  /\ UNCHANGED <<sent, ends, packet, output>>

-----------------------------------------------------------------------------
(* publish_topic *)

Copy ==
  /\ thread["publisher"] = "loop" /\ running /\ rosOk
  /\ copy' = message
  /\ thread' = [thread EXCEPT !["publisher"] = "busy"]
  /\ UNCHANGED <<sent, ends, packet, message, lastStamp, published, times>>

DueLive(m) == message[m].stamp \notin {0, lastStamp[m]}  \* mutant: not the copy's stamp

Due(m) == copy[m].stamp \notin {0, lastStamp[m]}

Publish ==
  /\ thread["publisher"] = "busy"
  /\ published' = [m \in Message |-> IF Due(m) THEN copy[m] ELSE published[m]]
  /\ lastStamp' = [m \in Message |-> IF Due(m) THEN copy[m].stamp ELSE lastStamp[m]]
  /\ times' = [m \in Message |-> IF Due(m) THEN times[m] + 1 ELSE times[m]]
  /\ thread' = [thread EXCEPT !["publisher"] = "loop"]
  /\ UNCHANGED <<sent, ends, packet, message, copy>>

(* Either loop ends at its condition. *)
Ends(t) ==
  /\ thread[t] = "loop" /\ ~(running /\ rosOk)
  /\ thread' = [thread EXCEPT ![t] = "ended"]
  /\ UNCHANGED <<sent, ends, packet, message, output>>

Next ==
  \/ SetupFails \/ StartReading \/ StartPubing \/ Shutdown
  \/ StopReading \/ JoinReader \/ StopPubing \/ StopStreamAndDisconnect
  \/ Receive \/ Store \/ Copy \/ Publish
  \/ \E t \in Thread : Ends(t)

Spec == Init /\ [][Next]_vars

-----------------------------------------------------------------------------
(* Properties *)

(* Whatever is published holds a measurement that was not published before *)
(* and none that is older than before, and a yaw goes out with the         *)
(* orientation of its own packet, wherever the copy falls between two      *)
(* packets (publish_only_on_new_data).                                     *)
NothingRepeated ==
  [][\A m \in Message :
       LET old == published[m]
           new == published'[m]
       IN  times'[m] # times[m] =>
             /\ \A f \in DOMAIN new : new[f] >= old[f]
             /\ \E f \in DOMAIN new \ {"stamp"} : new[f] > old[f]
             /\ m = "data" => new.yaw = new.deg]_vars
=============================================================================
