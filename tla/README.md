# STELLA N5: formal models of the robot's software

TLA+ models of the parts of this repository whose correctness depends on the
order of things: failed writes and crashes, lost transactions, threads,
signals and time-outs. Each module is translated from the source; `PROJECT.json`
("map") names the lines every definition stands for.

## The system

STELLA N5 is an inspection robot. Its ROS 2 nodes run on one computer and talk
by topics and services; each node is a process, and no launch file restarts a
process that ended.

| Part | State it keeps | Operations | Hard behaviour |
|---|---|---|---|
| Capture node `gimbal_camera_capture/capture_node.py`, `storage.py` | on disk: run directories, `metadata.yaml`, photos, `READY`; in memory: the active run and its metadata, reserved file names, one capture in progress | services start, capture, finish, abort; legacy topics start, trigger, finish; a worker thread for triggers | every write can fail and the process can die between two writes; clients repeat requests whose answer they missed; the worker runs beside the services |
| Battery node `battery/battery_status.py` with `sk120_driver.py`, `modbus_rtu.py` | charging, ramping and fault latch; current setting, proven levels, counters; age of the last reading | command ON/OFF; poll, status and ramp timers | a Modbus write may be applied without an echo or echoed without effect; the charger trips or is set at its panel; ON is repeated by the docking client |
| Motor node `stella_md/src/main.cpp` | the last command and what was applied of it, encoder sample and unwrapped position | `cmd_vel`, worker loop, 20 ms publisher, constructor, destructor | two threads, a serial line whose transactions may raise after they took effect, a wrapping counter, a watchdog |
| Docking program `docking/dock_turn_backup.py`, `stack_manager.py`, `safety.py` | phase, pending signal, deadline, helper processes, exit code | phases in order, signals, clean-up | signals between any two steps, helpers that outlive their leaders, a clean-up in which a step may raise |
| Charging verifier `docking/charging.py` | last sample of two streams, start of the stability window | wait for an existing charge, verify, cancel | gaps in either stream between two callbacks |
| Docking motion `docking/motion.py`, `centerline_approach.py`, `lidar_alignment.py`, `entry_recovery.py`, `tag_*.py` | anchors, budgets, one-shot latches | guarded velocity loops | stale feedback, bounded stopped waits, geometry |
| Docking sensing `docking_lidar.py`, `lidar_geometry.py`, `image_rectifier.py`, `apriltag_bridge.py` | the last scan or image | filters per message | real-valued |
| Gimbal control `control_node.py`, `siyi_protocol.py` | start-up phase, motion and zoom with their deadlines per camera, UDP sequence | move, velocity, zoom, centre, watchdog | lost and late acknowledgements, blocking waits in the executor |
| Wheel odometry `wheel_odometry_node.cpp` | IMU history, last encoder position, pose | IMU and wheel callbacks | pairing of two streams by time stamp, resets |
| AHRS `stella_ahrs/mw/mw_ahrs.cpp` | current messages behind a mutex | reader thread, publisher thread | start, stop and threads |
| LiDAR node `sllidar_node.cpp` and its driver `sl_lidar_driver.cpp`, `sl_async_transceiver.cpp`, `sl_lidarprotocol_codec.cpp`, `dataunpacker/` (twice: `sllidar_ros2`, `sllidar2_ros2`) | mode of the decoder, switch of the unpacker, awaited answer, two scan buffers | connect, ask, start, stop and restart a scan, grab | a decoder thread beside the one that asks; lost commands, answers and samples; answers without a number |
| Teleoperation, linear motor, DDS throttle and guard, launch files, point cloud, Hailo detection | little | per-message callbacks | see "Not modelled" |

How they interact: the docking program publishes charging commands to the
battery node and decides from its availability and battery messages;
it and the teleoperation nodes publish `cmd_vel` to the motor node, whose wheel positions and the AHRS orientation feed
wheel odometry, which docking reads; a drive manager outside this repository
calls the capture services, and a Jetson collects runs that have `READY`.

What makes each part correct, in a sentence:

* capture: an acknowledged picture is never lost, a mission has one run, and a
  run that is `READY` is complete and never changes;
* battery: current is raised only where it was proven, a fault latches until a
  confirmed OFF, and no output stays on without a session;
* motor: what the motors do is what the last command wants, or zero, whatever
  the line did;
* docking program: it ends, standing, with a truthful exit code, and with the
  charger as the verdict says;
* verifier: a confirmed charge was free of gaps for the whole window;
* gimbal: a moving camera whose commands stop coming is stopped; an
  acknowledgement answers the command it is taken for;
* LiDAR: a published scan is one revolution, measured after the last start;
* odometry and AHRS: every encoder step is integrated once, with an
  orientation of its own time.

## Modules

| Module | Models |
|---|---|
| `CaptureStorage` | storage and every callback of the capture node |
| `RunLedger` | the abstract disk: what a collector of runs relies on |
| `CaptureStorageProofs`, `CaptureRecordProofs` | theorems about `CaptureStorage`: the runs; their records, images and answers, and the refinement of `RunLedger` |
| `ChargerSession`, `ChargerSessionProofs` | the battery node, its Modbus link and the SK120, and theorems about it |
| `MotorBase`, `MotorBaseProofs` | the motor node, its worker and the serial line, and theorems about its commands and its encoders |
| `ChargingVerifier` | the verifier |
| `DockingProcess`, `DockingProcessProofs` | the docking program from start to exit code, and theorems about it |
| `LidarBackup` | the last motion of a docking, backwards into the station |
| `DockingStepsProofs` | theorems about `ChargingVerifier` and `LidarBackup` |
| `GimbalControl` | the gimbal node in the turns of its executor, and its UDP link |
| `WheelOdometry`, `WheelOdometryProofs` | the odometry node between two streams of samples, and theorems about it |
| `AhrsDriver` | the two threads of the AHRS node |
| `LidarNode` | the LiDAR node and the two threads of its driver |
| `DriversProofs` | theorems about `GimbalControl`, `AhrsDriver` and `LidarNode` as `MCDrivers` instantiates them |
| `MC*` | instances for TLC |

`MCDrivers` and `MCDockingSteps` put parts that share no state into one run: a
behaviour is one of a single part while the others stay where they start, so the
run has the sum of their states and not the product. They say nothing about
interaction, because the code has none there: the drivers are processes of
their own, and the docking program runs its steps one after the other.

### CaptureStorage

`dirs`, `meta`, `ready` and `photos` are the disk; `mem` is the active run in
memory, `job` the capture of the service callback and of the legacy worker, and
`tx` the sequence of writes that runs under the storage lock. A service that
writes once is one action; one that writes several times (create a directory
and its first metadata; completed metadata, then `READY`, then perhaps a
roll-back) is one action per write, so a crash or a failed write falls between
any two of them. `os.replace` makes a metadata write all or nothing, which is
`WriteMetadata`; a raise leaves the old file, which is `WriteFails`.
The record of a capture enters memory before its write and stays there when the
write raises, as `record_service_capture` does. A crash clears `mem`, `tx` and
`job`; `StartResumes`, `FinishMission` and `AbortMission` load a run from disk.
`acked` remembers the positive answers that clients got. `RunLedger` is what
the disk promises: `LedgerSpec` is the refinement, with a run's owner, records,
shipment and abort read off `meta` and `ready`.

### ChargerSession

One callback of the single-threaded node is one action. A callback is several
Modbus transactions; `Written` is the set of chargers a write may leave behind,
`Readings` what a read may return, and the echo is chosen apart from the effect,
all only while the link is bad. Currents are levels, and time is what
the code compares: whether the last change has settled, whether the ramp
interval is over, whether the last reading is fresh. The process may end at any
moment, after the OFF of `destroy_node` or without it, and starts over with
whatever charger it left. Readings grow stale only while the link is bad:
on a good one the timers run in time. `seen` is a history: the last readings at the present
setting, as many as a raise needs.

### MotorBase

`Construct`, `Command`, `Publish`, `Shutdown` and `Destruct` are the executor's
and main's; `Choose`, `Send`, `Query`, `Store` and `Loop` are one turn of the
serial worker, cut where it holds no mutex. `Drive` is the vendor library: on a
bad line a velocity may take effect and raise all the same. A wheel turns by less
than half a counter between two samples, the premise of
`unwrap_signed_32bit_delta` (at the 32 bits of the real counter and the wheels' speed
this holds for hours). A crash without destructor followed by a new start is
the initial state with any velocity in `motors`.

### ChargingVerifier

`Tick` moves the clock between any two steps, `Callback` is one message of
either stream, and the loop of `verify` is `Guard`, `Spin`, `Check`.
`doubt` remembers the last moment at which not both streams were recent and
good; the code has no such variable, its promise is about it.

### DockingProcess

The phases are those of `run()`; each is its guarded loop: `GuardPhase` is
`should_stop`, and the second half of a turn publishes a velocity (`Move`),
waits, launches a helper, succeeds or fails. `Cleanup` lists the steps of
`cleanup_managed_processes` with those of `ManagedStack.cleanup` in it. A helper is a
leader (`ros2 launch`, `ros2 run`) and the node it started, in one process
group; either may end by itself at any moment. A raise anywhere costs one of
`MaxFault`.

### LidarBackup

One turn of the loop in `backup_with_lidar` is one action and takes one tick;
`WaitForFeedback` is a turn of `_wait_for_backup_motion_feedback`. The actions
are the ways a turn can end, in the code's order: feedback is lost, the time is
over, there is no scan or the old one, the target is reached, or `Approach`,
in which `SeesPlane`, `SeesGuide` and the pauses or `Drives` follow each other as
in the code. Of a measurement (plane fit, rails, clearance, IMU) we keep what the
code makes of it, and any outcome may follow any other: more than geometry
allows, so what holds here holds on the robot. The guards that only measure
(travel, drift, path, controller faults) and `should_stop` are `GivesUp`, which may
happen in any turn. `stood` and `taken` have no counterpart; they say how long the
robot has been sent no motion backwards and how a plane reference was taken. The
switches are those of `docking.yaml` (`use_lidar_guide_centering` and a known guide width);
the monotonic and the node's clock are one.

### GimbalControl

`Spin` collects the callbacks that are ready and `turn` holds those still to run,
timers first, as the single-threaded executor does. A callback takes no
time unless it waits for an acknowledgement; then `doing` is the command,
and `Attempt`, `Receive`, `TimesOut` and `AttemptRefused` are the turns of
`send_command_with_ack`. A datagram can be lost, late, or refused by `sendto`;
`acks` is a set, because of equal acknowledgements one tells as much as two.
Times are counted in periods of the watchdog, rounded up; `Parameters` is what `__init__` checks of
its parameters or makes of them. `driven` is whether the camera moves, `missed` that the last command to this axis
did not reach it.

### WheelOdometry

The two subscriptions have a queue each (`keep_last(1)` for the encoder), and
samples wait in them while the clock goes on. `YawAt` is `imu_yaw_at`, `Trimmed` the
loop that shortens the history, and the four outcomes of `wheel_callback` are
`Starts`, `Repeats`, `Distrusts` and `Integrates`. `phantom` is the distance the pose
counts beyond the distance travelled meanwhile. A restart of the motor
node and a step of the clock backwards do not happen in the same behaviour: if the
clock is set back exactly so that the new node's first stamp follows
the old one closely, no reader of stamps and positions could tell.

### AhrsDriver

`Receive` and `Store` are the reader, cut at the mutex; `Copy` and `Publish` the
publisher. The sensor sends its four packets in a cycle, and any may be lost. A value
is the number of the cycle it was measured in, so a repeated or an older
value shows. Construction, shutdown and the joins of the destructor are `main`.

### LidarNode

The node as `sllidar_c1_launch.py` starts it. `pc` is the step of the main thread and
`Asks` the requests it makes, each cut into `Prepare` (the lock is taken, the decoder
waits for a header), `Request` and the end of its wait; `Signalled` and `Grab` are the two
halves of `waitAndLockAvailableScan`. The decoder thread takes an item under the lock of
the codec (`Decode`), judges it without any lock (`Check`), and stores it under the lock
of the buffers or of the answer (`Push`, `SetResult`), so the main thread may start
a scan anew between any two of them. `Obey` and `Measure` are the device. A copy of a message that
the main thread clears meanwhile (`onDecodeReset`) is one that
the unpacker, disabled before, or the check of the answer refuses: `Answered` may refuse any answer.

The wait of two seconds for an answer is taken to be longer than any delay of a directly
connected line (`Late = FALSE`). This is a real assumption: requests carry no number,
and with `Late = TRUE` TLC violates both properties of the module. An answer that
comes late answers the next request of its kind, a restart then believes a device
that has not heard of it, and its old samples enter the new scan. The two theorems make
the same assumption, as a hypothesis of their own.

## Runs

| Run | Question | Bounds |
|---|---|---|
| `capture_requests` | Are acknowledged captures durable, requests recorded once, images never overwritten, captures bound to their run, and READY runs frozen? | one mission beside the legacy topics, two requests, one directory, three records, three faults |
| `capture_missions` | One run per mission, READY only on completed runs, refinement of `RunLedger`, every run finally READY, no capture that blocks for ever? | two missions, three directories, one record each, two faults |
| `capture_retry_answer`, `capture_abort_ready` | Two sentences of the documents that failed writes refute | one run, three faults |
| `charger` | Raising, latching, start-up, recovery, and an output without a session | levels 1, 3, 4; thresholds of two |
| `charger_recovered` | A sentence of the README about recovery that the code refutes | as above |
| `motor` | Skipped transactions, start and end, unwrapping, watchdog | two commands, 2-bit counters, one wheel that turns a count either way |
| `docking_steps` | Verifier: is a confirmed charge free of gaps? Backup: is what is decided about a standing robot decided about one that stood, does a proved corridor end all steering and searching, do waits for feedback stay within their budget? | verifier: nine ticks, age two, window three; backup: nine turns, corridor of three observations |
| `drivers` | Odometry: is the pose the distance travelled, with an orientation of its own time? AHRS: is nothing published twice? Gimbal: is a moving camera watched, were reported angles set? LiDAR: is a scan one revolution, and new? | clock 5, one fault; nine packets; two cameras, two attempts, two messages or misses; two samples a revolution, five measurements, two starts |
| `gimbal_stops` | A sentence of the README about motions that the code refutes | two cameras, two messages |
| `docking` | Exit code, charger, motion and end of the program | two helpers, one of which drives, two raises |
| `docking_orphan` | A sentence of the README about children that the code refutes | one helper, no raise |

Why the bounds are enough. *Faults*: three allow a failed write, a crash and a
failed write of the repeated request, after which every record and marker has
been through each combination of lost memory and old disk; the bound is not
needed for the proved properties. *Directories*: three let two missions open
one each while one is wasted by a failed first write. *Levels*: 1, 3, 4
give a full ramp step, a shortened last one and two recoveries, the second from
an intermediate level. *Thresholds*: the code's 3, 3 and 2 become 2 because a
counter behaves alike at every value between its reset and its threshold.
*Counters*: with two bits the wrap is one count away from where the wheel
stands; unwrapping looks only at differences. *Helpers*: clean-up
treats helpers alike, so one that drives and one that does not show every
combination. *Commands*: a race needs one command being sent and a newer one.
*Odometry*: clock 5 is the first at which a sample waits while the history is
trimmed past the orientation it needs; the interval between orientations, time-out and history
(the code's 0.25 s and 1 s) keep their order. *AHRS*: nine packets are two cycles and the
beginning of a third, so a repeated and a mixed measurement both fit. *Gimbal*: two
messages or misses together are a motion and its lost stop, a centring beside a motion,
or two centrings whose acknowledgements cross; nine periods hold the longest turn
of the executor (`LatestStop`) after a motion began. *LiDAR*: five measurements are two
revolutions and the sync sample after them, so a scan may begin mid-revolution, repeat,
lose its sync sample and fill its buffer; two starts are a start and a restart (three samples, a
buffer of four, seven measurements and three starts were checked once and agree). *Backup*: the code's five observations,
five scans and three cycles become three, three and two, since a counter
behaves alike between reset and threshold (a single stable cycle is not
instantiated: the code's default is three); nine turns are enough for a
reference, an inconsistency, a recovery and the correction after it, and for three
waits for feedback in a proved corridor.

Deadlock checking is off where the system may stop: a program, a step or a node that
ended, a capture disk or a clock whose bounds are used up. It is on for the battery and the motor node.

No run lists a type invariant: each is proved, or part of an inductive invariant that is.

## Fairness

* Capture: the threads make progress (a callback runs to its end, `Progress`),
  and a client repeats `finish` until it is answered, as the interface document
  asks of it. Nothing makes clients start, capture or abort.
* Battery: the poll and status timers keep firing and time passes; the property
  also assumes that the link works from some moment on.
* Motor: both threads run (the worker's waits and transactions are bounded by
  time-outs), the destructor is called once main returned, and a command that is
  not renewed ages. That the line works is a premise of `StaleIsStopped`.
* Docking: the program's own steps happen and the deadline passes. Helpers owe
  nothing; that is why SIGKILL is modelled.
* Drivers and the steps of the docking: no liveness is stated, so no fairness. How late the
  watchdog of the gimbals may be is a safety property with a clock (`MovesUnderWatch`), and
  so are the budgets of the backup.

## Proofs

Every theorem holds for all values of the constants that the named assumption of its
module allows. Its invariant was checked by TLC on an instance before it was proved. A proof
of a step has one part per action, and under it one per conjunct that the action can
disturb.

| Module | Theorems that a run also checks | From |
|---|---|---|
| `CaptureStorageProofs` | `ReadyIsCompleted`, `MissionOwnsOneRun`, `CapturesStayInTheirRun`, `ReadyStaysFrozen` | `ConstantsAssumption`: the empty ids are no mission and no request |
| `CaptureRecordProofs` | `AcknowledgedIsKept`, `RequestsAreUnique`, `ShotsOverwriteNothing`, `NamedImagesExist`, `NodeKeepsTheLedger` | the same |
| `ChargerSessionProofs` | `SessionHolds`, `RaisesAreProven`, `OnsAreVerified`, `LatchesNeedOff`, `LossesLowerCeiling` | `LevelsAssumption`: levels and thresholds are positive, the start is not above the target |
| `MotorBaseProofs` | `SkipsAreSafe`, `NothingMovesUncommanded`, `EndIsQuiet`, `PublishedPositionsAreTrue` | `CounterAssumption`: a counter has some positive `Half`, wheels are left and right |
| `DockingProcessProofs` | `SuccessHolds`, `OneErrorIsSurvived`, `OutputIsSettled`, `StopsPromptly` | `ConfigurationAssumption`: finitely many helpers, some of which drive |
| `DockingStepsProofs` | `WindowClean`, `ConfirmedAfterWindow`; `GoesStraight`, `Budgeted`, `DecidesStanding` | `TimesAssumption`, `LimitsAssumption`: times and counts are natural numbers; a correction needs a settled cycle; `MaxStood` tells the compared times apart |
| `WheelOdometryProofs` | `PoseCountsTravel`, `CorrectionsAreOfTheirTime` | `OdometryAssumption`: a sample waits no longer than the history reaches back, and a motor node takes longer to start than an interval that is trusted |
| `DriversProofs` | `MotionsAreWatched`, `ReportedAnglesWereSet`, `MeasurementsAreNotRepeated`, `ScansAreNew`, `ScansAreRevolutions` | `GimbalAssumption`: what the node's `__init__` checks of its parameters; `LidarAssumption`: a revolution fits into a scan buffer (8192 entries in the code); the last two also from `~Late`, as in the run |

Bounds of the instances (`Max...`) are natural numbers in these assumptions and any size.

### Capture: runs

The three safety invariants are not inductive. A finish may write the READY
marker only because it holds the lock and wrote `completed` just before; a start
may create a directory only because no other run of the mission appeared since
it looked. The inductive invariant `IInv` says so:

* `Numbering`: directory numbers above the last one are unused, so a new
  directory meets no old metadata;
* `OpenRunOnDisk`: the open run is on disk under its mission, except while it
  is being created, so a lookup finds it;
* `TxProgress`: what the write sequence has established so far: nothing on disk
  and no other run of the mission while it creates; completed metadata before
  the marker;
* `TxExcludesJobs`: no capture is under way while a run is opened or closed,
  but the worker's own, so no record goes to a run that is being frozen.

`ReadyStaysFrozen` is an action property: from `IInv` no action writes metadata,
marker or images of a READY run.

### Capture: records, and the refinement

An acknowledged record could be lost by a later write of the open run's metadata, which
writes what memory holds. So `RecInv` adds to `IInv`:

* `MemoryExtendsDisk`: the open run has the records of its metadata and perhaps more (one
  whose write raised), in the same order, so no write drops a record;
* `RecordLists`: in memory and on disk a request has one record and an image one owner,
  and the images exist;
* `Jobs`: a capture under way carries a request that has no record yet, and names that no
  record uses, although a restart forgets which names were reserved: a name counts
  as taken when its image exists;
* `CloseProgress`: what memory says of a run while it is created, rolled back or aborted.

`RecordShape` reduces every step to one of a few things it can do to records, and the
conjuncts are proved of those. `NodeKeepsTheLedger` is the refinement: initial states map
to initial states, and each step to a step of `RunLedger` for one run or to a stutter.

### Battery

`ChargeInv` is type correctness, `Sound` (a session has its charger, no latched fault,
a current between the first level and its ceiling, and counters below their thresholds) and
`Backed` (as many of the last readings as are counted were good). A callback is a chain of
transactions, each of which may fail, so the operators of the model return sets of outcomes;
the lemmas say of each operator what all its outcomes keep. The four action properties
follow from `ChargeInv` and those lemmas.

### Motor

`SkipIsSafe` speaks of the moments the worker decides; to carry it from one decision to the
next the invariant says more:

* `AppliedIsDriven`: what is remembered as applied is what the motors do, at
  every step and not only when the worker looks;
* `SendingIsDue`: a command is being sent only if nothing newer was applied,
  and one that is still the newest is either not applied yet or the stop of a
  stale one not applied yet. So a transaction that raises after it took effect
  never falsifies `AppliedIsDriven`;
* `PhasesInOrder`: the worker is at its start before the first stop returned
  and has ended before the last one is sent.

For the encoders, `DeltaIsDistance` shows that the unwrapped difference of two counters is the
distance of their positions if that is below half a counter; the invariant then carries the
published sum from sample to sample. That a wheel stays below half a counter between two
samples is the premise of the code and of the model's `Turn`.

### Docking program

`DockInv` says what is settled at each step of the way out, or which error it cost: after the
cancel nothing unconfirmed is on (`Verdict`), after the kill only members whose leader had
gone live (`Ended`), each of the two stops behind it works or costs a raise (`Halted`), and
success is decided only on a clean way out (`Truthful`). `Prompt` says that a velocity
after a request used up the guard that let it through. Beside the four
checked properties, `OnlyOrphansOutlive` says that the processes which do outlive a run (the
finding of `docking_orphan`) are all of that one kind.

### Verifier and backup

The verifier's invariant is type
correctness and `WindowIsClean`: as long as both samples count, a running window
began after the last doubt. It is inductive because a callback judges the
samples that were there before it replaces one of them: a gap that has just ended resets the
window. `FreshBefore` says that a sample that is recent later was recent
before, so time alone ends windows and never mends one.

None of the three properties of the backup is inductive; `IInv` adds what the branches of the
loop rely on:

* `Committed`: a proved corridor has no correction, pause or search under way.
  The turn that proves it may come out of any of them, so this is where the
  work is (`CommittedTurn`);
* `FirstWaitIsClean`: the wait for feedback before the loop has no pause to
  carry over, the one in the corridor none that counts;
* `Anchored`: who was verified or committed has a reference, and who has none
  was never sent backwards;
* `PlaneStands`, `TurnStands`, `CountStands`: a pause, a correction or a count
  of scans that has lasted some time had the robot standing for that time, up to
  what `MaxStood` tells apart. `DecidedStanding` is an action property from them.

### Odometry

`PoseIsTravel` alone says nothing of the sample that is waiting. `Origins` says where its
positions begin: if the motor node was started anew, samples of two starts lie
`Blackout` apart, or the clock has that still to pass; an interval the node trusts is shorter
(`TrustedIsOneStart`), so baseline and sample begin in the same place and their difference
was travelled. The other case, a clock that was set back, has one start only.

`HistoryInv` says what the shortened history still knows: it is sorted, and an orientation that
was delivered and is no longer in it is older than anything a waiting sample may need,
because a sample waits at most `MaxDelay`. With it `YawAt` finds the orientation of
the sample's own time exactly if that was delivered. Here the work is the loop
that trims the history (`TrimPops`, `TrimmingRemembers`).

### Gimbal

That the watchdog comes in time is not seen from deadlines alone: it depends on what the
turn of the executor has still to wait. `Debt` is that time: the wait in progress, the attempts
and cameras the command in hand has left, and the commands of the callbacks still in the turn.
No step makes the clock plus the debt grow, but a new turn; a new turn's debt is
at most `LatestStop`, and it begins with the watchdog if that is due. So `GimbalInv` says that
deadlines are met at the clock plus the debt with `LatestStop` to spare, without the debt
while the watchdog is still ahead in the turn, and exactly while it is not due. `Watched` is the
other half: an axis without deadline stands, or its stop did not arrive. The theorem on angles
needs `Acknowledged`: an acknowledgement of start angles is sent only by a camera that took them.

### AHRS

What was published, the publisher's copies and the reader's messages are three states of the
same messages, in this order (`Grows`), and a message with a later stamp holds a measurement of
a later cycle, since the packet in the reader's hand comes after all that is stored (`Before`,
`InHand`).

### LiDAR

Neither property is inductive: what a scan holds was decided in the device, and passed
the line, the decoder and two buffers since. `LidarInv` follows it along this way.
`LineInv`: behind a request there come its answer and its samples only, so an answer is taken while
no scan is under way (`Quiet`), and a scan begins with empty buffers and an empty decoder
(`StartsInQuiet`, `OneStart`). `FlightInv`: from the device to the buffer samples stay in order
(`InOrder`); between what is on its way and what is collected only those are missing that were
lost (`NoneMissing`, `NoneBetween`); and the collected buffer begins with its only sync sample
and, unless a closing one was lost, holds everything since (`Collects`). Where a sample
stands in its revolution is its number modulo `Samples`, and `Revolutions` and `NextRevolution` say what
follows for two sync samples. Since a revolution fits into a buffer, the last
entry of a full one is never replaced. `HandOver`: the available scan is `Whole`, older
than the one collected and not older than the one delivered.

### Only model-checked

* Liveness (`FinishEventuallyReady`, `CaptureEnds`, `OrphanOutputGoesOff`, `StaleIsStopped`,
  `EndingEnds`, `RunEnds`): temporal proofs under fairness need ENABLED, which is out of the prover's reach.
* The violations, which are single behaviours.

## What the code does otherwise than the documents say

* A capture whose metadata write failed is answered from memory when repeated
  (`capture_retry_answer`), against "all answers come after the atomic write".
* An abort whose metadata write failed is answered as done when repeated; after
  a restart the run can be finished and gets READY (`capture_abort_ready`).
  Until that restart the run also stays active and every other mission is refused.
* After a recovery, losing the current once more steps down again instead of
  turning off (`charger_recovered`).
* A helper whose leader ended first is neither signalled nor killed
  (`docking_orphan`).
* A gimbal that moves or zooms goes on past its time while a centring waits for its
  acknowledgement, which with the defaults is up to two seconds for a callback
  and eight for a turn of the executor (`gimbal_stops`).

Met while modelling, without a run of their own:

* Gimbal: a stop whose `sendto` raises is logged, counted as done and not repeated
  (`missed`); a late acknowledgement of one centring answers a later one.
* AHRS: either half of the raw IMU message restamps it, so an accelerometer
  value may go out twice with two gyroscope values, although `wheel_odometry/README.md:31`
  speaks of new measurements only. `publish_tf` would use a
  broadcaster that is never created (`mw_ahrs.hpp:77`); it is off in every launch.
* LiDAR: `openChannelAndBind` (`sl_async_transceiver.cpp:204`) declares `ans` again inside its
  block, so `connect` succeeds on a port that cannot be opened and the node never prints that it
  cannot bind; it ends at the first request instead. A lost sync sample makes one scan of
  two revolutions (what `ScanIsOneRevolution` excepts), against `sl_lidar_driver.h:453` ("All data nodes are belong to
  exactly ONE complete 360-degrees's scan"). A scan that is completed between the
  signal and the lock of `waitAndLockAvailableScan` is grabbed, and grabbed again by its own signal, with a
  new time stamp; so is one that was complete when a restart failed. After a failed start the
  node loops without scans until somebody calls `start_motor`.
* Backup: a correction under way when the plane is disabled (near the dock) keeps
  the robot standing until the time of the step is over, since nothing can settle it
  then. Observations of a tight guide made while the plane still warms up stay in
  `straight_entry_observations` (`motion.py:1249`) and are cleared only at the later check;
  the geometry of the corridor still judges them. `_imu_callback` leaves gaps above
  0.1 s out of the integrated yaw while the IMU counts as fresh for 0.25 s, against
  the comment of the wait ("never bridge a lost gyro interval", `motion.py:1789`).

## Not modelled, and why

* Capture: metadata that cannot be parsed, a power loss behind the page cache,
  directory names derived from the clock, and the join of the worker in
  `destroy_node`. File contents are records.
* Battery: the status message it publishes, CRC and register scaling (the link is external), the I2C
  sensor beyond ok, out of range and error.
* Motor: the optional legacy odometry and the IMU callback that feeds it,
  the robot set-up in `mw/stella.cpp`, and the return value of
  `dual_m_command`, which the code ignores and which belongs to a binary library.
* Docking: velocities, poses and fits; waits for odometry, transforms, scans and
  tags are one waiting turn; the instance lock. The motions before the drive
  backwards (rotation, centre line, alignment, entry recovery) are guarded loops
  around geometry: their guards and ends are those of `DockingProcess`.
* Gimbal: packet layout and checksums, the clamping of angles, the log of the route.
* LiDAR: the motor signal, the compressed scan modes that `start_motor` may choose, TCP and UDP
  channels, the order of angles in a scan, and what the node never calls.
* Odometry and AHRS: headings are real arithmetic; `use_imu_orientation` is on; the frames and
  the set-up dialogue of the sensor.
* Whole parts: teleoperation, linear motor, launch files, DDS throttle and guard, point-cloud
  and Hailo nodes keep next to no state; vendored drivers (most of the repository's C++ lines:
  RealSense, serial) are third-party code and external; of SLLIDAR only what its node does here is modelled.

## Plan

Done: `CaptureStorage` with its refinement and proofs, `ChargerSession`,
`MotorBase`, `ChargingVerifier`, `DockingProcess`, `LidarBackup`, `WheelOdometry`, `GimbalControl`,
`AhrsDriver` and `LidarNode` with their proofs. Then, in this order:

1. `ChargeHandshake`: `ChargingVerifier` and `ChargerSession` composed over the
   messages between them: a confirmed charge is a session that carries current.
2. The motions before the drive backwards, with their one-shot latches.
3. A second docking run beside the orphans of a killed one.

Every safety property of a passing run is a theorem; those of the modules to come are to
be proved with them.
