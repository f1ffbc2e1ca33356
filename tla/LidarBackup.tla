----------------------------- MODULE LidarBackup -----------------------------
(***************************************************************************)
(* The last motion of a docking, backup_with_lidar of motion.py: backwards *)
(* into the station, steered by the rear plane and two guide rails until   *)
(* enough observations prove a straight corridor, and then straight on.    *)
(* Whatever is missing makes the robot stand and wait, within a budget.    *)
(*                                                                         *)
(* A step is a turn of the loop and takes a tick.  Of a measurement we     *)
(* keep what the code makes of it, and any may follow any other.  The      *)
(* switches are those of docking.yaml (use_lidar_guide_centering and a     *)
(* known guide width).                                                     *)
(***************************************************************************)
EXTENDS Integers

CONSTANTS
  MotionTimeout,  \* motion_timeout_sec
  Reacquire,      \* backup_plane_reacquire_timeout_sec
  Blocked,        \* backup_blocked_timeout_sec
  PerWait,        \* backup_motion_feedback_recovery_timeout_sec
  AllWaits,       \* backup_motion_feedback_recovery_total_sec
  SettledSamples, \* samples of settled feedback that end such a wait
  Cycles,         \* stable cycles of plane, wheel guard, guide and heading; three
  StableScans,    \* backup_lidar_stable_cycles
  Observations,   \* how many prove a corridor; five in the code
  Agreeing,       \* scans that make a new plane reference; five in the code
  Standing,       \* the time they take at least; 0.4 s in the code
  MaxStood        \* bound: what is longer than this is not told apart

(* Budgets and counts are natural numbers, a correction needs a settled    *)
(* cycle, and MaxStood tells all the times apart that are compared.        *)
Limits ==
  /\ MotionTimeout \in Nat /\ PerWait \in Nat /\ AllWaits \in Nat
  /\ Cycles \in Nat \ {0} /\ Standing \in Nat /\ StableScans \in Nat /\ MaxStood \in Nat
  /\ Cycles < MaxStood /\ Standing < MaxStood /\ StableScans <= MaxStood

ASSUME LimitsAssumption == Limits

(* By the nearest return: rails and plane count, only the plane, neither; *)
(* "block" is the target and closer.                                       *)
Zone    == {"guide", "tail", "near", "block"}
Guide   == {"none", "tight", "good"}    \* two_rails: not seen, too close to one
Never   == -1                           \* a time that is None

VARIABLES
  elapsed,    \* time since the loop began
  result,     \* running, waiting (for feedback), done or failed
  command,    \* current_command: zero, turn (in place), back, steer (back and turn)
  count,      \* stability.count
  plane,      \* lidar_heading_stable_count
  guard,      \* wheel_guard_stable_count
  anchor,     \* lidar_heading_anchor_error is set
  errors,     \* length of stationary_recovery_errors
  recovered,  \* stationary_recovery_used
  taken,      \* how the last turn took a plane reference
  correcting, \* heading_correction_active
  settled,    \* heading_settled_count
  guide,      \* guide_stable_count
  proof,      \* length of straight_entry_observations
  verified,   \* guide_entry_verified
  handoff,    \* guide_handoff is set: the corridor is proved
  planeSince, \* plane_missing_since
  guideSince, \* guide_missing_since
  blockSince, \* blocked_since
  used,       \* feedback_recovery_used
  began,      \* recovery_started
  samples,    \* settled_samples
  stood       \* turns since the robot was sent backwards; MaxStood: it never was

heading  == <<plane, guard, anchor, errors, recovered>>
turning  == <<correcting, settled>>
corridor == <<proof, verified, handoff>>
pauses   == <<planeSince, guideSince, blockSince>>
waits    == <<used, began, samples>>
backupVars == <<elapsed, result, command, count, heading, taken, turning, guide, corridor, pauses,
          waits, stood>>

Smaller(m, n) == IF m < n THEN m ELSE n

(* Without a scan the robot waits for feedback before it begins. *)
BackupInit ==
  /\ elapsed = 0 /\ result \in {"running", "waiting"} /\ command = "zero" /\ count = 0
  /\ plane = 0 /\ guard = 0 /\ anchor = FALSE /\ errors = 0 /\ recovered = FALSE
  /\ taken = "no" /\ correcting = FALSE /\ settled = 0
  /\ guide = 0 /\ proof = 0 /\ verified = FALSE /\ handoff = FALSE
  /\ planeSince = Never /\ guideSince = Never /\ blockSince = Never
  /\ used = 0 /\ began = 0 /\ samples = 0 /\ stood = MaxStood

Turn == result = "running" /\ elapsed <= MotionTimeout /\ elapsed' = elapsed + 1

Publish(c) ==
  /\ command' = c
  /\ stood' = IF c \in {"back", "steer"} THEN 0
              ELSE IF stood = MaxStood THEN stood ELSE Smaller(stood + 1, MaxStood - 1)

Fails == result' = "failed" /\ Publish("zero")
Goes(c) == UNCHANGED result /\ Publish(c)

(* The turn ends with the robot standing, if its time is not over. *)
Pauses(since, limit) == IF elapsed - since >= limit THEN Fails ELSE Goes("zero")
Since(time) == IF time = Never THEN elapsed ELSE time

-----------------------------------------------------------------------------
(* Feedback: odometry and wheel yaw *)

AtOnce == Smaller(PerWait, MotionTimeout - began)    \* mutant: every wait has all of it

(* The budget of one wait, of all of them, and of the step. *)
Budget == Smaller(PerWait, Smaller(AllWaits - used, MotionTimeout - began))

WaitEnds == IF handoff THEN began + Budget ELSE PerWait

(* In a proved corridor the robot stands and waits while the gyro tracks   *)
(* it; anywhere else it gives up.                                          *)
FeedbackLost ==
  /\ result = "running" /\ elapsed <= MotionTimeout
  /\ \/ /\ handoff
        /\ result' = "waiting" /\ Publish("zero") /\ began' = elapsed /\ samples' = 0
        /\ UNCHANGED used
     \/ Fails /\ UNCHANGED waits
  /\ taken' = "no"
  /\ UNCHANGED <<elapsed, count, heading, turning, guide, corridor, pauses>>

(* Settled samples and new scans count together; a gap in either or a      *)
(* motion begins anew.  Before the loop no wait is charged.                *)
WaitForFeedback ==
  /\ result = "waiting" /\ taken' = "no"
  /\ \/ /\ elapsed + 1 >= WaitEnds
        /\ Fails /\ elapsed' = Smaller(elapsed + 1, WaitEnds)
        /\ UNCHANGED <<used, samples, count>>
     \/ /\ elapsed + 1 < WaitEnds
        /\ samples' \in {0, samples, samples + 1}
        /\ Publish("zero")
        /\ IF samples' < SettledSamples
           THEN elapsed' = elapsed + 1 /\ UNCHANGED <<result, used, count>>
           ELSE /\ result' = "running" /\ count' = 0
                /\ elapsed' = IF handoff THEN elapsed + 1 ELSE 0
                /\ used' = IF handoff THEN used + elapsed + 1 - began ELSE 0
  /\ UNCHANGED <<heading, turning, guide, corridor, pauses, began>>

(* A stop is asked for, or measured travel, drift, heading, path or        *)
(* controller leave their limits, or the target was overrun.               *)
GivesUp ==
  /\ result \in {"running", "waiting"} /\ Fails /\ taken' = "no"
  /\ UNCHANGED <<elapsed, count, heading, turning, guide, corridor, pauses, waits>>

TimedOut ==
  /\ result = "running" /\ elapsed > MotionTimeout /\ Fails /\ taken' = "no"
  /\ UNCHANGED <<elapsed, count, heading, turning, guide, corridor, pauses, waits>>

-----------------------------------------------------------------------------
(* Turns that do not steer *)

still == <<turning, guide, corridor, pauses, waits>>

(* No scan that may be used, or one without returns. *)
NoScan ==
  /\ Turn /\ (Goes("zero") \/ Fails)
  /\ count' = 0 /\ errors' = 0 /\ taken' = "no"
  /\ UNCHANGED <<plane, guard, anchor, recovered, still>>

SameScan == Turn /\ Goes(command) /\ taken' = "no" /\ UNCHANGED <<count, heading, still>>

Kept(stable) == IF stable THEN count + 1 ELSE count  \* mutant: the count goes on after a bad scan
Observe(stable) == IF stable THEN count + 1 ELSE 0

(* A cluster of returns at the target: done, or stand and look again. *)
AtTarget ==
  /\ Turn /\ taken' = "no"
  /\ \E stable \in BOOLEAN : count' = Observe(stable)
  /\ IF count' >= StableScans THEN result' = "done" /\ Publish("zero") ELSE Goes("zero")
  /\ UNCHANGED <<heading, still>>

-----------------------------------------------------------------------------
(* The rear plane *)

LooksOn(z) == z \in {"guide", "tail"}    \* mutant: the corridor does not end the search

LooksForPlane(z) == ~handoff /\ z \in {"guide", "tail"}

PlaneUnused(z) == ~LooksForPlane(z) /\ plane' = 0 /\ UNCHANGED <<guard, anchor, errors, recovered>>

(* No plane, a poor one, or a jump from the filtered angle. *)
PlaneRejected(z) ==
  /\ LooksForPlane(z)
  /\ plane' = 0 /\ guard' = 0 /\ errors' = 0 /\ UNCHANGED <<anchor, recovered>>

PlaneAccepted(z) ==
  /\ LooksForPlane(z)
  /\ plane' = Smaller(plane + 1, Cycles) /\ guard' = 0 /\ errors' = 0
  /\ anchor' = (anchor \/ plane' = Cycles)
  /\ UNCHANGED recovered

(* The plane and the motion since the reference disagree, and the wheels   *)
(* alone may vouch for it.                                                 *)
Disagrees(z) ==
  /\ LooksForPlane(z) /\ anchor /\ plane' = 0
  /\ guard' \in {0} \cup {n \in {1, Smaller(guard + 1, Cycles)} : ~correcting}
  /\ UNCHANGED <<anchor, recovered>>

MayRecover == ~recovered /\ planeSince # Never /\ command = "zero"

PlaneInconsistent(z) == Disagrees(z) /\ errors' = 0

(* A strong plane counts towards a new reference, the first one or one that *)
(* is at odds with those before starts the count.                          *)
PlaneCollected(z) ==
  /\ MayRecover /\ Disagrees(z)
  /\ errors' \in {1, Smaller(errors + 1, Agreeing)}
  /\ errors' < Agreeing \/ elapsed - planeSince < Standing

PlaneRecovered(z) ==
  /\ LooksForPlane(z) /\ anchor /\ MayRecover
  /\ errors + 1 >= Agreeing /\ elapsed - planeSince >= Standing
  /\ errors' = Agreeing /\ recovered' = TRUE
  /\ plane' = 1 /\ guard' = 0 /\ UNCHANGED anchor

SeesPlane(z) ==
  \/ PlaneUnused(z) \/ PlaneRejected(z) \/ PlaneAccepted(z)
  \/ PlaneInconsistent(z) \/ PlaneCollected(z) \/ PlaneRecovered(z)

(* heading_source, once the plane was seen *)
Source(z) ==
  IF ~LooksForPlane(z) THEN "disabled"
  ELSE IF plane' = Cycles THEN "lidar" ELSE IF guard' = Cycles THEN "guard" ELSE "none"

Takes(settles) ==
  taken' = IF settles THEN "settled" ELSE IF anchor' # anchor THEN "first"
           ELSE IF recovered' # recovered THEN "recovered" ELSE "no"

Realigns == correcting \/ recovered' # recovered

-----------------------------------------------------------------------------
(* The guide rails and the corridor *)

SeesGuide(g) ==
  guide' \in IF handoff \/ g # "good" THEN {0} ELSE {1, Smaller(guide + 1, Cycles)}

Proved(g, imu) ==
  IF handoff THEN proof
  ELSE IF g # "none" /\ plane' > 0 /\ imu /\ ~Realigns
       THEN Smaller(proof + 1, Observations) ELSE 0

GuideReady(z) == Source(z) = "lidar" /\ guide' = Cycles

(* backup paused: no plane, a rail too close, or no two stable rails *)
WaitsForPlane(z, g, imu) ==
  /\ Source(z) = "none"
  /\ planeSince' = Since(planeSince) /\ Pauses(Since(planeSince), Reacquire)
  /\ proof' = Proved(g, imu)
  /\ correcting' = Realigns /\ settled' = IF recovered' = recovered THEN settled ELSE 0
  /\ Takes(FALSE)
  /\ UNCHANGED <<guideSince, blockSince, verified, handoff>>

WaitsForGuide(z, g, imu) ==
  /\ Source(z) # "none" /\ ~handoff /\ z = "guide"
  /\ g = "tight" \/ ~GuideReady(z)
  /\ guideSince' = Since(guideSince) /\ Pauses(Since(guideSince), Reacquire)
  /\ proof' = IF g = "tight" THEN 0 ELSE Proved(g, imu)
  /\ verified' = (verified /\ g # "tight")
  /\ planeSince' = Never /\ Takes(FALSE)
  /\ UNCHANGED <<blockSince, handoff, turning>>

NotCentered(z, g, imu) ==
  /\ Source(z) # "none" /\ ~handoff /\ z # "guide" /\ ~verified
  /\ Fails /\ proof' = Proved(g, imu) /\ planeSince' = Never /\ Takes(FALSE)
  /\ UNCHANGED <<guideSince, blockSince, verified, handoff, turning>>

(* Rails and plane are good: is the robot centred, is the corridor proved? *)
Entry(z, g, imu) ==
  /\ Source(z) # "none"
  /\ proof' = Proved(g, imu)
  /\ IF handoff \/ z # "guide"
     THEN (handoff \/ verified) /\ UNCHANGED <<guideSince, verified, handoff>>
     ELSE /\ g # "tight" /\ GuideReady(z)
          /\ guideSince' = Never /\ verified' \in BOOLEAN
          /\ handoff' \in {FALSE} \cup {b \in {TRUE} : proof' = Observations /\ imu /\ ~correcting}

-----------------------------------------------------------------------------
(* Driving *)

Steers(z) == Source(z) = "lidar" /\ ~handoff'

(* _update_backup_heading_correction: a large error is corrected standing, *)
(* until the heading has settled.                                          *)
Corrects(z) ==
  IF ~correcting
  THEN correcting' \in {FALSE, Steers(z)} /\ settled' = 0 /\ Takes(FALSE)
  ELSE \E ok \in {FALSE, Steers(z)} :
         LET n == IF ok THEN settled + 1 ELSE 0
         IN  /\ correcting' = (n < Cycles) /\ settled' = IF n < Cycles THEN n ELSE 0
             /\ Takes(n >= Cycles)

Moves(z) ==
  IF correcting' THEN {"zero"} \cup {c \in {"turn"} : Steers(z)}
  ELSE {"back"} \cup {c \in {"steer"} : Source(z) \in {"lidar", "guard"} /\ ~handoff'}

Drives(z, g, imu) ==
  /\ Entry(z, g, imu) /\ planeSince' = Never
  /\ IF z = "block"
     THEN /\ blockSince' = Since(blockSince) /\ Pauses(Since(blockSince), Blocked)
          /\ Takes(FALSE) /\ UNCHANGED turning
     ELSE /\ blockSince' = Never /\ Corrects(z)
          /\ IF correcting' /\ Steers(z) /\ ~imu THEN Fails
             ELSE \E c \in Moves(z) : Goes(c)

(* A new scan, farther away than the target. *)
Approach ==
  /\ Turn /\ count' = Observe(FALSE)
  /\ \E z \in Zone, g \in Guide, imu \in BOOLEAN :
       /\ handoff => imu
       /\ SeesPlane(z) /\ SeesGuide(g)
       /\ \/ WaitsForPlane(z, g, imu) \/ WaitsForGuide(z, g, imu)
          \/ NotCentered(z, g, imu) \/ Drives(z, g, imu)
  /\ UNCHANGED waits

BackupNext ==
  \/ FeedbackLost \/ WaitForFeedback \/ GivesUp \/ TimedOut
  \/ NoScan \/ SameScan \/ AtTarget \/ Approach

BackupSpec == BackupInit /\ [][BackupNext]_backupVars

-----------------------------------------------------------------------------
(* Properties *)

(* What is decided about a standing robot is decided about one that stood: *)
(* the plane reference of the start is older than any motion, one that     *)
(* replaces it after an inconsistency is seen standing all the time ("never *)
(* rebase while driving"), a corrected heading settled before the robot    *)
(* goes on, and success is reported only after a row of scans at rest.     *)
DecidedStanding ==
  [][/\ taken' = "first" => stood = MaxStood
     /\ taken' = "recovered" => stood >= Standing
     /\ taken' = "settled" => stood >= Cycles
     /\ result' = "done" => stood >= StableScans - 1]_backupVars

(* From the proof of the corridor on the robot neither steers nor turns    *)
(* nor waits for rails or plane, whatever it was doing when the fifth      *)
(* observation came (README: no new observation, no steering afterwards).  *)
CommittedGoesStraight ==
  handoff /\ result \in {"running", "waiting"} =>
    command \in {"zero", "back"} /\ ~correcting /\ planeSince = Never /\ guideSince = Never

(* However often feedback is lost, all the waiting together stays within   *)
(* its budget and within the time of the step                              *)
(* (backup_motion_feedback_recovery_total_sec).                            *)
WaitsAreBudgeted ==
  /\ used <= AllWaits
  /\ result = "waiting" /\ handoff =>
       used + elapsed - began <= AllWaits /\ elapsed <= MotionTimeout
=============================================================================
