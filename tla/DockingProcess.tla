--------------------------- MODULE DockingProcess ---------------------------
(***************************************************************************)
(* The docking program from its start to its exit code (docking:           *)
(* dock_turn_backup.py with stack_manager.py).                             *)
(*                                                                         *)
(* One thread runs the phases in order; signals and the overall deadline   *)
(* may come between any two steps, and a phase may fail for reasons of its *)
(* own.  The program starts helper processes, each a leader with a member  *)
(* (ros2 launch or ros2 run and the node it started) in a group; one of    *)
(* them drives the robot as well.  On the way out every step is attempted, *)
(* whatever the ones before it raised.                                     *)
(***************************************************************************)
EXTENDS Naturals, Sequences, FiniteSets

CONSTANTS
  Managed,      \* helpers this configuration starts
  Driving,      \* those that publish velocities (the docking server)
  Development,  \* development_test_mode
  MaxFault      \* bound: steps that raise

ASSUME ConfigurationAssumption ==
  /\ Driving \subseteq Managed /\ IsFiniteSet(Managed)
  /\ Development \in BOOLEAN /\ MaxFault \in Nat

Moving == {"approach", "spin", "backup"}
Phases == <<"existing", "start", "wait", "approach", "spin", "backup", "verify">>
Default(p) == CASE p = "existing" -> "INTERNAL_ERROR"
                [] p \in {"start", "wait"} -> "SENSOR_OR_BASE_UNAVAILABLE"
                [] p \in Moving -> "DOCKING_FAILED"
                [] p = "verify" -> "CHARGING_NOT_CONFIRMED"
CleanupOnce ==                         \* mutant: one stop after the helpers ended
  <<"stop", "cancel", "stop", "interrupt", "terminate", "stop", "kill", "stop">>
Cleanup == <<"stop", "cancel", "stop", "interrupt", "terminate", "stop", "kill", "stop", "stop">>

VARIABLES
  pc,         \* "boot", a phase, "cleanup" or "exited"
  step,       \* a phase: "guard" or "act"; cleanup: how many steps are done
  signal,     \* pending_signal, and stop_signal once there is a node
  expired,    \* the overall deadline has passed
  timedOut,   \* total_timed_out
  code,       \* exit_code
  raised,     \* which kinds of cleanup steps raised
  leader,     \* helper -> "none", "up", "gone"
  member,     \* helper -> "none", "up", "gone"
  orphaned,   \* history: a member was alive without its leader at the kill
  velocity,   \* the last velocity on cmd_vel: "zero" or "moving"
  output,     \* the last charger command: "none", "on" or "off"
  sent,       \* command_sent
  confirmed,  \* the verifier's confirmed
  extra,      \* history: velocities published after a stop was asked for
  faults      \* steps that raised so far

vars == <<pc, step, signal, expired, timedOut, code, raised, orphaned, leader, member,
          velocity, output, sent, confirmed, extra, faults>>
requests == <<signal, expired, timedOut>>
errors   == <<raised, faults>>
helpers  == <<leader, member, orphaned>>
charger  == <<output, sent, confirmed>>

Requested == signal # "none" \/ expired

Init ==
  /\ pc = "boot" /\ step = 0
  /\ signal = "none" /\ expired = FALSE /\ timedOut = FALSE
  /\ code = "INTERNAL_ERROR" /\ raised = {} /\ orphaned = FALSE
  /\ leader = [h \in Managed |-> "none"] /\ member = leader
  /\ velocity = "zero" /\ output = "none" /\ sent = FALSE /\ confirmed = FALSE
  /\ extra = 0 /\ faults = 0

-----------------------------------------------------------------------------
(* Signals, the deadline, the helpers *)

(* Before the node exists the last signal counts, afterwards the first. *)
Signal(s) ==
  /\ pc # "exited"
  /\ signal' = IF pc = "boot" \/ signal = "none" THEN s ELSE signal
  /\ UNCHANGED <<pc, step, expired, timedOut, code, errors, helpers, velocity, charger, extra>>

Expire ==
  /\ pc \notin {"boot", "exited"} /\ ~expired
  /\ expired' = TRUE
  /\ UNCHANGED <<pc, step, signal, timedOut, code, errors, helpers, velocity, charger, extra>>

(* A leader or a member ends, because it was told to or by itself. *)
LeaderEnds(h) ==
  /\ leader[h] = "up" /\ leader' = [leader EXCEPT ![h] = "gone"]
  /\ UNCHANGED <<pc, step, requests, code, errors, member, orphaned, velocity, charger, extra>>
MemberEnds(h) ==
  /\ member[h] = "up" /\ member' = [member EXCEPT ![h] = "gone"]
  /\ UNCHANGED <<pc, step, requests, code, errors, leader, orphaned, velocity, charger, extra>>

HelperDrives ==
  /\ \E h \in Driving : member[h] = "up"
  /\ velocity' = "moving"
  /\ UNCHANGED <<pc, step, requests, code, errors, helpers, charger, extra>>

-----------------------------------------------------------------------------
(* run() *)

Leave(c) == pc' = "cleanup" /\ step' = 0 /\ code' = c

NextPhase(p) == Phases[(CHOOSE i \in DOMAIN Phases : Phases[i] = p) + 1]
Enter(p) == pc' = p /\ step' = 0 /\ UNCHANGED code

(* The constructor; without a node there is nothing to clean up. *)
Boot ==
  /\ pc = "boot"
  /\ \/ Enter("existing") /\ UNCHANGED errors
     \/ /\ faults < MaxFault /\ faults' = faults + 1
        /\ pc' = "exited" /\ UNCHANGED <<step, code, raised>>
  /\ UNCHANGED <<requests, helpers, velocity, charger, extra>>

(* _failure_code: the deadline before the signal before the phase's own. *)
FailureCode(p, late) ==
  IF late THEN "TIMEOUT" ELSE IF signal # "none" THEN signal ELSE Default(p)

UnguardedPhase(p) ==                   \* mutant: the phase does not look at should_stop
  /\ pc = p /\ step = 0 /\ step' = 1
  /\ UNCHANGED <<pc, requests, code, errors, helpers, velocity, charger, extra>>

(* A phase that drives publishes zero velocities at its end. *)
EndMotion(p) == velocity' = IF p \in Moving THEN "zero" ELSE velocity

(* The loop condition of a phase: should_stop, or another turn. *)
GuardPhase(p) ==
  /\ pc = p /\ step = 0
  /\ timedOut' = (timedOut \/ (signal = "none" /\ expired))
  /\ IF Requested THEN Leave(FailureCode(p, timedOut')) /\ EndMotion(p)
     ELSE step' = 1 /\ UNCHANGED <<pc, code, velocity>>
  /\ UNCHANGED <<signal, expired, errors, helpers, charger, extra>>

(* The phase fails for a reason of its own, or raises. *)
PhaseFails(p) ==
  /\ pc = p /\ step = 1
  /\ \/ p # "existing" /\ Leave(FailureCode(p, timedOut)) /\ EndMotion(p) /\ UNCHANGED faults
     \/ /\ Leave("INTERNAL_ERROR") /\ UNCHANGED velocity
        /\ faults < MaxFault /\ faults' = faults + 1
  /\ UNCHANGED <<requests, raised, helpers, charger, extra>>

MoveOn(p) ==                           \* mutant: publishes again without a guard
  /\ pc = p /\ p \in Moving /\ step = 1
  /\ velocity' \in {"zero", "moving"}
  /\ extra' = IF Requested /\ velocity' = "moving" THEN extra + 1 ELSE extra
  /\ UNCHANGED <<pc, step, requests, code, errors, helpers, charger>>

(* Motion publishes once a turn, in the turn its guard was passed. *)
Move(p) ==
  /\ pc = p /\ p \in Moving /\ step = 1 /\ step' = 0
  /\ velocity' \in {"zero", "moving"}
  /\ extra' = IF Requested /\ velocity' = "moving" THEN extra + 1 ELSE extra
  /\ UNCHANGED <<pc, requests, code, errors, helpers, charger>>

(* A wait takes another turn; start() launches one helper after another. *)
Wait(p) ==
  /\ pc = p /\ p \in {"existing", "wait"} /\ step = 1 /\ step' = 0
  /\ UNCHANGED <<pc, requests, code, errors, helpers, velocity, charger, extra>>

Launch ==
  /\ pc = "start" /\ step = 1 /\ step' = 0
  /\ \E h \in Managed : /\ leader[h] = "none"
                        /\ leader' = [leader EXCEPT ![h] = "up"]
                        /\ member' = [member EXCEPT ![h] = "up"]
  /\ UNCHANGED <<pc, requests, code, errors, orphaned, velocity, charger, extra>>

(* Publishing ON needs the contact; ChargingVerifier has the conditions. *)
CommandOn ==
  /\ pc = "verify" /\ step = 1 /\ step' = 0
  /\ output' \in {output, "on"} /\ sent' = (sent \/ output' = "on")
  /\ UNCHANGED <<pc, requests, code, errors, helpers, velocity, confirmed, extra>>

(* A phase succeeds. *)
Succeed(p) ==
  /\ pc = p /\ step = 1
  /\ p = "start" => \A h \in Managed : leader[h] = "up"
  /\ EndMotion(p)
  /\ IF p = "verify" THEN confirmed' = TRUE /\ Leave("SUCCESS")
     ELSE UNCHANGED confirmed /\ IF p = "backup" /\ Development THEN Leave("SUCCESS")
                                 ELSE Enter(NextPhase(p))
  /\ UNCHANGED <<requests, errors, helpers, output, sent, extra>>

(* The robot stands in the dock and charges already. *)
AlreadyCharging ==
  /\ pc = "existing" /\ step = 1
  /\ confirmed' = TRUE /\ Leave("SUCCESS")
  /\ UNCHANGED <<requests, errors, helpers, velocity, output, sent, extra>>

-----------------------------------------------------------------------------
(* cleanup_managed_processes and ManagedStack.cleanup *)

At(name) == pc = "cleanup" /\ step < Len(Cleanup) /\ Cleanup[step + 1] = name
(* An error is kept; the next step is attempted all the same. *)
Raise(kind) == faults < MaxFault /\ faults' = faults + 1 /\ raised' = raised \cup {kind}
Works == UNCHANGED <<raised, faults>>

StopOnce ==                            \* mutant: the first error ends the clean-up
  /\ At("stop")
  /\ \/ velocity' = "zero" /\ step' = step + 1 /\ Works
     \/ Raise("stop") /\ step' = Len(Cleanup) /\ UNCHANGED velocity
  /\ UNCHANGED <<pc, requests, code, helpers, charger, extra>>

(* stop_robot: zero velocities, from the program and from the stack's own  *)
(* clean-up, before, between and after its signals.                        *)
StopRobot ==
  /\ At("stop") /\ step' = step + 1
  /\ \/ velocity' = "zero" /\ Works
     \/ Raise("stop") /\ UNCHANGED velocity
  /\ UNCHANGED <<pc, requests, code, helpers, charger, extra>>

CancelAny ==                           \* mutant: switches off a confirmed charge
  /\ At("cancel") /\ step' = step + 1
  /\ IF sent
     THEN \/ output' = "off" /\ Works
          \/ Raise("cancel") /\ output' \in {output, "off"}
     ELSE UNCHANGED output /\ Works
  /\ UNCHANGED <<pc, requests, code, helpers, velocity, sent, confirmed, extra>>

(* cancel_unconfirmed_charging *)
Cancel ==
  /\ At("cancel") /\ step' = step + 1
  /\ IF sent /\ ~confirmed
     THEN \/ output' = "off" /\ Works
          \/ Raise("cancel") /\ output' \in {output, "off"}
     ELSE UNCHANGED output /\ Works
  /\ UNCHANGED <<pc, requests, code, helpers, velocity, sent, confirmed, extra>>

(* SIGINT, five seconds, SIGTERM: helpers end or do not, as they like. *)
AskHelpers ==
  /\ At("interrupt") \/ At("terminate")
  /\ step' = step + 1
  /\ UNCHANGED <<pc, requests, code, errors, helpers, velocity, charger, extra>>

(* Two seconds, then SIGKILL to the group of every leader that still lives. *)
Kill ==
  /\ At("kill") /\ step' = step + 1
  /\ leader' = [h \in Managed |-> IF leader[h] = "up" THEN "gone" ELSE leader[h]]
  /\ member' = [h \in Managed |-> IF leader[h] = "up" /\ member[h] = "up"
                                  THEN "gone" ELSE member[h]]
  /\ orphaned' = \E h \in Managed : leader[h] = "gone" /\ member[h] = "up"
  /\ UNCHANGED <<pc, requests, code, errors, velocity, charger, extra>>

ExitQuietly ==                         \* mutant: errors of the clean-up leave the code alone
  /\ pc = "cleanup" /\ step = Len(Cleanup)
  /\ pc' = "exited"
  /\ UNCHANGED <<step, requests, code, errors, helpers, velocity, charger, extra>>

(* A clean-up that raised takes the success away; the lock is released. *)
Exit ==
  /\ pc = "cleanup" /\ step = Len(Cleanup)
  /\ pc' = "exited"
  /\ code' = IF raised # {} /\ code = "SUCCESS" THEN "INTERNAL_ERROR" ELSE code
  /\ UNCHANGED <<step, requests, errors, helpers, velocity, charger, extra>>

Running(p) == GuardPhase(p) \/ PhaseFails(p) \/ Move(p) \/ Wait(p) \/ Succeed(p)
Program ==
  \/ Boot \/ Launch \/ CommandOn \/ AlreadyCharging \/ \E p \in {Phases[i] : i \in DOMAIN Phases} : Running(p)
  \/ StopRobot \/ Cancel \/ AskHelpers \/ Kill \/ Exit
Environment ==
  \/ \E s \in {"SIGINT", "SIGTERM", "SIGHUP"} : Signal(s)
  \/ Expire \/ HelperDrives \/ \E h \in Managed : LeaderEnds(h) \/ MemberEnds(h)

Next == Program \/ Environment
Spec == Init /\ [][Next]_vars

(* The program's thread runs, and the overall deadline passes. *)
FairSpec == Spec /\ WF_vars(Program) /\ WF_vars(Expire)

-----------------------------------------------------------------------------
(* Properties *)

Codes == {"SUCCESS", "INTERNAL_ERROR", "TIMEOUT", "SIGINT", "SIGTERM", "SIGHUP"}
         \cup {Default(Phases[i]) : i \in DOMAIN Phases}

(* The exit code is one the README lists, at every moment.                 *)
TypeOK ==
  /\ pc \in {"boot", "cleanup", "exited"} \cup {Phases[i] : i \in DOMAIN Phases}
  /\ step \in 0 .. Len(Cleanup)
  /\ signal \in {"none", "SIGINT", "SIGTERM", "SIGHUP"}
  /\ expired \in BOOLEAN /\ timedOut \in BOOLEAN /\ code \in Codes
  /\ raised \subseteq {"stop", "cancel"} /\ orphaned \in BOOLEAN /\ faults \in 0 .. MaxFault
  /\ leader \in [Managed -> {"none", "up", "gone"}]
  /\ member \in [Managed -> {"none", "up", "gone"}]
  /\ velocity \in {"zero", "moving"} /\ output \in {"none", "on", "off"}
  /\ sent \in BOOLEAN /\ confirmed \in BOOLEAN
  /\ extra \in Nat

(* Exit code 0 means what the README's table says: charging was confirmed  *)
(* or the test distance was reached; and the robot stands, unless a helper *)
(* that had lost its leader kept driving it.                               *)
SuccessIsTrue ==
  pc = "exited" /\ code = "SUCCESS" =>
    (confirmed \/ Development) /\ (orphaned \/ velocity = "zero")

(* Whatever ends the run, one clean-up step that raises leaves no motion:  *)
(* a later stop repeats the one that failed, after the last driver died.   *)
OneErrorStillStops ==
  pc = "exited" /\ faults <= 1 /\ ~orphaned => velocity = "zero"

(* Whatever ends the run and whichever stop raises, a charger that this    *)
(* run switched on is told to switch off unless the charge was confirmed,  *)
(* and a confirmed charge is never switched off.                           *)
OutputFollowsVerdict ==
  pc = "exited" /\ "cancel" \notin raised =>
    (output = "on" => confirmed) /\ (output = "off" => ~confirmed)

(* After a signal or the overall deadline the program publishes at most    *)
(* the one velocity whose guard it had passed already.                     *)
StopIsPrompt == extra <= 1

(* "Finishes sending zero velocity and cleaning up its own children, then  *)
(* exits": no process that this run started is left.                       *)
NoChildOutlivesRun == pc = "exited" => \A h \in Managed : member[h] # "up"

(* Once the overall deadline or a signal asks for it, the run ends. *)
RunEnds == Requested ~> pc = "exited"
=============================================================================
