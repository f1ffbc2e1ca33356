---------------------------- MODULE MCDockingSteps ----------------------------
(* Two steps of the docking program for TLC, the drive backwards and the   *)
(* charging verifier.  The program runs one after the other and they share *)
(* no state: a behaviour is one of a single step.                          *)
EXTENDS ChargingVerifier, LidarBackup

VARIABLE step   \* the one that runs

StepsInit == step \in {"backup", "verify"} /\ Init /\ BackupInit

BackupRuns == step = "backup" /\ BackupNext /\ UNCHANGED <<step, vars>>
VerifyRuns == step = "verify" /\ Next /\ UNCHANGED <<step, backupVars>>

StepsNext == BackupRuns \/ VerifyRuns

StepsSpec == StepsInit /\ [][StepsNext]_<<step, vars, backupVars>>
=============================================================================
