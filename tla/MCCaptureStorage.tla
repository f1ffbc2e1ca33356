-------------------------- MODULE MCCaptureStorage --------------------------
(* Small instances of CaptureStorage for TLC. *)
EXTENDS CaptureStorage, TLC

CONSTANTS m1, m2, q1, q2

TwoMissions == {m1, m2}
OneMission  == {m1}
TwoRequests == {q1, q2}
OneRequest  == {q1}

SameRequests == Permutations(TwoRequests)
SameMissions == Permutations(TwoMissions)

=============================================================================
