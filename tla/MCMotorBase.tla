---------------------------- MODULE MCMotorBase ----------------------------
(* The instance of MotorBase for TLC: the left wheel turns over the wrap   *)
(* of its counter, the right one stands.                                   *)
EXTENDS MotorBase

LeftWheel == {"left"}
=============================================================================
