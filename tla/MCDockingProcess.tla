-------------------------- MODULE MCDockingProcess --------------------------
(* Instances of DockingProcess for TLC: the tag pipeline, which does not   *)
(* drive, and the docking server, which does.                              *)
EXTENDS DockingProcess

TwoHelpers == {"apriltag", "server"}
OneHelper  == {"apriltag"}
Server     == {"server"}
Nobody     == {}
=============================================================================
