------------------------- MODULE MCChargerSession -------------------------
(* The charging session on the levels 1, 3 and 4: a full ramp step and a   *)
(* shortened one, and two proven levels below the one that is lost.        *)
EXTENDS ChargerSession
=============================================================================
