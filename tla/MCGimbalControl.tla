--------------------------- MODULE MCGimbalControl ---------------------------
(* Two cameras, one of which is centred while the other one moves. *)
EXTENDS GimbalControl

LeftFirst == <<"left", "right">>
=============================================================================
