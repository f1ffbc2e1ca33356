\* No command is lost or refused here; a centring that nobody acknowledges
\* takes two attempts of two periods each.
SPECIFICATION Spec
CONSTANTS
  Camera = {"left", "right"}
  CameraOrder <- LeftFirst
  Timeout = 1
  StepDuration = 1
  AckTimeout = 2
  Retries = 2
  StartDelay = 1
  Settle = 1
  MaxTime = 6
  MaxEvents = 2
INVARIANT StopsByItself
\* The node may end.
CHECK_DEADLOCK FALSE
