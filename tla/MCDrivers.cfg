\* Four independent drivers; each bound is the smallest at which its module's cases happen.
SPECIFICATION DriversSpec
CONSTANTS
  MaxClock = 5
  ImuTimeout = 1
  HistoryDuration = 2
  MaxInterval = 1
  MaxSpeed = 1
  MaxDelay = 2
  Blackout = 2
  MaxPending = 1
  MaxFault = 1
  MaxPacket = 9
  Camera = {"left", "right"}
  CameraOrder <- LeftFirst
  Timeout = 1
  StepDuration = 1
  AckTimeout = 1
  Retries = 2
  StartDelay = 1
  Settle = 1
  MaxTime = 9
  MaxEvents = 2
  Samples = 2
  Capacity = 2
  MaxPosition = 4
  MaxStarts = 2
  MaxSent = 2
  MaxLine = 2
  Late = FALSE
INVARIANT PoseIsTravel
PROPERTY OrientationIsOfItsTime
PROPERTY NothingRepeated
INVARIANT MovesUnderWatch
INVARIANT AnglesWereSet
PROPERTY ScanIsNew
PROPERTY ScanIsOneRevolution
\* Clocks, packets and messages are used up, and every driver may end.
CHECK_DEADLOCK FALSE
