SPECIFICATION StepsSpec
CONSTANTS
  Existing = 1
  Timeout = 5
  Stable = 3
  MaxAge = 2
  Period = 2
  MaxTime = 9
  MotionTimeout = 9
  Reacquire = 3
  Blocked = 2
  PerWait = 3
  AllWaits = 4
  SettledSamples = 2
  Cycles = 2
  StableScans = 2
  Observations = 3
  Agreeing = 3
  Standing = 2
  MaxStood = 4
CHECK_DEADLOCK FALSE
INVARIANT WindowIsClean
PROPERTY ConfirmedIsStable
PROPERTY DecidedStanding
INVARIANT CommittedGoesStraight
INVARIANT WaitsAreBudgeted
