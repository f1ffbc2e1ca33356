SPECIFICATION FairSpec
CONSTANTS
  Managed <- TwoHelpers
  Driving <- Server
  Development = FALSE
  MaxFault = 2
CHECK_DEADLOCK FALSE
INVARIANT SuccessIsTrue
INVARIANT OutputFollowsVerdict
INVARIANT StopIsPrompt
INVARIANT OneErrorStillStops
PROPERTY RunEnds
