SPECIFICATION Spec
CONSTANTS
  m1 = m1
  m2 = m2
  q1 = q1
  q2 = q2
  NoMission = NoMission
  NoRequest = NoRequest
  Mission <- OneMission
  Request <- OneRequest
  MaxRun = 1
  MaxCaptures = 1
  MaxFault = 3
  LegacyTopics = FALSE
CHECK_DEADLOCK FALSE
INVARIANT AbortedRunHasNoReady
