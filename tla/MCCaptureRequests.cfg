SPECIFICATION Spec
CONSTANTS
  m1 = m1
  m2 = m2
  q1 = q1
  q2 = q2
  NoMission = NoMission
  NoRequest = NoRequest
  Mission <- OneMission
  Request <- TwoRequests
  MaxRun = 1
  MaxCaptures = 3
  MaxFault = 3
  LegacyTopics = TRUE
CHECK_DEADLOCK FALSE
SYMMETRY SameRequests
INVARIANT AcksAreDurable
INVARIANT NoDuplicateRequest
INVARIANT ShootsIntoFreeSlot
INVARIANT RecordsHavePhotos
INVARIANT CaptureKeepsItsRun
PROPERTY ReadyRunFrozen
