SPECIFICATION FairSpec
CONSTANTS
  m1 = m1
  m2 = m2
  q1 = q1
  q2 = q2
  NoMission = NoMission
  NoRequest = NoRequest
  Mission <- TwoMissions
  Request <- OneRequest
  MaxRun = 3
  MaxCaptures = 1
  MaxFault = 2
  LegacyTopics = FALSE
CHECK_DEADLOCK FALSE
INVARIANT ReadyMeansCompleted
INVARIANT OneRunPerMission
PROPERTY LedgerSpec
PROPERTY FinishEventuallyReady
PROPERTY CaptureEnds
