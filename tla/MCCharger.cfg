SPECIFICATION FairSpec
CONSTANTS
  Start = 1
  Step = 2
  Target = 4
  FAIL_THRESHOLD = 2
  LOW_CURRENT_MAX_COUNT = 2
  GOOD_CURRENT_MIN_COUNT = 2
INVARIANT SessionIsSound
PROPERTY RaiseIsProven
PROPERTY OnIsVerified
PROPERTY LatchNeedsOff
PROPERTY LossLowersCeiling
PROPERTY OrphanOutputGoesOff
