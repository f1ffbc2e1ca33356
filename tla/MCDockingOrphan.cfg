SPECIFICATION Spec
CONSTANTS
  Managed <- OneHelper
  Driving <- Nobody
  Development = TRUE
  MaxFault = 0
CHECK_DEADLOCK FALSE
INVARIANT NoChildOutlivesRun
