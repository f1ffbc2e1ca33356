SPECIFICATION FairSpec
CONSTANTS
  Half = 2
  FirstCount = 1
  MaxCommand = 2
  Turning <- LeftWheel
  MaxTravel = 1
INVARIANT SkipIsSafe
INVARIANT NoMotionUncommanded
INVARIANT QuietAfterExit
INVARIANT PublishedIsTrue
PROPERTY StaleIsStopped
PROPERTY EndingEnds
