SPECIFICATION FairSpec
CONSTANTS
  r1 = r1
  r2 = r2
  r3 = r3
  r4 = r4
  QueueSize = 2
  Requests <- FourRequests
  IdleEnabled = TRUE
INVARIANTS
  NothingLostOrReordered
  DrainCoversAccepted
  IdleTimerRuns
  StateMatchesWork
PROPERTIES
  ServiceFair
CHECK_DEADLOCK FALSE
