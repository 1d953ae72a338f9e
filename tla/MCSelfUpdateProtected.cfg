SPECIFICATION QuietSpec
CONSTANTS
  core = core
  guard = guard
  extra = extra
  v1 = v1
  v2 = v2
  gone = gone
  Paths <- AllPaths
  Protected <- ProtectedPaths
  Contents <- Versions
  Absent <- gone
  Origin <- FirstTree
  AutoPush = TRUE
  MaxEdits = 3
  MaxUpdates = 2
INVARIANT
  ProtectedNeverCommitted
CHECK_DEADLOCK FALSE
