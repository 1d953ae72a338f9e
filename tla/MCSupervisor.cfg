SPECIFICATION FairSpec
CONSTANTS
  MaxRestarts = 2
  Window = 2
  MaxTime = 4
INVARIANTS
  RestartRateBounded
  RunningChildIsWatched
PROPERTIES
  ShutdownCompletes
  ChildComesBack
  RestartRequestHonoured
