SPECIFICATION FairSpec
CONSTANTS
  bot = bot
  tool = tool
  default = default
  helper = helper
  main = main
  Callers <- TwoLoops
  Names <- TwoNames
  DefaultName <- default
  MaxSpawns = 3
INVARIANTS
  NoOrphan
  InboxMatches
  SendsOnOpenChannels
  SubmitReachesLive
  ShutdownRemovesAll
PROPERTIES
  ShutdownCompletes
CHECK_DEADLOCK FALSE
