SPECIFICATION FairSpec
CONSTANTS
  Ids = {a, b}
  MaxTaps = 3
  MaxDeaths = 1
INVARIANTS
  DecidedOnce
  MessageShowsResult
  AnswerMeansDecision
PROPERTY
  TapDecides
CHECK_DEADLOCK FALSE
