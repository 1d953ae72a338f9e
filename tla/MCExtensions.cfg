SPECIFICATION Spec
CONSTANTS
  main = main
  helper = helper
  review = review
  search = search
  ours = "ours"
  theirs = "theirs"
  Agents <- TwoAgents
  Skills <- SkillsOf
  Content <- ContentOf
  Servers <- ServersOf
  None = "none"
  MaxApplies = 3
  MaxMoves = 2
  MaxDeaths = 1
INVARIANTS
  AppliedIsThere
PROPERTY
  CopiesKept
CHECK_DEADLOCK FALSE
