SPECIFICATION BotSpec
CONSTANTS
  main = main
  helper = helper
  x = x
  newline = newline
  NL <- newline
  nobody = nobody
  none = none
  Agents <- TwoAgents
  DefaultName <- main
  NoPrefix <- none
  Addressed <- AllPrefixes
  MaxLen = 2
  QueueSize = 1
  Texts <- SomeTexts
  MaxMessages = 2
INVARIANTS
  BotTypeOK
  AnswerWhole
  StatusRemoved
CHECK_DEADLOCK FALSE
