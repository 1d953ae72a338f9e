SPECIFICATION FairSpec
CONSTANTS
  Requests = 2
  MaxStream = 1
  MaxStarts = 2
INVARIANTS
  TypeOK
  EventsOnceInOrder
  AnswerIsOwn
  NoOrphanProcess
PROPERTIES
  ResumesLatest
  EverySendEnds
CHECK_DEADLOCK FALSE
