SPECIFICATION Spec
CONSTANTS
  Requests = 2
  MaxStream = 1
  MaxStarts = 1
INVARIANT
  YieldsAllEvents
CHECK_DEADLOCK FALSE
