\* One block, one start, one stop.
CONSTANTS
  MaxBlock = 1
  MaxStarts = 1
  MaxPending = 2
SPECIFICATION Spec
CHECK_DEADLOCK FALSE
PROPERTY StopEnds
