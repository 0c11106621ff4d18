CONSTANTS
  MaxPid = 2
  TickQuantum = 2
SPECIFICATION Spec
INVARIANT EoiMatches
PROPERTIES ImplementsScheduler Served
CHECK_DEADLOCK FALSE
