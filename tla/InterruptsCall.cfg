CONSTANTS
  MaxPid = 1
  TickQuantum = 2
SPECIFICATION Spec
INVARIANT CallArrives
CHECK_DEADLOCK FALSE
