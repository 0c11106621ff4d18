CONSTANTS
  Base = 4
  Limit = 44
  Request = {1, 8, 12, 30}
  MaxBlocks = 4
SPECIFICATION Spec
INVARIANT NodesKept
CHECK_DEADLOCK FALSE
