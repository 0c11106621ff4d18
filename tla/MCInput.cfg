CONSTANTS
  KeyBytes <- MCKeyBytes
  Moves <- MCMoves
  FirstConfigs = {69, 101}
  LineMax = 1
  MaxPending = 2
  MaxKeys = 3
  MaxHard = 1
  MaxLost = 1
SPECIFICATION Spec
INVARIANTS TypeOK OwnBytes InStep KeysInOrder
PROPERTIES Resynchronizes Heard
CHECK_DEADLOCK FALSE
