SPECIFICATION FairSpec
CONSTANTS
  Cap = 4
  Device = {kbd, mouse}
  DeviceEvent = {key}
  TickEvent = tick
  Quantum = 2
  Pit = pit
  None = none
INVARIANT CopyStable
PROPERTIES ImplementsFifo Delivered
