CONSTANTS
  Disks <- MCDisks
  SectorBytes = 1
  MaxDepth = 3
  Radix = 2
  Heads = 4
  Base = 4
  Limit = 84
  Request = {12}
  MaxBlocks = 11
  Elf <- MCElf
  Zero <- MCZero
  MaxAddress = 31
  Page = 8
  ProcessSize = 6
  StackSize = 16
  SpaceSize = 2
  TableSize = 8
  MaxOthers = 2
SPECIFICATION ProgramsSpec
INVARIANTS ProgramsTypeOK RightSectors NothingInvented Mirrors ImageFromDisk WholeProcess
PROPERTY BootEnds
CHECK_DEADLOCK FALSE
