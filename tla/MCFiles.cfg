CONSTANTS
  Name <- MCName
  BootPath <- MCBootPath
  Path <- MCPath
  MaxNode = 4
  MaxSize = 3
  Size = {0, 3}
  Process = {p1}
  MaxFd = 3
  Chunk = 2
  MaxLen = 2
  MaxReads = 3
SPECIFICATION Spec
INVARIANTS TypeOK TreeSound RoundTrip PwdLeadsBack ReadsInOrder
PROPERTIES StableResolution CatPrints
