SPECIFICATION Spec
CONSTANTS
  PageSize = 2
  MaxRegions = 3
  LowTop = 4
  KStart = 8
  KEnd = 13
  MaxAlloc = 3
  Infos <- MCInfos
INVARIANTS TypeOK NoDoubleUse Accounted
