SPECIFICATION YieldSpec
CONSTANTS
  MaxPid = 4
  TickQuantum = 2
INVARIANTS ListsSound CurrentRuns
PROPERTIES ResumesSaved BehindRuns
