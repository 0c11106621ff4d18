SPECIFICATION ExitSpec
CONSTANTS
  MaxPid = 2
  TickQuantum = 2
PROPERTIES ExecReports
