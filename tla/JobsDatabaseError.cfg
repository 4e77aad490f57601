\* A chapter fails with a database error.
SPECIFICATION FairSpec
CONSTANTS
  novelA = novelA
  novelB = novelB
  Projects = {novelA}
  Jobs = {1, 2}
  ProjectOf <- RowsOfOne
  Workers = {api}
  ApiHost = api
  Tasks = {t1, t2}
  MaxConcurrent = 1
  ScanLimit = 2
  WaitMayTimeOut = FALSE
  SlowChapters = FALSE
  MaxRounds = 2
  MaxCommands = 1
  MaxCrashes = 0
  NoTask = NoTask
  NoJob = NoJob
  NoWorker = NoWorker
PROPERTY GeneratingHasJob
\* Without commands left, an idle system stops.
CHECK_DEADLOCK FALSE
