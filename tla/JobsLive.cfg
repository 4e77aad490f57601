\* Recovery and progress of a separate worker whose claim looks at one row.
SPECIFICATION FairSpec
CONSTANTS
  novelA = novelA
  novelB = novelB
  Projects = {novelA, novelB}
  Jobs = {1, 2, 3}
  ProjectOf <- RowsOfTwo
  Workers = {w1}
  ApiHost = NoWorker
  Tasks = {t1, t2}
  MaxConcurrent = 1
  ScanLimit = 1
  WaitMayTimeOut = FALSE
  SlowChapters = FALSE
  MaxRounds = 1
  MaxCommands = 3
  MaxCrashes = 1
  NoTask = NoTask
  NoJob = NoJob
  NoWorker = NoWorker
PROPERTY RunningEnds
PROPERTY QueuedIsClaimed
\* Without commands left, an idle system stops.
CHECK_DEADLOCK FALSE
