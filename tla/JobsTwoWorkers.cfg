\* Two workers and a rewrite.
SPECIFICATION Spec
CONSTANTS
  novelA = novelA
  novelB = novelB
  Projects = {novelA}
  Jobs = {1, 2}
  ProjectOf <- RowsOfOne
  Workers = {w1, w2}
  ApiHost = NoWorker
  Tasks = {t1, t2, t3}
  MaxConcurrent = 1
  ScanLimit = 2
  WaitMayTimeOut = FALSE
  SlowChapters = FALSE
  MaxRounds = 2
  MaxCommands = 3
  MaxCrashes = 0
  NoTask = NoTask
  NoJob = NoJob
  NoWorker = NoWorker
INVARIANT SingleWriter
\* Without commands left, an idle system stops.
CHECK_DEADLOCK FALSE
