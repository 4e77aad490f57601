\* Two novels contend for the one slot of a separate worker.
SPECIFICATION Spec
CONSTANTS
  novelA = novelA
  novelB = novelB
  Projects = {novelA, novelB}
  Jobs = {1, 3}
  ProjectOf <- RowsOfTwo
  Workers = {w1}
  ApiHost = NoWorker
  Tasks = {t1, t2, t3}
  MaxConcurrent = 1
  ScanLimit = 2
  WaitMayTimeOut = FALSE
  SlowChapters = TRUE
  MaxRounds = 1
  MaxCommands = 3
  MaxCrashes = 1
  NoTask = NoTask
  NoJob = NoJob
  NoWorker = NoWorker
SYMMETRY TaskSymmetry
INVARIANT ConcurrencyBounded
PROPERTY OrphanSparesLive
\* Without commands left, an idle system stops.
CHECK_DEADLOCK FALSE
