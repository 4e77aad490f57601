\* The API with its worker, one novel, slow chapters and waits that time out.
SPECIFICATION Spec
CONSTANTS
  novelA = novelA
  novelB = novelB
  Projects = {novelA}
  Jobs = {1, 2}
  ProjectOf <- RowsOfOne
  Workers = {api}
  ApiHost = api
  Tasks = {t1, t2, t3}
  MaxConcurrent = 2
  ScanLimit = 2
  WaitMayTimeOut = TRUE
  SlowChapters = TRUE
  MaxRounds = 2
  MaxCommands = 3
  MaxCrashes = 1
  NoTask = NoTask
  NoJob = NoJob
  NoWorker = NoWorker
SYMMETRY TaskSymmetry
INVARIANT TypeOK
INVARIANT SingleWriter
PROPERTY OrphanSparesLive
PROPERTY CompletedNotRedone
\* Without commands left, an idle system stops.
CHECK_DEADLOCK FALSE
