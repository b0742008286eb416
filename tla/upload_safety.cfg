SPECIFICATION Spec
CONSTANTS
  NChunks = 2
  ChunkSize = 2
  LastSize = 1
  w1 = w1
  w2 = w2
  Worker <- MCWorker
  Sender = {1, 2}
  MaxPauses = 0
SYMMETRY WorkerSymmetry
INVARIANTS
  TypeOK
  InsertOnce
  ProgressHonest
  AckedIsWritten
  SuccessMeansStored
  RowHasFile
  CrashOnlyAfterClose
PROPERTIES
  ClosedStaysUnfinished
  PromiseKept
CHECK_DEADLOCK FALSE
