SPECIFICATION Spec
CONSTANTS
  NChunks = 1
  ChunkSize = 2
  LastSize = 1
  w1 = w1
  w2 = w2
  Worker <- MCWorker
  Sender = {1, 2}
  MaxPauses = 0
INVARIANT PriorFileKept
CHECK_DEADLOCK FALSE
