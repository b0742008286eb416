SPECIFICATION FairSpec
CONSTANTS
  NChunks = 1
  ChunkSize = 2
  LastSize = 1
  w1 = w1
  w2 = w2
  Worker <- MCWorker
  Sender = {1, 2}
  MaxPauses = 1
PROPERTIES
  PauseHolds
  EveryUploadEnds
CHECK_DEADLOCK FALSE
