SPECIFICATION TableSpec
CONSTANTS
  w1 = w1
  w2 = w2
  small = small
  large = large
  Worker <- MCWorker
  Content <- MCContent
  Size <- MCSize
  Capacity = 2
  MaxRequests = 5
  MaxDepth = 3
  SMaxId = 3
  SWorkers <- MCWorker
  SMaxClicks = 4
SYMMETRY WorkerSymmetry
INVARIANTS
  TableTypeOK
  NeverUndercharged
  SNotStuck
  SViewIsTable
CHECK_DEADLOCK FALSE
