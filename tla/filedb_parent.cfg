SPECIFICATION Spec
CONSTANTS
  w1 = w1
  w2 = w2
  small = small
  large = large
  Worker <- MCWorker
  Content <- MCContent
  Size <- MCSize
  Capacity = 2
  MaxRequests = 4
  MaxDepth = 3
SYMMETRY WorkerSymmetry
INVARIANTS
  NeverOwnParent
CHECK_DEADLOCK FALSE
