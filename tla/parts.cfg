SPECIFICATION Spec
CONSTANTS
  u1 = u1  u2 = u2  v1 = v1  v2 = v2  x1 = x1  x2 = x2  x3 = x3
  WTails = {0, 1, 7}  WBufferSize = 8192
  FBodies <- MCBodies  FReadSize = 4  FBufSize = 3  FSplit = FALSE
  TFd = {1, 2, 3, 4}  TTimeout = 2  TMaxNow = 2
  BServers <- MCPair  BFds <- MCTriple  BMaxLoad = 1  BMaxUnread = 2  BMaxWaiting = 1
  AConns <- MCPair  AWorkers <- MCPair  ANames <- MCOther  APwds <- MCOther  AMaxClicks = 3
  LThreads <- MCPair  LMaxSeq = 5  LCapacity = 2  LMaxLines = 2  LDays = 2
  PThreads = 4  PLoops = 2  PConns = 3  PBuffers <- MCTriple  PExpiry = 1  PMaxNow = 2
  RFds = {5, 6, 7, 8}  RSubs = 2  RMaxFd = 3  RMaxBacklog = 2
SYMMETRY PartSymmetry
INVARIANTS
  PartsTypeOK
  WReadBack WLengthHonest
  FInOrder FNothingLeft
  TFrontEarliest TDeadlineIsOwn
  BListsTheConnected
  AOneOwner AServedAs
  LOnce LOrder
  PSomeoneMoves POneOwner
  RDrained RCountHonest RLimit
PROPERTIES BPromiseKept PFreedIdle
CHECK_DEADLOCK FALSE
