SPECIFICATION TSpec
CONSTANTS TFd = {1, 2, 3}  TTimeout = 2  TMaxNow = 3
INVARIANT TTickReturns
CHECK_DEADLOCK FALSE
