SPECIFICATION FSpec
CONSTANTS FBodies <- MCBodies  FReadSize = 4  FBufSize = 3  FSplit = TRUE
INVARIANT FInOrder
CHECK_DEADLOCK FALSE
