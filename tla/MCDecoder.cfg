SPECIFICATION Spec
CONSTANTS
  Cap = 27
  Byte <- MCByte
  Word <- MCWord
  Streamed <- Sessions
  Files <- SmallFiles
  ChunkSizes <- LiveChunks
INVARIANTS
  DeliveredInOrder
  NothingWaits
  RollbackIsFresh
  AtEventBoundary
  LeftoverIsSmall
  StreamEndIsLast
  Converted
PROPERTY
  CallReturns
CHECK_DEADLOCK FALSE
