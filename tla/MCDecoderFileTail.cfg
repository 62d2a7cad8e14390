SPECIFICATION Spec
CONSTANTS
  Cap = 32
  Byte <- MCByte
  Word <- MCWord
  Streamed <- NoTraces
  Files <- OneFile
  ChunkSizes <- NoChunks
INVARIANT
  Converted
CHECK_DEADLOCK FALSE
