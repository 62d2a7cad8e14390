SPECIFICATION Spec
CONSTANTS
  Cap = 3
  Byte <- MCByte
  MaxBytes = 6
  MaxChunk = 4
  MaxRollbacks = 2
INVARIANTS
  TypeOK
  WindowIntact
  RollbacksIntact
PROPERTY
  ImplementsByteStream
