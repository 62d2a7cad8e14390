SPECIFICATION HeaderSpec
CONSTANTS
  HeapIds <- OneHeap
  Busy <- OneHeap
  Pointers <- ThreeBytes
  Sizes <- UpTo3
  Times <- NowAndLater
  Word = 64
  IntLimit = 1
  Garbage <- SomeGarbage
  MaxBacking = 1
  MaxOutside = 1
INVARIANT
  CoresAreKnown
CHECK_DEADLOCK FALSE
