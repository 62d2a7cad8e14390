SPECIFICATION TSpec
CONSTANTS
  HeapIds <- TwoHeaps
  Busy <- TheOther
  Pointers <- ThreeBytes
  Sizes <- UpTo3
  Times <- NowAndLater
  Word = 64
  IntLimit = 1
  Garbage <- SomeGarbage
  MaxBacking = 1
  MaxOutside = 1
INVARIANTS
  UsedIsLive
  CoresAreKnown
  LiveIsRecorded
  PeaksCover
  CurveIsCurrent
  NoUnknownHeap
CHECK_DEADLOCK FALSE
