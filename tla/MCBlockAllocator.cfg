SPECIFICATION DemoSpec
CONSTANTS
  ElemSize <- TwoSizes
  ElemCount <- TwoCounts
  Ranges <- Somewhere
  MaxTrace = 2
  MaxLost = 2
  HeapIds <- TwoHeaps
  Pointers <- SevenBytes
  Sizes <- UpTo4
  Times <- Now
  Word = 64
  IntLimit = 32
  Garbage <- NoGarbage
  MaxBacking = 0
INVARIANTS
  FreeListIntact
  CaughtUp
PROPERTY
  UsesTraceProperly
CHECK_DEADLOCK FALSE
