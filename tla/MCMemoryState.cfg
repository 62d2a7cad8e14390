SPECIFICATION Spec
CONSTANTS
  HeapIds <- MCHeapIds
  Pointers <- MCPointers
  Sizes <- MCSizes
  Times <- MCTimes
  Word = 3
  IntLimit = 1
  Garbage <- MCGarbage
  MaxBacking = 1
INVARIANTS
  TypeOK
  ManagedIsSumOfCores
CHECK_DEADLOCK FALSE
