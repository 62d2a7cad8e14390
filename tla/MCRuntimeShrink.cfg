SPECIFICATION SpecUnlocked
CONSTANTS
  main = main
  t1 = t1
  t2 = t2
  Threads <- Three
  BufferSize = 4
  Reserved = 2
  Calls <- Unlocked
  PeerMay <- NoFailure
  MaxEvents = 4
  MaxOther = 1
  MaxMessages = 0
INVARIANTS
  StreamIntact
CHECK_DEADLOCK FALSE
