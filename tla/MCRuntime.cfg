SPECIFICATION Spec
CONSTANTS
  main = main
  t1 = t1
  t2 = t2
  Threads <- Three
  BufferSize = 4
  Reserved = 2
  Calls <- Locked
  PeerMay <- AnyPeer
  MaxEvents = 4
  MaxOther = 1
  MaxMessages = 2
INVARIANTS
  TypeOK
  StreamIntact
  NothingLost
  HeapIdsInOrder
  EndStreamIsLast
  OwnerIsInside
PROPERTY
  CallsReturn
CHECK_DEADLOCK FALSE
