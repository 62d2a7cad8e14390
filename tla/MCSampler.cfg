SPECIFICATION Spec
CONSTANTS
  Frequency = 4
  Seconds <- TwoSeconds
  Densities <- OneTwoOrFour
  MaxTime = 8
INVARIANTS
  TypeOK
  CurveIsThin
  LeftOutIsClose
  NothingIsSkipped
PROPERTIES
  PastStays
  CallsEnd
CHECK_DEADLOCK FALSE
