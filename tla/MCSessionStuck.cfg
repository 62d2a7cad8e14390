SPECIFICATION Spec
CONSTANTS
  Events = 2
  May <- Nothing
  MaxConns = 2
  MaxClicks = 0
INVARIANT
  CollectingEnds
CHECK_DEADLOCK FALSE
