SPECIFICATION Spec
CONSTANTS
  Events = 2
  May <- Anything
  MaxConns = 2
  MaxClicks = 3
INVARIANTS
  TypeOK
  EndedCorrectlyIsWhole
  PipeFollowsButton
PROPERTY
  ResetIsSafe
CHECK_DEADLOCK FALSE
