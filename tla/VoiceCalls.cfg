CONSTANTS
  MaxSegments = 3
  Minutes = 2
  Allowance = 2
  MaxUpsets = 2
SPECIFICATION MCSpec
INVARIANTS OneLiveSegment OpenSegmentsReserved TabFollows
PROPERTIES RecoveryEnds MinutesReturn
CHECK_DEADLOCK FALSE
