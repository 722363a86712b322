CONSTANTS
  Writers = {w1}
  NoWriter = NoWriter
  Ordered = TRUE
  MaxSegmentId = 4
  MaxGeneration = 3
  MaxSession = 4
  MaxFaults = 0
  MaxKills = 1
  MaxLosses = 0
CHECK_DEADLOCK FALSE
SPECIFICATION Spec
INVARIANTS RetireAfterDurable
