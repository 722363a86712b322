CONSTANTS
  Writers = {w1, w2}
  NoWriter = NoWriter
  Ordered = FALSE
  MaxSegmentId = 4
  MaxGeneration = 3
  MaxSession = 5
  MaxFaults = 0
  MaxKills = 0
  MaxLosses = 2
CHECK_DEADLOCK FALSE
SPECIFICATION Spec
SYMMETRY Symmetry
INVARIANTS CrashComplete
