CONSTANTS
  Writers = {w1, w2}
  NoWriter = NoWriter
  Ordered = TRUE
  MaxSegmentId = 4
  MaxGeneration = 3
  MaxSession = 5
  MaxFaults = 2
  MaxKills = 2
  MaxLosses = 1
CHECK_DEADLOCK FALSE
SPECIFICATION Spec
SYMMETRY Symmetry
INVARIANTS TypeOK CrashComplete
PROPERTIES LeftoversBounded GenerationsAdvance ImplementsAtomicIndex
