CONSTANTS
  Writers = {w1}
  NoWriter = NoWriter
  Readers = {r1}
  Ordered = TRUE
  MaxSegmentId = 6
  MaxGeneration = 4
  MaxSession = 3
  MaxFaults = 0
  MaxKills = 0
  MaxLosses = 0
CHECK_DEADLOCK FALSE
SPECIFICATION RSpec
INVARIANTS ManifestReadable
