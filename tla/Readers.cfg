CONSTANTS
  Writers = {w1}
  NoWriter = NoWriter
  Readers = {r1}
  Ordered = TRUE
  MaxSegmentId = 6
  MaxGeneration = 4
  MaxSession = 4
  MaxFaults = 1
  MaxKills = 0
  MaxLosses = 1
CHECK_DEADLOCK FALSE
SPECIFICATION RSpec
INVARIANTS SnapshotRead ErrorsJustified CommittedIdsStayUsed
PROPERTIES ReaderEnds LockReleased
