CONSTANTS
  p1 = p1
  p2 = p2
  c1 = c1
  c2 = c2
  c3 = c3
  PathOrder <- MCPathOrder
  ScanOrder <- MCScanOrder
  Texts = {c1, c2}
  Size <- MCSize
  Times = {1, 2}
  NoFile = NoFile
  NoText = NoText
  Workers = 2
  MaxActive = 2
  MaxEdits = 1
  MaxOperations = 3
CHECK_DEADLOCK FALSE
SPECIFICATION FairSpec
PROPERTIES UpdateReflectsSource QuietWhenUnchanged CountsAddUp PublishOverlaysDelta CompactedClean OperationEnds
