CONSTANTS
  Paths = {p1, p2}
  Terms = {t1}
  MaxSegments = 3
  MaxDocs = 2
  Inputs <- MCInputs
CHECK_DEADLOCK FALSE
SPECIFICATION Spec
INVARIANTS VisibleExactly PostingsExact OnlyMixedRejected
