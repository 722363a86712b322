CONSTANTS
  MaxTokens = 2
  MaxDocs = 2
  Batches <- MCBatches
  Singles <- MCSingles
CHECK_DEADLOCK FALSE
SPECIFICATION Spec
INVARIANTS MergedIsOneBatch WrittenReadsBack AcceptedIsCanonical PeakCovered
