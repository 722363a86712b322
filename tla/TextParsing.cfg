CONSTANTS
  MaxBytes = 4
  Contents <- MCContents
  Rewrites <- MCRewrites
  ChunkSizes = {1, 2, 3}
  MaxToken = 2
  MaxEdits = 2
CHECK_DEADLOCK FALSE
SPECIFICATION Spec
INVARIANTS TextIndependentOfChunks TokensAreRuns OneVersion FailsForItsFaults
