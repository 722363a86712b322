CONSTANTS
  MaxDepth = 3
  MaxLength = 16
  MaxSize = 32
  MaxPrefixTerms = 2
  NanosPerDay = 10
  MaxSnippet = 6
  Globs <- MCGlobs
  Indexes <- MCIndexes
  Searches <- MCSearches
  QueryTerms <- MCQueryTerms
  Characters <- MCCharacters
  Files <- MCFiles
CHECK_DEADLOCK FALSE
SPECIFICATION Spec
INVARIANTS RejectedIffMeaningless MatchesAsMeant RefusedForItsReasons BestShown SnippetsWellCut
