CONSTANTS
  Header = 2
  MaxFiles = 5
  Scans <- MCScans
  Options <- MCOptions
CHECK_DEADLOCK FALSE
SPECIFICATION FairSpec
INVARIANTS BudgetExact WorkspaceExact NoLateRefusal InScanOrder RefusedOnlyWhenTooBig NoneOutlives
PROPERTY Terminates
