CONSTANTS
  MaxHeight = 4
  MaxReorgs = 1
  MaxRestarts = 1
  NONE = NONE
SPECIFICATION Spec
INVARIANT TypeOK
INVARIANT UnfinalizedContiguous
INVARIANT TrackerMatchesStore
CHECK_DEADLOCK FALSE
PROPERTY ProcessingReturns
