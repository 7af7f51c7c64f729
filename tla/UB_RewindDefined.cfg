CONSTANTS
  MaxHeight = 4
  MaxReorgs = 1
  MaxRestarts = 1
  NONE = NONE
SPECIFICATION Spec
INVARIANT RewindDefined
CHECK_DEADLOCK FALSE
