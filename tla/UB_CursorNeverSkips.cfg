CONSTANTS
  MaxHeight = 4
  MaxReorgs = 1
  MaxRestarts = 1
  NONE = NONE
SPECIFICATION Spec
PROPERTY CursorNeverSkips
CHECK_DEADLOCK FALSE
