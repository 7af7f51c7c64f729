CONSTANTS
  NumReqs = 5
  Limit = 2
  ProbeLimit = 0
  AttemptLimit = 2
SPECIFICATION Spec


PROPERTY FrozenSizeFits
CHECK_DEADLOCK FALSE
