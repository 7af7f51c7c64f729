CONSTANTS
  NumReqs = 4
  Limit = 2
  ProbeLimit = 3
  AttemptLimit = 2
SPECIFICATION Spec
INVARIANT TypeOK
INVARIANT OneBatchPerRequest
 
CHECK_DEADLOCK FALSE
