CONSTANTS
  e1 = e1
  e2 = e2
  e3 = e3
  EndpointList <- MCEndpointList
  ChainIds = {1, 5}
  NetworkChainId = 1
  Workers = {w1, w2}
  MaxFetches = 3
  MAX_RECONNECT_ATTEMPTS = 5
  NONE = NONE

SPECIFICATION Spec
INVARIANT FailsOnlyWhenAllDown
CHECK_DEADLOCK FALSE
