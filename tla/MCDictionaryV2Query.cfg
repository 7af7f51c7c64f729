CONSTANTS
  a1 = a1
  a2 = a2
  s1 = s1
  s2 = s2
  f1 = f1
  Addresses = {a1, a2}
  Signatures = {s1, s2}
  Functions = {f1}
  Handlers <- MCHandlers
  DsOptions <- MCDsOptions
  MaxDs = 3
  QueryAddressLimit = 1
  NONE = NONE
  NULL = NULL
  NOTNULL = NOTNULL
SPECIFICATION Spec
INVARIANT TypeOK
INVARIANT ConvertedConditionsCover
INVARIANT GetDataExact
CHECK_DEADLOCK FALSE
