SPECIFICATION Spec
CONSTANTS
  c1 = c1  c2 = c2
  Callers = {c1, c2}
  Sizes = {1, 2}
  WarmUpTo = 2
  WARM_TOKENS = 2
  BatchTokens = 3
  CALL_TOKENS = 4
  WarmUpFails = TRUE
PROPERTIES ServiceSpec EveryCallReturns DestructorReturns
