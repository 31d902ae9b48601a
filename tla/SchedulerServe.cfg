SPECIFICATION SafeSpec
CONSTANTS
  c1 = c1  c2 = c2  c3 = c3
  Callers = {c1, c2, c3}
  Sizes = {1, 2, 3}
  WarmUpTo = 4
  WARM_TOKENS = 3
  BatchTokens = 5
  CALL_TOKENS = 4
  WarmUpFails = TRUE
SYMMETRY CallerSymmetry
INVARIANTS NothingLost NoLostWakeup BatchFitsBudget
PROPERTIES WarmUpsInTheirPlace
