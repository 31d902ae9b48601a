SPECIFICATION SafeSpec
CONSTANTS
  Inputs <- MCInputs
  w1 = w1  w2 = w2
  Threads = {w1, w2}
  SpawnMayFail = TRUE
INVARIANTS SameTokens NoneOutlives PartsFit
CHECK_DEADLOCK FALSE
