SPECIFICATION Spec
CONSTANTS
  Requests <- MCRequests
  SnapshotCount = 2
  SnapshotTokens = 6
  MIN_TOKENS = 2
  MaxBatch = 2
  MaxTick = 6
  PushMayFail = TRUE
INVARIANTS WithinLimits ReportWithinLimits InUseAreKept
PROPERTIES LruSpec
