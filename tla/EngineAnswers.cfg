SPECIFICATION Spec
CONSTANTS
  Requests <- MCRequests
  MaxBatch = 2
  MIN_TOKENS = 1
INVARIANTS AnswersAreTheirOwn SnapshotsAreFaithful ReadsWithinSize
