SPECIFICATION Spec
CONSTANTS
  Inputs <- MCInputs
  Parts = 3
INVARIANTS IsIsotonicFit RatingTellsAnswers ChoiceTellsAnswers
CHECK_DEADLOCK FALSE
