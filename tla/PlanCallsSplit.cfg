SPECIFICATION SafeSpec
CONSTANT Inputs <- MCInputs
INVARIANTS AllReadInOrder CallsFitBudget NothingNeedless TreesReadQuestions
CHECK_DEADLOCK FALSE
