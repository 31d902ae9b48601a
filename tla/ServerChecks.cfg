SPECIFICATION ServerSpec
CONSTANTS
  h1 = h1  h2 = h2
  Handlers = {h1, h2}
  Loads <- MCLoads
  Served <- MCServed
  Tokens <- MCTokens
  ctx = 13
  ChoicePhrasings <- MCChoicePhrasings
  ScorePhrasings <- MCScorePhrasings
  Dumps <- MCDumps
  MaxDepth = 12
  MaxDigits = 4300
  Order <- MCOrder
  MAX_DEPTH = 4
  MAX_STATE_BYTES = 12
  MAX_QUESTIONS = 3
  MAX_TEXT = 7
  MAX_ID = 3
  MAX_CHOICE_OPTIONS = 3
  MIN_SCORE_LEVELS = 2
  MAX_SCORE_LEVELS = 3
INVARIANTS FirstProblemFirst AnswersWhereAsked VerdictIsRequests RefusalsPointAtFaults
