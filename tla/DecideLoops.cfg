SPECIFICATION DecideSpec
CONSTANTS
  l1 = l1  l2 = l2
  Loops = {l1, l2}
  Requests <- Folder
INVARIANTS StatusTellsAnswers
PROPERTIES NeverWrittenOver
CHECK_DEADLOCK FALSE
