SPECIFICATION Spec
CONSTANTS
  ResponseLimit = 2
  Levels = {0, 1}
  Seed = 0
  MaxAnswers = 3
  MaxUnanswered = 2
PROPERTIES
  ChangeIsTheWrite
CHECK_DEADLOCK FALSE
