SPECIFICATION FairSpec
CONSTANTS
  ResponseLimit = 2
  Levels = {0, 1}
  Seed = 0
  MaxAnswers = 3
  MaxUnanswered = 2
INVARIANTS
  TypeOK
  NoDataRace
  AnswerOfItsCycle
  SilentBound
  AppliedOnce
  NoLostWakeup
  SameCycleFresh
PROPERTIES
  Refines
  PeriodEnds
  SilenceEnds
CHECK_DEADLOCK FALSE
