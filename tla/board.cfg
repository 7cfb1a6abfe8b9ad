SPECIFICATION FairSpec
CONSTANTS
  ErrorLimit = 10
  ErrorIncrement = 2
  ErrorDecrement = 1
  MaxLate = 3
  EarliestBite = 5
  Settings = {"a", "b"}
INVARIANTS
  TypeOK
  SilenceTold
  InSync
PROPERTIES
  BiteIsAnswered
  GoodIsNewest
  Recovers
