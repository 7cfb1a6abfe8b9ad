SPECIFICATION FairSpec
CONSTANTS
  ErrorLimit = 10
  ErrorIncrement = 2
  ErrorDecrement = 1
  MaxLate = 2
  EarliestBite = 4
  Settings = {"a", "b"}
PROPERTIES
  BiteIsAnswered
