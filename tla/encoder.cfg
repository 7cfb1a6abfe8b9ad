SPECIFICATION Spec
CONSTANTS
  ErrorLimit = 3
  ErrorIncrement = 1
  ErrorDecrement = 1
  MaxLate = 1
  Width = 8
  Speed = 1
  First = 6
  Last = 10
  FirmwareProbe = TRUE
  None = None
PROPERTIES
  CountFollows
  EventIsReal
