SPECIFICATION TimingSpec
CONSTANTS
  Period = 8
  Send = 5
  Transfer = 3
  MeasureCycles = 10
  Margin = 15
  Stated = {0, 4}
  Lates = {0, 9}
  ReadTimes = {1, 3}
  WriteTimes = {1}
  SetUpTimes = {1}
  MaxPeriods = 3
INVARIANTS TransferHad PeriodsOnGrid WriteInTime FirstWriteSoon DeclaredCovers
CHECK_DEADLOCK FALSE
