CONSTANTS
  InPins = {controlType, probeEnable, writeStrobe}
  OutPins = {count}
  IoPins = {indexEnable}
  ProbePins = {probeEnable}
  Strobes = {probeEnable, indexEnable, writeStrobe}
  Rewritten = {writeStrobe}
  RwParams = {scale, count}
  RoParams = {}
  Strays = {misspelt}
  Values = {0, 1}
  Zero = 0
  One = 1
  Unfit = Unfit
  MaxLines = 1
SPECIFICATION BindingSpec
CHECK_DEADLOCK FALSE
INVARIANTS UniqueNames
PROPERTIES OnlyWhenAsked ActsOnce
