CONSTANTS
  InPins = {probeEnable, writeStrobe, sampleFrequency}
  OutPins = {}
  IoPins = {indexEnable}
  ProbePins = {probeEnable}
  Strobes = {probeEnable, indexEnable, writeStrobe}
  Rewritten = {writeStrobe, sampleFrequency}
  RwParams = {}
  RoParams = {}
  Strays = {}
  Values = {0, 1}
  Zero = 0
  One = 1
  Unfit = Unfit
  MaxLines = 0
SPECIFICATION BindingSpec
CHECK_DEADLOCK FALSE
PROPERTIES EveryStrobeOnce
