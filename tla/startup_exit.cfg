SPECIFICATION Spec
CONSTANTS
  ModuleNames = {"board_ip", "misspelt"}
  LongNames = {}
  ArrayParams = {}
  TextParams = {"board_ip"}
  OddParams = {}
  GenericParams = {}
  ArraySize = 1
  ParamNames = {"scale"}
  HalParams = {"scale"}
  BoolParams = {}
  WholeParams = {}
  SetByDriver = {}
  PinNames = {"run"}
  ReadPins = {"run"}
  OtherPins = {}
  Counts = {1000}
  Reals = {8}
  Words = 65536
  MaxIndex = 0
  MaxLines = 1
  MaxRoom = 2
PROPERTY ExitFollowsMain
CHECK_DEADLOCK FALSE
