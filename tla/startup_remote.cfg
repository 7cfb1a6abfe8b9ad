SPECIFICATION Spec
CONSTANTS
  ModuleNames = {"board_ip"}
  LongNames = {}
  ArrayParams = {}
  TextParams = {"board_ip"}
  OddParams = {}
  GenericParams = {}
  ArraySize = 1
  ParamNames = {"nvunit"}
  HalParams = {"nvunit"}
  BoolParams = {}
  WholeParams = {"nvunit"}
  SetByDriver = {"nvunit"}
  PinNames = {"run"}
  ReadPins = {"run"}
  OtherPins = {}
  Counts = {1000}
  Reals = {8}
  Words = 65536
  MaxIndex = 0
  MaxLines = 1
  MaxRoom = 2
INVARIANT StartsAtItsLine
CHECK_DEADLOCK FALSE
