SPECIFICATION Spec
CONSTANTS
  ModuleNames = {"board_ip", "num", "odd", "debug", "unknown_param", "cut"}
  LongNames = {"cut"}
  ArrayParams = {"num"}
  TextParams = {"board_ip"}
  OddParams = {"odd"}
  GenericParams = {"debug"}
  ArraySize = 1
  ParamNames = {"scale", "io_error", "nvunit", "misspelt"}
  HalParams = {"scale", "io_error", "nvunit"}
  BoolParams = {"io_error"}
  WholeParams = {"nvunit"}
  SetByDriver = {"nvunit"}
  PinNames = {"run", "count", "nowhere"}
  ReadPins = {"run"}
  OtherPins = {"count"}
  Counts = {0, 9, 1000, 65686}
  Reals = {0, 8, 10}
  Words = 65536
  MaxIndex = 1
  MaxLines = 2
  MaxRoom = 5
INVARIANTS InForce ArenaOutlivesDriver CleanEnd
CHECK_DEADLOCK FALSE
