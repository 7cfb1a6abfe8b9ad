SPECIFICATION Spec
CONSTANTS
  Parameters = 2
  ReadOnly = {1}
  Values = {0, 1}
  FromCard = {0}
  FaultInc = 2
  FaultDec = 1
  FaultLim = 2
  Patience = 2
  MaxRow = 4
INVARIANTS EveryFaultSeen FaultsStop WrittenIsSent
PROPERTIES Settles
