CONSTANTS
  Hosts = {first}
  None = None
SPECIFICATION Spec
CHECK_DEADLOCK FALSE
PROPERTIES ToolAlone
