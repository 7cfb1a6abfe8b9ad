CONSTANTS
  Hosts = {first, second, third}
  None = None
SPECIFICATION Spec
CHECK_DEADLOCK FALSE
INVARIANTS NeverHalfMade
PROPERTIES NotResumed CardFreedFirst
