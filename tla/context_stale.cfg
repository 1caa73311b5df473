SPECIFICATION Spec
CONSTANTS
  Identities = {a}
  None = None
  MaxCalls = 3
  MaxRenders = 1
INVARIANT StaleIsDropped
CHECK_DEADLOCK FALSE
