SPECIFICATION Spec
CONSTANTS
  Identities = {a, b}
  None = None
  MaxCalls = 3
  MaxRenders = 2
INVARIANT Isolation
CHECK_DEADLOCK FALSE
