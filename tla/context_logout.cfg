SPECIFICATION Spec
CONSTANTS
  Identities = {a}
  None = None
  MaxCalls = 3
  MaxRenders = 1
INVARIANT LogoutIsFinal
CHECK_DEADLOCK FALSE
