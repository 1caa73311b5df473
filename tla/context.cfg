SPECIFICATION Spec
CONSTANTS
  Identities = {a, b}
  None = None
  MaxCalls = 3
  MaxRenders = 2
INVARIANTS IsolatedIfAwaited StoredIfAwaited LoadIsNoticed
PROPERTIES CommitIsOwn KeepsPromise
SYMMETRY Symmetry
CHECK_DEADLOCK FALSE
