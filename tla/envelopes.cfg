SPECIFICATION TurnSpec
CONSTANTS
  None = None
  Users = {alice, bob}
  Recipient = bob
  Batches <- MCBatches
  OtkCount = 1
  Shares = {s1, s2}
  s1 = s1
  s2 = s2
  Unwraps = {u1, u2}
  Indices <- MCIndices
  Contexts <- MCContexts
  MaxFailures = 1
SYMMETRY Symmetry
INVARIANTS TypeOK UnwrappedIsGenuine OtkOpensOnce GenuineOpens OnlyCopiesOutlive StoredFilesOpen
CHECK_DEADLOCK FALSE
