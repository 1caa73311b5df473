SPECIFICATION Spec
CONSTANTS
  None = None
  Seeds <- MCSeeds
  Callers <- MCCallers
  MaxTickets = 4
  MaxDerivations = 2
INVARIANTS KeysAreOwned NewestWins UnmountZeroes VerifiedIsActivated
PROPERTIES KeepsPromise
CHECK_DEADLOCK FALSE
