SPECIFICATION AppSpec
CONSTANTS
  NoHandle = NoHandle
  Second = 2
  MaxDelay = 3
  Ttls = {2, 4}
  MaxSources = 2
  MaxCreates = 3
  MaxNow = 5
  Invalid = Invalid
  MaxPlainIndex = 3
  None = None
  Chains = {mainnet, devnet}
  Entities = {e, f}
  Allocations = {a, b}
  OldPaths <- MCOldPaths
  MaxRegs = 3
  MaxStored = 2
  MaxRestarts = 1
  x = x
  y = y
  z = z
  NoWord = NoWord
  Blank = Blank
  Phrases <- MCPhrases
  ValidPhrases <- MCValidPhrases
  InputWords = {x, y}
  Decoys <- MCDecoys
  MaxCopies = 3
  MaxGrids = 2
  MaxInputs = 6
SYMMETRY Symmetry
INVARIANTS HandleFollowsSource SessionFollowsHandle TimerIsOwn LastWins IndexIsFresh AddressHasOneOwner CopiedOnce VerdictIsRight ValidIsReported
PROPERTY HandleIsNeverStale
CHECK_DEADLOCK FALSE
