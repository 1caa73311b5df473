SPECIFICATION CountingSpec
CONSTANTS
  Channels = {c1}
  Roles = {initiator}
  Calls = {d1, d2}
  SeqNumbers <- MCTwoSequences
  SeqMod = 2
  WindowSize = 2
  MaxEpoch = 1
  MaxDelivered = 3
  NoSeal = NoSeal
INVARIANT DuplicateIsRejected
CHECK_DEADLOCK FALSE
