SPECIFICATION SerialCountingSpec
CONSTANTS
  Channels = {c1, c2, c3}
  Roles = {initiator, recipient}
  Calls = {d1, d2}
  SeqNumbers <- MCSequences
  SeqMod = 2
  WindowSize = 1
  MaxEpoch = 1
  MaxDelivered = 3
  NoSeal = NoSeal
SYMMETRY Symmetry
PROPERTIES KeepsPromise
CHECK_DEADLOCK FALSE
