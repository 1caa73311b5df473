SPECIFICATION CountingSpec
CONSTANTS
  Channels = {c1, c2}
  Roles = {initiator}
  Calls = {d1, d2}
  SeqNumbers <- MCSequences
  SeqMod = 2
  WindowSize = 2
  MaxEpoch = 1
  MaxDelivered = 3
  NoSeal = NoSeal
SYMMETRY Symmetry
INVARIANTS TypeOK WindowIsRecent WindowHoldsDelivered RecordedIsNotReplayed DeliveredIsAuthentic
CHECK_DEADLOCK FALSE
