SPECIFICATION MCSpec
CONSTANTS
  company = company
  rival = rival
  station = station
  meter = meter
  read = read
  write = write
  shop = shop
  bank = bank
  a1 = a1
  a2 = a2
  b1 = b1
  b2 = b2
  s1 = s1
  s2 = s2
  NoKey = NoKey
  Keys <- MCKeys
  Names <- MCNames
  Scopes = {read, write}
  Audiences = {shop, bank}
  Jtis = {a1, a2, b1, b2, s1, s2}
  Drifts <- MCDrifts
  Policy <- MCPolicy
  AttestCalls <- MCAttestCalls
  IssueCalls <- MCIssueCalls
  CreateCalls <- MCCreateCalls
  Verifiers = {v1}
  Services <- MCBankOnly
  MaxRevoked = 1
  Skew = 1
  MaxPending = 1
  MaxAttestations = 2
  MaxSessions = 1
  MaxDisposed = 1
  MaxNow = 2
INVARIANT AudienceIsContained
CHECK_DEADLOCK FALSE
