SPECIFICATION FairSpec
CONSTANTS
  compose = compose
  r1 = r1
  r2 = r2
  r3 = r3
  NoRequest = NoRequest
  Intent = {compose}
  Request = {r1, r2}
  PoolSize = 3
  MaxClaims = 2
  MaxEdits = 1
  MaxFaults = 2
INVARIANTS
  WrittenOnce
  SendRemembered
  SentTruly
  SentAsChecked
PROPERTIES
  SentIsReported
CHECK_DEADLOCK FALSE
