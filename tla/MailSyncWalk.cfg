SPECIFICATION Spec
CONSTANTS
  m1 = m1
  m2 = m2
  t1 = t1
  t2 = t2
  read = read
  unread = unread
  Message = {m1, m2}
  Thread = {t1, t2}
  ThreadOf <- OneMessagePerThread
  Label = {read, unread}
  Absent = Absent
  MaxHistory = 2
  MaxRuns = 2
  MaxFetches = 1
  MaxFaults = 1
  MaxDeaths = 1
  MaxRevocations = 1
  MaxTriggers = 1
  MaxMishaps = 1
  MaxBoots = 1
  ReconnectAnytime = FALSE
  HistoryExpires = TRUE
INVARIANTS
  Converged
  FinalizesWhenStored
  BuildIsOwned
  PushKept
SYMMETRY Symmetric
PROPERTIES
  CursorAdvances
