SPECIFICATION Spec
CONSTANTS
  m1 = m1
  m2 = m2
  t1 = t1
  t2 = t2
  read = read
  unread = unread
  Message = {m1, m2}
  Thread = {t1}
  ThreadOf <- OneThread
  Label = {read, unread}
  Absent = Absent
  MaxHistory = 2
  MaxRuns = 2
  MaxFetches = 1
  MaxFaults = 0
  MaxDeaths = 0
  MaxRevocations = 0
  MaxTriggers = 0
  MaxMishaps = 9
  MaxBoots = 0
  ReconnectAnytime = FALSE
  HistoryExpires = TRUE
INVARIANTS
  RepairReconcilesDeletions
SYMMETRY SymmetricTwins
