SPECIFICATION FairSpec
CONSTANTS
  m1 = m1
  m2 = m2
  t1 = t1
  t2 = t2
  read = read
  unread = unread
  Message = {m1}
  Thread = {t1}
  ThreadOf <- OneMessage
  Label = {read}
  Absent = Absent
  MaxHistory = 2
  MaxRuns = 2
  MaxFetches = 2
  MaxFaults = 1
  MaxDeaths = 0
  MaxRevocations = 1
  MaxTriggers = 1
  MaxMishaps = 1
  MaxBoots = 0
  ReconnectAnytime = FALSE
  HistoryExpires = FALSE
PROPERTIES
  BecomesReady
  PushApplied
