SPECIFICATION FairSpec
CONSTANTS
  m1 = m1
  m2 = m2
  Message = {m1, m2}
  SentAt <- OneOld
  Label = {work}
  Others = others
  PageSize = 1
  MaxAttempts = 2
  Threads = 1
  ThreadOf <- InOne
  MaxVersion = 3
  MaxDefinition = 2
  MaxCutoff = 2
  MaxMail = 1
  MaxEdits = 1
  MaxFaults = 1
  MaxRevocations = 1
  MaxBoots = 1
  MaxEvents = 2
INVARIANT RunningAccounted
PROPERTY UserDecisionKept
PROPERTY AppliedCurrent
CHECK_DEADLOCK FALSE
