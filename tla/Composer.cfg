SPECIFICATION Spec
CONSTANTS
  a1 = a1
  a2 = a2
  Account = {a1, a2}
  ReplyAccount = a1
  All = All
  None = None
  MaxAttempts = 3
  MaxText = 2
  MaxSessions = 2
  MaxMoves = 2
  MaxFaults = 3
INVARIANTS
  LeavesOnce
  SentAsShown
CHECK_DEADLOCK FALSE
