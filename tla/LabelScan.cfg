SPECIFICATION FairSpec
CONSTANTS
  Threads = 2
  PageLimit = 2
  RetryLimit = 1
  MaxSubs = 5
  MaxFaults = 1
  MaxTimeouts = 1
  MaxDeaths = 1
  MaxChanges = 1
  MaxRevocations = 1
  MaxBoots = 1
  MaxEvents = 2
INVARIANT BilledOnce
PROPERTY UserWins
PROPERTY KeepsPromise
PROPERTY SettlesUnlessLost
CHECK_DEADLOCK FALSE
