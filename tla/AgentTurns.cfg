SPECIFICATION FairSpec
CONSTANTS
  left = left
  right = right
  Tab = {left, right}
  MaxRequests = 2
  MaxDrafts = 1
  MaxStops = 1
  MaxFaults = 1
  MaxLapses = 1
  MaxDeletes = 1
  MaxSignOuts = 1
  MaxEvents = 1
INVARIANT NeverUnapproved
INVARIANT SentOnce
INVARIANT StopsWriting
PROPERTY DecisionKept
PROPERTY TabsSettle
CHECK_DEADLOCK FALSE
