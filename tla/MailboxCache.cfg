SPECIFICATION Spec
CONSTANTS
  None = None
  all = all
  sent = sent
  Threads <- TwoThreads
  Views <- TwoViews
  Home = all
  Everywhere <- OneThread
  Favored <- AnotherThread
  PageSize = 1
  MaxChanges = 1
  MaxFaults = 1
  MaxActs = 3
  MaxEvents = 3
CHECK_DEADLOCK FALSE
INVARIANT RowsAreTrue
INVARIANT CountsAreTrue
INVARIANT ReaderIsTrue
INVARIANT SomeoneReads
