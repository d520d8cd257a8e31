SPECIFICATION OutboxSpec
CONSTANTS
  Command <- Commands
  Worker = {w1, w2}
  BatchSize = 2
  MaxAttempts = 2
  MaxMishaps = 2
  MaxTurns = 2
  MaxRows = 2
SYMMETRY Workers
INVARIANT NothingLost
INVARIANT SomeoneLooks
PROPERTY TerminalStays
CHECK_DEADLOCK FALSE
