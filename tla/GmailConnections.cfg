SPECIFICATION Spec
CONSTANTS
  User = {ann, bob}
  Lifetime = 2
  MaxAttempts = 1
  CleanupAttempts = 2
  MaxDay = 3
  MaxIds = 2
  MaxLogins = 3
  MaxDisconnects = 2
  MaxMishaps = 1
SYMMETRY Users
INVARIANT SharedWatchKept
INVARIANT NobodysWatch
INVARIANT WatchHeld
INVARIANT CleanupOwed
CHECK_DEADLOCK FALSE
