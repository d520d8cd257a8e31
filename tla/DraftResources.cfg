SPECIFICATION DraftsSpec
CONSTANTS
  Draft = {letter, note}
  MaxMessages = 3
  MaxMishaps = 1
SYMMETRY Drafts
INVARIANT DraftsAligned
CHECK_DEADLOCK FALSE
