SPECIFICATION Spec
CONSTANTS
  Sessions = {s1}
  Keys = {k1}
  Attempts = {t1, t2}
  WithQuery = {}
  MaxLsn = 1
  MaxQueue = 2
  MaxDiffs = 2
  MaxEarlier = 1
  MaxRewinds = 1
  Refusals = FALSE
  Headerless = TRUE
CHECK_DEADLOCK FALSE
SYMMETRY Symmetry
INVARIANTS NothingFromTheFuture
PROPERTIES DiffsAdvance
