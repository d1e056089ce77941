SPECIFICATION Spec
CONSTANTS
  Sessions = {s1}
  Keys = {k1}
  Attempts = {t1}
  WithQuery = {}
  MaxLsn = 2
  MaxQueue = 2
  MaxDiffs = 2
  MaxEarlier = 0
  MaxRewinds = 0
  Refusals = FALSE
  Headerless = FALSE
CHECK_DEADLOCK FALSE
INVARIANT BufferedDiffsReach
