SPECIFICATION Spec
CONSTANTS
  Sessions = {s1}
  Keys = {k1}
  Attempts = {t1, t2}
  WithQuery = {}
  MaxLsn = 1
  MaxQueue = 2
  MaxDiffs = 2
  MaxEarlier = 0
  MaxRewinds = 0
  Refusals = FALSE
  Headerless = FALSE
CHECK_DEADLOCK FALSE
PROPERTY HeldUntilSnapshot
