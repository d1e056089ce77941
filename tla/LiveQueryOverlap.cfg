SPECIFICATION Spec
CONSTANTS
  Sessions = {s1}
  Keys = {k1}
  Attempts = {t1, t2}
  WithQuery = {}
  MaxLsn = 2
  MaxQueue = 2
  MaxDiffs = 1
  MaxEarlier = 1
  MaxRewinds = 0
  Refusals = FALSE
  Headerless = FALSE
CHECK_DEADLOCK FALSE
SYMMETRY Symmetry
INVARIANTS SnapshotCoversFence SnapshotFirst
PROPERTIES DiffsAdvance ImplementsLiveFeed
