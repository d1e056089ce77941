CONSTANTS
  Sessions = {s1, s2, s3}
  Partitions = {p1, p2}
  Threshold = 1
SPECIFICATION FairSpec
INVARIANTS
  TypeOK
  SlowCountBounds
  NoForgottenPause
PROPERTIES
  LowCountResumes
  HighCountPauses
CHECK_DEADLOCK FALSE
