CONSTANTS
  Sessions = {s1, s2}
  Partitions = {p1, p2}
  Threshold = 0
SPECIFICATION FairSpec
PROPERTY PressureSubsides
CHECK_DEADLOCK FALSE
