CONSTANTS
  Calls = {c1}
  Sessions = {s1}
  Methods = {"DELETE_ROW"}
  MaxAttempts = 0
  MaxDeliveries = 4
  MaxRewinds = 1
  MaxResends = 1
SPECIFICATION Spec
INVARIANTS
  RepeatsExplained
CHECK_DEADLOCK FALSE
