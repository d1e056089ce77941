CONSTANTS
  Calls = {c1, c2}
  Sessions = {s1}
  Methods = {"GET_DATA", "DELETE_ROW"}
  MaxAttempts = 1
  MaxDeliveries = 2
  MaxRewinds = 1
  MaxResends = 0
SPECIFICATION FairSpec
INVARIANTS
  TypeOK
  PendingArmed
  RepeatsExplained
PROPERTIES
  CallsSettle
  RepliesEnd
  ImplementsRpcCall
CHECK_DEADLOCK FALSE
