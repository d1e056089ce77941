CONSTANTS
  Calls = {c1, c2, c3}
  Traffic <- MCTraffic
  Databases <- MCDatabases
  Tenant = "acme"
  FreshIds = {"8", "9"}
  Null = Null
  Absent = Absent
  MaxRepeats = 1
SPECIFICATION Spec
SYMMETRY Symmetry
INVARIANTS
  TypeOK
  ReadYourWrites
  DeletedStaysGone
PROPERTIES
  RepeatsChangeNothing
  DeletesOwnRows
CHECK_DEADLOCK FALSE
