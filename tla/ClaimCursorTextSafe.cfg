CONSTANTS
  Null = Null
  Absent = Absent
  Matches <- MCMatches
  Columns = {"id", "a", "name", "at"}
  TextColumns = {"name"}
  DateColumns = {"at"}
  NullText = 2
  Tables <- MCTables
  Queries <- MCQueries
  Changes <- MCChanges
  MaxCommits = 2
  MaxPages = 4
SPECIFICATION Spec
INVARIANT CursorTextSafe
CHECK_DEADLOCK FALSE
