SPECIFICATION FairSpec
CONSTANTS
  Threads = {"sync", "caller"}
  Ids = {f, g}
  Revs = {"here", "there"}
  Absent = Absent
  RowIds = {1, 2}
  Null = Null
  Points = {1, 2, 3}
  Area <- MCArea
  Box <- MCBox
INVARIANTS
  TypeOK
  QueryExact
PROPERTIES
  Atomic
  CallsReturn
