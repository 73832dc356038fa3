SPECIFICATION AutoFairSpec
CONSTANTS
  f = f
  r1 = r1
  r2 = r2
  Absent = Absent
  Ids <- MCIds
  Revs <- MCRevs
  Contents <- MCContents
  Workers = {"auto", "caller"}
  AutoWorker = "auto"
  Kinds = {"none"}
  VersionReadMayFail = FALSE
  MaxVersion = 2
  MaxFaults = 1
INVARIANTS
  AutoTypeOK
  Covered
  NoSilentUpdate
PROPERTIES
  EndsAfterCancel
  KeepsSyncing
  UnreadStopsSyncing
