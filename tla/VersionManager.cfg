SPECIFICATION Spec
CONSTANTS
  f = f
  r1 = r1
  r2 = r2
  Absent = Absent
  None = None
  Torn = Torn
  Ids <- MCIds
  Revs = {r1, r2}
  Given <- MCGiven
  Threads = {"publish", "edit"}
  VersionReadMayFail = FALSE
  MaxVersion = 3
  MaxFaults = 2
INVARIANTS
  TypeOK
  UniqueCollections
  ManifestServable
PROPERTIES
  SnapshotsImmutable
