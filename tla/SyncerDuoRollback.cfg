SPECIFICATION Spec
CONSTANTS
  f = f
  g = g
  r1 = r1
  r2 = r2
  Absent = Absent
  Ids <- MCIds
  Revs <- MCRevs
  Contents <- MCContents
  Workers = {"auto", "manual"}
  Kinds = {"none"}
  VersionReadMayFail = FALSE
  MaxVersion = 2
  MaxFaults = 0
PROPERTIES
  NoRollback
