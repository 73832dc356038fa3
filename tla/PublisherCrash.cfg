SPECIFICATION Spec
CONSTANTS
  f = f
  r1 = r1
  r2 = r2
  Absent = Absent
  None = None
  Torn = Torn
  Ids <- MCIds
  Revs = {r1, r2}
  Given = {}
  Procs = {"cli"}
  VersionReadMayFail = FALSE
  MaxVersion = 2
  MaxFaults = 1
INVARIANTS
  UniqueVersions
