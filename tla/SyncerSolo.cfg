SPECIFICATION FairSpec
CONSTANTS
  f = f
  g = g
  r1 = r1
  r2 = r2
  Absent = Absent
  Ids <- MCIds
  Revs <- MCRevs
  Contents <- MCContents
  Workers = {"auto"}
  Kinds = {"none", "raw", "header", "missing"}
  VersionReadMayFail = FALSE
  MaxVersion = 3
  MaxFaults = 2
INVARIANTS
  TypeOK
  Provenance
  Fresh
  ManifestAhead
  MemoryMatchesDisk
PROPERTIES
  NoRollback
  Converges
