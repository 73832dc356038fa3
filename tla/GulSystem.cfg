SPECIFICATION GulFairSpec
CONSTANTS
  f = f
  r1 = r1
  r2 = r2
  c1 = c1
  Absent = Absent
  None = None
  Torn = Torn
  Ids <- MCIds
  Revs = {r1, r2}
  Given = {}
  Procs = {"cli"}
  VersionReadMayFail = FALSE
  MaxVersion = 2
  MaxFaults = 1
  Clients = {c1}
  MaxInits = 1
INVARIANTS
  TypeOK
  CommittedServable
  PublishedOnce
  Traceable
  HeldServable
  ClientsAgree
  OneAhead
PROPERTIES
  CommittedImmutable
  VersionsIncrease
  CatchesUp
  ClientsAdvance
