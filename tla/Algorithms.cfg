SPECIFICATION Spec
CONSTANTS
  poly1 = poly1
  poly2 = poly2
  center1 = center1
  box1 = box1
  plain = plain
  timed = timed
  keyA = keyA
  keyB = keyB
  keyID1 = keyID1
  sigA = sigA
  sigB = sigB
  None = None
  Nil = Nil
  LimitBits = 4
  Error = Error
  Panic = Panic
  Ids <- MCIds
  Polygons = {poly1, poly2}
  Centers = {center1}
  Radii = {1}
  Boxes = {box1}
  Fields = {plain, timed}
  Keys = {keyA, keyB}
  Signatures = {sigA, sigB}
  SigningKeys = {keyA, keyB}
  GivenIDs = {keyID1}
  Signers <- MCSigners
  MaxDownload = 2
  Tag = 99
  Cells = {1, 2, 20}
  MaxAlloc = 10
  MaxPatched = 10
  Magic = 7
  Width = 12
  Second = 3
  Cap = 90
  DeltaCollections <- MCDeltaCollections
  SnapshotCollections <- MCSnapshotCollections
  ProofCollections <- MCProofCollections
  Serialised <- MCSerialised
  DeltaVersions = {1, 2}
  Geometries <- MCGeometries
  Places <- MCPlaces
  Tables <- MCTables
  Times <- MCTimes
  Areas <- MCAreas
  Limiting <- MCLimiting
  Tries = 13
INVARIANTS
  DeltaRestores
  SnapshotFaithful
  ProofsRebuild
  DeltaFileRestores
  BoundsCover
  CheckAgrees
  AreaFound
  RetryPaced
