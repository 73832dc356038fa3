------------------------------- MODULE Fences -------------------------------
(***************************************************************************)
(* A fence as the pure parts of the system see it (pkg/geofence/types.go), *)
(* its protobuf form (pkg/converter), and the changes between two          *)
(* collections of fences (pkg/geofence/manifest.go, pkg/merkle).           *)
(*                                                                         *)
(* A fence may have several shapes in memory.  Its protobuf form has a     *)
(* oneof, which holds one of them.                                         *)
(***************************************************************************)
EXTENDS Naturals, FiniteSets, Sequences, Functions

CONSTANTS
  Ids,         \* identifiers of fences, numbers so that they can be sorted
  None,        \* a nil pointer, an empty slice, no fence under an identifier
  Polygons,    \* what a polygon, a circle's center, a radius other than 0 and
  Centers,     \* a bounding box may be
  Radii,
  Boxes,
  Fields,      \* everything else a fence says: type, times, priority, name...
  Keys,        \* key identifiers
  Signatures

Geometry == [polygon : Polygons \cup {None}, center : Centers \cup {None},
             radius : Radii \cup {0}, bbox : Boxes \cup {None}]
NoShape  == [polygon |-> None, center |-> None, radius |-> 0, bbox |-> None]

Fence      == [fields : Fields, geometry : Geometry,
               keyID : Keys, signature : Signatures]
Collection == [Ids -> Fence \cup {None}]
Present(c) == {id \in Ids : c[id] # None}

ASSUME FencesAssumption ==
  /\ Ids \subseteq Nat /\ IsFiniteSet(Ids)
  /\ Radii \subseteq Nat \ {0}
  /\ None \notin Polygons \cup Centers \cup Boxes \cup Fence \cup Collection

-----------------------------------------------------------------------------
(* The protobuf form: the shape the oneof holds, and what it says. *)

\* The geometry part of FenceItemToProto.
ToProto(g) ==
  IF g.polygon # None THEN [shape |-> "polygon", points |-> g.polygon]
  ELSE IF g.center # None
    THEN [shape |-> "circle", center |-> g.center, radius |-> g.radius]
  ELSE IF g.bbox # None THEN [shape |-> "bbox", box |-> g.bbox]
  ELSE [shape |-> "none"]

\* The geometry part of FenceItemFromProto.
FromProto(m) ==
  CASE m.shape = "polygon" -> [NoShape EXCEPT !.polygon = m.points]
    [] m.shape = "circle"  -> [NoShape EXCEPT !.center = m.center,
                                              !.radius = m.radius]
    [] m.shape = "bbox"    -> [NoShape EXCEPT !.bbox = m.box]
    [] m.shape = "none"    -> NoShape

FenceItemToProto(f)   == [f EXCEPT !.geometry = ToProto(f.geometry)]
FenceItemFromProto(m) == [m EXCEPT !.geometry = FromProto(m.geometry)]

FenceCollectionToProto(c) ==
  [id \in Present(c) |-> FenceItemToProto(c[id])]
FenceCollectionFromProto(m) ==
  [id \in Ids |-> IF id \in DOMAIN m THEN FenceItemFromProto(m[id]) ELSE None]

\* A geometry the conversion can carry: one shape, and a radius only with a
\* center.
Simple(g) ==
  /\ Cardinality({s \in {"polygon", "center", "bbox"} : g[s] # None}) <= 1
  /\ g.center = None => g.radius = 0

-----------------------------------------------------------------------------
(* Changes between two collections. *)

\* fencesEqual of pkg/geofence: geometry, key and signature are not looked at.
SameFields(a, b) == a.fields = b.fields

\* fencesEqual of pkg/merkle: the signature is not looked at.
SameFence(a, b) == [a EXCEPT !.signature = b.signature] = b

Kept(old, new) == Present(old) \cap Present(new)

DeltaOf(old, new, changed) ==
  [removed |-> Present(old) \ Present(new),
   added   |-> Restrict(new, Present(new) \ Present(old)),
   updated |-> Restrict(new, changed)]

\* pkg/geofence CreateDelta
CreateDelta(old, new) ==
  DeltaOf(old, new, {id \in Kept(old, new) : ~SameFields(old[id], new[id])})

\* The fields alone are compared, as CreateDelta does.
ComputeDeltaFields(old, new) ==
  DeltaOf(old, new, {id \in Kept(old, new) : ~SameFields(old[id], new[id])})

\* pkg/merkle computeDelta
ComputeDelta(old, new) ==
  DeltaOf(old, new, {id \in Kept(old, new) : ~SameFence(old[id], new[id])})

\* ApplyDelta: fences are removed, added, updated, in this order; None stands
\* for the error of adding what exists or updating what does not.
ApplyDelta(c, d) ==
  LET left == Present(c) \ d.removed IN
  IF \/ DOMAIN d.added \cap left # {}
     \/ ~DOMAIN d.updated \subseteq left \cup DOMAIN d.added
    THEN None
    ELSE [id \in Ids |-> IF id \in DOMAIN d.updated THEN d.updated[id]
                         ELSE IF id \in DOMAIN d.added THEN d.added[id]
                         ELSE IF id \in d.removed THEN None
                         ELSE c[id]]
=============================================================================
