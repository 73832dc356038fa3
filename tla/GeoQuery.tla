------------------------------ MODULE GeoQuery ------------------------------
(***************************************************************************)
(* Which fences hold at a point: pkg/geofence/fence.go and types.go, the   *)
(* two queries of pkg/storage, and the three decisions made from them      *)
(* (CheckFences, Syncer.Check, Manager.QueryAtPoint).  Coordinates are     *)
(* integers, beside which the 1e-10 that pointInPolygon adds to a divisor  *)
(* is nothing.  Circles are left out: their distance and their bounds are  *)
(* floating-point formulas.                                                *)
(***************************************************************************)
EXTENDS Words, Sequences, FiniteSetsExt

CONSTANTS
  Nil,       \* a nil pointer, an empty slice
  LimitBits  \* bits of a uint32 and an int32: 32 in the code

ASSUME GeoQueryAssumption == LimitBits \in Nat \ {0}

Point(lat, lon) == [lat |-> lat, lon |-> lon]
Box(minLat, minLon, maxLat, maxLon) ==
  [minLat |-> minLat, minLon |-> minLon, maxLat |-> maxLat, maxLon |-> maxLon]
EmptyBox == Box(0, 0, 0, 0)

Points == [lat : Int, lon : Int]
BoundingBox == [minLat : Int, minLon : Int, maxLat : Int, maxLon : Int]

\* What may be asked of a shape: any polygon, any box, or neither.
IsShape(g) ==
  /\ g.polygon = Nil \/ g.polygon \in Seq(Points) \ {<<>>}
  /\ g.bbox = Nil \/ g.bbox \in BoundingBox

BoxContains(b, p) ==
  /\ p.lat >= b.minLat /\ p.lat <= b.maxLat
  /\ p.lon >= b.minLon /\ p.lon <= b.maxLon

\* The edge from vj to vi lies above p, where longitudes are horizontal.  The
\* code divides by dlon + 1e-10: between integers this decides only on the line
\* itself, by the sign of what is added; floating-point coordinates may be so
\* close to the line, or to each other, that it decides there too.
Above(p, vi, vj) ==
  LET dlat == vj.lat - vi.lat
      dlon == vj.lon - vi.lon
      x    == p.lon - vi.lon
      y    == p.lat - vi.lat
  IN IF y * dlon = dlat * x
       THEN (dlon > 0 /\ y < 0) \/ (dlon < 0 /\ y > 0)
       ELSE IF dlon > 0 THEN y * dlon < dlat * x ELSE y * dlon > dlat * x

\* pointInPolygon: the number of edges a ray from p meets is odd.
PointInPolygon(p, polygon) ==
  LET n == Len(polygon)
      previous(i) == IF i = 1 THEN n ELSE i - 1
      met == {i \in 1..n :
                LET vi == polygon[i] vj == polygon[previous(i)] IN
                /\ (vi.lon > p.lon) # (vj.lon > p.lon)
                /\ Above(p, vi, vj)}
  IN n >= 3 /\ Cardinality(met) % 2 = 1

\* The polygon is looked at first, as the conversion to protobuf does.
ContainsPointPolygonFirst(g, p) ==
  \/ g.polygon # Nil /\ PointInPolygon(p, g.polygon)
  \/ g.polygon = Nil /\ g.bbox # Nil /\ BoxContains(g.bbox, p)

\* Geometry.ContainsPoint: the bounding box, if there is one, decides alone.
ContainsPoint(g, p) ==
  \/ g.bbox # Nil /\ BoxContains(g.bbox, p)
  \/ g.bbox = Nil /\ g.polygon # Nil /\ PointInPolygon(p, g.polygon)

\* boundsFromPoints
BoundsFromPoints(points) ==
  LET lats == {points[i].lat : i \in DOMAIN points}
      lons == {points[i].lon : i \in DOMAIN points}
  IN Box(Min(lats), Min(lons), Max(lats), Max(lons))

\* GetBounds: what the R-Tree stores for a fence.
GetBounds(g) ==
  IF g.bbox # Nil THEN g.bbox
  ELSE IF g.polygon # Nil THEN BoundsFromPoints(g.polygon)
  ELSE EmptyBox

-----------------------------------------------------------------------------
(* Queries.  A fence here has a geometry, a type, a priority and times. *)

IsRow(f) ==
  IsShape(f.geometry) /\ f.priority \in Int /\ f.start \in Int /\ f.end \in Int

\* IsActiveAt: an end of 0 is none.
IsActiveAt(f, now) == now >= f.start /\ (f.end > 0 => now <= f.end)

Holds(f, p, now) == ContainsPoint(f.geometry, p) /\ IsActiveAt(f, now)

\* The queries return the rows of a table, here by their numbers.

\* The index decides alone.
QueryAtPointCoarse(table, p, now) ==
  {i \in DOMAIN table : /\ BoxContains(GetBounds(table[i].geometry), p)
                        /\ IsActiveAt(table[i], now)}

\* SQLiteStore.QueryAtPoint: the R-Tree finds candidates, the geometry decides.
QueryAtPoint(table, p, now) ==
  {i \in DOMAIN table : /\ BoxContains(GetBounds(table[i].geometry), p)
                        /\ Holds(table[i], p, now)}

\* A fence that only touches the area is left out.
QueryInBoundsStrict(table, b) ==
  {i \in DOMAIN table :
     LET box == GetBounds(table[i].geometry) IN
     /\ box.maxLon > b.minLon /\ box.minLon < b.maxLon
     /\ box.maxLat > b.maxLat /\ box.minLat < b.minLat}

\* SQLiteStore.QueryInBounds: a fence must reach up to b's northern side and
\* down to its southern side.
QueryInBounds(table, b) ==
  {i \in DOMAIN table :
     LET box == GetBounds(table[i].geometry) IN
     /\ box.maxLon >= b.minLon /\ box.minLon <= b.maxLon
     /\ box.maxLat >= b.maxLat /\ box.minLat <= b.minLat}

Intersect(a, b) ==
  /\ a.maxLon >= b.minLon /\ a.minLon <= b.maxLon
  /\ a.maxLat >= b.minLat /\ a.minLat <= b.maxLat

-----------------------------------------------------------------------------
(* Decisions. *)

Forbidding == {"permanent", "temporary"}
Reported   == Forbidding \cup {"altitude", "speed"}
Types      == Reported \cup {"minimum"}

\* Those of the highest priority.
Highest(fences, found) ==
  {i \in found : \A j \in found : fences[i].priority >= fences[j].priority}

Answer(allowed, fence) == [allowed |-> allowed, fence |-> fence]

\* CheckFences, over fences in memory in any order: the first of the highest
\* priority decides.
CheckFences(fences, p, now) ==
  LET matching == {i \in DOMAIN fences : Holds(fences[i], p, now)}
      first    == fences[Min(Highest(fences, matching))]
  IN IF matching # {} /\ first.type \in Forbidding
       THEN Answer(FALSE, first) ELSE Answer(TRUE, Nil)

\* Syncer.Check, over the fences of the database.  The rows come in the order of
\* their priorities and those of equal priority in any: these are the answers
\* that the first row may give.
Check(table, p, now) ==
  LET found == QueryAtPoint(table, p, now) IN
  IF found = {} THEN {Answer(TRUE, Nil)}
  ELSE {Answer(table[i].type \notin Forbidding, table[i]) :
          i \in Highest(table, found)}

\* Manager.QueryAtPoint: like Check, and says nothing of a fence that neither
\* forbids nor limits from above.
ManagerQuery(table, p, now) ==
  {Answer(a.allowed, IF a.fence = Nil \/ a.fence.type \in Reported
                       THEN a.fence ELSE Nil) : a \in Check(table, p, now)}

-----------------------------------------------------------------------------
(* What one fence says at a point.  Its limits are uint32. *)

Uint == 0..TwoTo[LimitBits] - 1

\* int32(n)
Signed(n) == Wrap(n, LimitBits)

RestrictionLevel(f, p, now) ==
  IF ~Holds(f, p, now) THEN 0
  ELSE CASE f.type = "permanent" -> 100
         [] f.type = "temporary" -> 80
         [] f.type = "altitude"  -> 50
         [] f.type = "minimum"   -> 40
         [] f.type = "speed"     -> 20
         [] f.type \notin Types  -> 10

\* 0: no limit; -1: no flight at all.
GetAltitudeLimit(f, p, now) ==
  IF ~Holds(f, p, now) THEN 0
  ELSE IF f.type \in Forbidding THEN -1
  ELSE IF f.type = "altitude" THEN Signed(f.maxAltitude)
  ELSE 0

GetSpeedLimit(f, p, now) ==
  IF Holds(f, p, now) /\ f.type = "speed" THEN Signed(f.maxSpeed) ELSE 0

\* Fences of different severity share the highest priority that holds.
Tied(fences, p, now) ==
  \E i, j \in DOMAIN fences :
    /\ Holds(fences[i], p, now) /\ Holds(fences[j], p, now)
    /\ fences[i].priority = fences[j].priority
    /\ fences[i].type \in Forbidding /\ fences[j].type \notin Forbidding
=============================================================================
