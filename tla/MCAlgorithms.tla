---------------------------- MODULE MCAlgorithms ----------------------------
(* Algorithms for TLC: the inputs of each call.                             *)
EXTENDS Algorithms, TLC

CONSTANTS poly1, poly2, center1, box1, plain, timed, keyA, keyB, keyID1, sigA, sigB

F(fields, g, sig) ==
  [fields |-> fields, geometry |-> g, keyID |-> keyA, signature |-> sig]

Poly   == [NoShape EXCEPT !.polygon = poly1]
Poly2  == [NoShape EXCEPT !.polygon = poly2]
Circle == [NoShape EXCEPT !.center = center1, !.radius = 1]
Rect   == [NoShape EXCEPT !.bbox = box1]
Both   == [Poly EXCEPT !.bbox = box1]
Orphan == [Rect EXCEPT !.radius = 1]

MCIds == 1..5

\* The collections over some identifiers of these fences.
Over(ids, fences) ==
  {[id \in MCIds |-> IF id \in ids THEN d[id] ELSE None] :
     d \in [ids -> fences \cup {None}]}

MCDeltaCollections ==
  Over({1, 2}, {F(f, g, s) : f \in {plain, timed}, g \in {Poly, Both}, s \in {sigA, sigB}}
                 \cup {[F(plain, Poly, sigA) EXCEPT !.keyID = keyB]})
MCSnapshotCollections ==
  Over({1}, {F(plain, g, sigA) : g \in {Poly, Rect, Both, Orphan}}
              \cup {F(plain, Poly, sigB), F(timed, Circle, sigA)})
    \cup {[id \in MCIds |-> IF id <= n THEN F(timed, Poly, sigA) ELSE None] :
              n \in {2, 3}}
    \cup {[id \in MCIds |-> IF id <= 2 THEN F(timed, Both, sigA) ELSE None]}
MCProofCollections == Over(MCIds, {F(plain, Poly, sigA)}) \cup
                      Over({1, 2, 3}, {F(plain, Poly, sigA), F(plain, Poly, sigB), F(timed, Poly2, sigA)})

MCSigners == {[key |-> keyA, given |-> None], [key |-> keyA, given |-> keyID1],
              [key |-> keyB, given |-> None]}

MCSerialised == {<<>>} \cup UNION {{<<Tag>> \o s : s \in [1..l -> {1, 2}]} : l \in 0..4}

Grid == 0..2
GridPoint == {Point(lat, lon) : lat \in Grid, lon \in Grid}
Shape(poly, box) == [polygon |-> poly, bbox |-> box]
Kite == <<Point(0, 1), Point(1, 0), Point(2, 1), Point(1, 2)>>
Dart == <<Point(0, 0), Point(2, 1), Point(0, 2), Point(1, 1)>>
MCAreas == {Box(a, l, a + h, l + w) : a \in Grid, l \in Grid, h \in 0..1, w \in 0..1}
MCGeometries ==
  {Shape(s, Nil) : s \in UNION {[1..l -> GridPoint] : l \in 1..3}}
    \cup {Shape(Kite, box) : box \in MCAreas}
    \cup {Shape(Kite, Nil), Shape(Dart, Nil), Shape(Nil, Nil)}

Row(g, type, priority, start, end) ==
  [geometry |-> g, type |-> type, priority |-> priority,
   start |-> start, end |-> end]
Rows == {Row(g, t, pr, s, e) :
           g \in {Shape(<<Point(0, 0), Point(2, 0), Point(0, 2)>>, Nil),
                  Shape(Kite, Box(1, 1, 2, 2))},
           t \in {"permanent", "temporary", "altitude", "minimum"}, pr \in {1, 2},
           s \in {0, 1}, e \in {0, 2}}
MCTables == {<<>>} \cup {<<r>> : r \in Rows} \cup {<<r, s>> : r \in Rows, s \in Rows}
MCLimiting ==
  {[geometry |-> g, type |-> t, priority |-> 1, start |-> 1, end |-> 2,
    maxAltitude |-> a, maxSpeed |-> v] :
     g \in {Shape(Dart, Nil), Shape(Nil, Box(1, 1, 2, 2)), Shape(Nil, Nil)},
     t \in Types \cup {"unknown"}, a \in {0, 5, 8, 15}, v \in {0, 5, 8}}
MCTimes == {0, 1, 3}
MCPlaces == GridPoint
=============================================================================
