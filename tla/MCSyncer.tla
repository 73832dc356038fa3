------------------------------ MODULE MCSyncer ------------------------------
(* Syncer for TLC: two fences in two revisions, and a few collections that  *)
(* add, change and drop fences.                                             *)
EXTENDS Syncer, TLC

CONSTANTS f, g, r1, r2

MCIds == {f, g}
MCRevs == {r1, r2}
Coll(a, b) == f :> a @@ g :> b
MCContents == {Coll(r1, Absent), Coll(r2, r1), Coll(Absent, r2), NoFences}
=============================================================================
