-------------------------- MODULE MCVersionManager --------------------------
(* VersionManager for TLC: one fence in two revisions; goroutines publish it *)
(* or the empty collection, and edit the table behind the publisher's back.  *)
EXTENDS VersionManager

CONSTANTS f, r1, r2

MCIds == {f}
MCGiven == {NoFences, [id \in {f} |-> r1]}
=============================================================================
