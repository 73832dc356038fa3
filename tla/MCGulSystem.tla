---------------------------- MODULE MCGulSystem ----------------------------
(* GulSystem for TLC: one publisher process, one client.                   *)
EXTENDS GulSystem, TLC

CONSTANTS f, r1, r2, c1

MCIds == {f}
=============================================================================
