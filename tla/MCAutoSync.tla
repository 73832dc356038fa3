----------------------------- MODULE MCAutoSync -----------------------------
(* AutoSync for TLC: the goroutine and one direct caller of Sync.           *)
EXTENDS AutoSync, TLC

CONSTANTS f, r1, r2

MCIds == {f}
MCRevs == {r1, r2}
MCContents == {f :> r1, f :> r2}
=============================================================================
