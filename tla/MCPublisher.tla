---------------------------- MODULE MCPublisher ----------------------------
(* Publisher for TLC: one fence in two revisions, which can be absent, so   *)
(* that collections grow, change, become empty and repeat.                  *)
EXTENDS Publisher

CONSTANTS f, r1, r2

MCIds == {f}
=============================================================================
