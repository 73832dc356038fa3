---------------------------- MODULE MCFenceStore ----------------------------
(* FenceStore for TLC: two fences that may stand at either of two overlapping *)
(* places.  The one is a polygon, whose box is larger than its area; the      *)
(* other a circle far from the equator, whose box leaves a part of it out.    *)
EXTENDS FenceStore

MCArea == [here |-> {1}, there |-> {2, 3}]
MCBox  == [here |-> {1, 2}, there |-> {2}]
=============================================================================
