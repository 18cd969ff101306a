--------------------------- MODULE MCRangeSensor ---------------------------
(* Two distances at the ends of the range and one between, and an error.   *)
EXTENDS RangeSensor

FarAndNear == {1, 8, 9}
=============================================================================
