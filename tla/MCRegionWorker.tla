--------------------------- MODULE MCRegionWorker ---------------------------
(* Instances of RegionWorker for TLC. *)
EXTENDS RegionWorker

OneRegion  == {1}
TwoRegions == {1, 2}
OneTwo     == {1, 2}
JustTwo    == {2}
JustOne    == {1}
=============================================================================
