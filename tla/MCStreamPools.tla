--------------------------- MODULE MCStreamPools ----------------------------
(* StreamPools for TLC: three sizes after rounding, in a memory in which   *)
(* the blocks of two pools can lie side by side in either order and leave  *)
(* no room for the third everywhere.                                       *)
EXTENDS StreamPools
=============================================================================
