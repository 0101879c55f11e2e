--------------------------- MODULE MCPoolMonitor ---------------------------
(* Instances of PoolMonitor: two pools. *)
EXTENDS PoolMonitor, TLC

CONSTANTS a, b
=============================================================================
