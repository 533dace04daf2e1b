---------------------------- MODULE MCLaneRunner ----------------------------
(* LaneRunner on the small instance of Runner.cfg.                           *)
EXTENDS LaneRunner
=============================================================================
