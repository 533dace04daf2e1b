--------------------------- MODULE MCCommunityLane --------------------------
(* CommunityLane on the small instance of Community.cfg.                     *)
EXTENDS CommunityLane
=============================================================================
