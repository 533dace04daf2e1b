--------------------------- MODULE MCWorktreeMerge ---------------------------
(* WorktreeMerge on the small instance of Merge.cfg.                         *)
EXTENDS WorktreeMerge
=============================================================================
