--------------------------- MODULE MCStatusSource ---------------------------
(* StatusSource on the small instance of Status.cfg.                       *)
EXTENDS StatusSource
=============================================================================
