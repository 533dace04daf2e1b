--------------------------- MODULE MCBackgroundGate ---------------------------
(* BackgroundGate on the small instance of Background.cfg.                    *)
EXTENDS BackgroundGate
=============================================================================
