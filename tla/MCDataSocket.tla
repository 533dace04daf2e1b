---------------------------- MODULE MCDataSocket ----------------------------
(* DataSocket on the small instance of Data.cfg.                        *)
EXTENDS DataSocket
=============================================================================
