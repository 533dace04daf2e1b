-------------------------- MODULE MCTelegramOutbox --------------------------
(* TelegramOutbox on the small instance of Outbox.cfg.                      *)
EXTENDS TelegramOutbox
=============================================================================
