------------------------ MODULE MCNotificationManager ------------------------
(* NotificationManager on the small instance of Notify.cfg.                  *)
EXTENDS NotificationManager
=============================================================================
