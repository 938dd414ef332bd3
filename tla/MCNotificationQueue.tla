------------------------ MODULE MCNotificationQueue ------------------------
(* NotificationQueue on small sessions. *)
EXTENDS NotificationQueue
=============================================================================
