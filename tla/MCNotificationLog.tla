-------------------------- MODULE MCNotificationLog --------------------------
(* Instances of NotificationLog for TLC. *)
EXTENDS NotificationLog

MCTime == 1..2
=============================================================================
