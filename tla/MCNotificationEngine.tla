---------------------- MODULE MCNotificationEngine --------------------------
(* Small instances of NotificationEngine for TLC: users, of whom some are  *)
(* admins, and event keys are model values that the cfg files name.         *)

EXTENDS NotificationEngine
=============================================================================
