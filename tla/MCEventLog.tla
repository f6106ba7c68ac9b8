----------------------------- MODULE MCEventLog -----------------------------
(* Instances of EventLog for TLC. *)
EXTENDS EventLog

MCTime == 1..2
=============================================================================
