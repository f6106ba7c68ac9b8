----------------------------- MODULE MCNotifier -----------------------------
(* Instances of Notifier for TLC. *)
EXTENDS Notifier

CONSTANTS u1, outage, alarm, reboot

MCTime == 1..2

\* Bound: so many events are sent to a user.
FewSent == \A u \in User : Cardinality({k \in NoteKey : fate[u][k] # "unsent"}) <= 2
=============================================================================
