------------------------------ MODULE Delivery ------------------------------
(***************************************************************************)
(* What the notification engine promises, one notification at a time and   *)
(* with no queue, scan, timer or file in sight (DESIGN.md 6.1-6.5, 7).     *)
(*                                                                         *)
(* A notification is accepted, tried up to Limit times, each try counted   *)
(* once, and then delivered or abandoned, once and for all.  The promise   *)
(* is kept for the notifications whose records have not been disturbed: a  *)
(* reset of the board before the first try, a row that could not be        *)
(* written, a log wiped by an admin.  A disturbed notification may be      *)
(* lost, repeated or counted wrongly, but it disturbs no other.            *)
(***************************************************************************)
EXTENDS Naturals

CONSTANTS Notification, Limit

VARIABLES fate, tries, disturbed

vars == <<fate, tries, disturbed>>

Fate == {"unsent", "owed", "delivered", "abandoned"}

\* The fates and the counts the promise is about.
TypeOK ==
  /\ fate \in [Notification -> Fate]
  /\ tries \in [Notification -> 0..Limit]
  /\ disturbed \in SUBSET Notification

Init ==
  /\ fate = [p \in Notification |-> "unsent"]
  /\ tries = [p \in Notification |-> 0]
  /\ disturbed = {}

\* An event is notified to a set of users.
Accept(S) ==
  /\ S # {}
  /\ \A p \in S : fate[p] = "unsent"
  /\ fate' = [p \in Notification |-> IF p \in S THEN "owed" ELSE fate[p]]
  /\ UNCHANGED <<tries, disturbed>>

\* A try fails and another one will follow.
Retry(p) ==
  /\ fate[p] = "owed"
  /\ tries[p] < Limit
  /\ tries' = [tries EXCEPT ![p] = @ + 1]
  /\ UNCHANGED <<fate, disturbed>>

\* The last try for p: f is what became of it.
Conclude(p, f) ==
  /\ fate[p] = "owed"
  /\ f \in {"delivered", "abandoned"}
  /\ fate' = [fate EXCEPT ![p] = f]
  /\ tries' = [tries EXCEPT ![p] = 0]
  /\ UNCHANGED disturbed

\* S is disturbed; nothing is promised of the disturbed, all else stays.
Disturb(S) ==
  /\ disturbed' = disturbed \cup S
  /\ fate' \in [Notification -> Fate]
  /\ tries' \in [Notification -> 0..Limit]
  /\ \A p \in Notification \ disturbed' :
       fate'[p] = fate[p] /\ tries'[p] = tries[p]

Next ==
  \/ \E S \in SUBSET Notification : Accept(S) \/ Disturb(S)
  \/ \E p \in Notification :
       Retry(p) \/ Conclude(p, "delivered") \/ Conclude(p, "abandoned")

Spec == Init /\ [][Next]_vars
=============================================================================
