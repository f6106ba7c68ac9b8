------------------------------ MODULE RowStore ------------------------------
(***************************************************************************)
(* What the notification engine takes the notification log of a user for:  *)
(* one row for each notification it keeps one for, replaced until it is    *)
(* settled, and forgotten only once it is settled.                         *)
(***************************************************************************)
EXTENDS Naturals, Functions

CONSTANTS Key, Time

State == {"PENDING", "RESOLVED", "ABANDONED"}
Row == [key : Key, state : State, ts : Time]

VARIABLES
  rows,   \* a row for some of the keys
  wiped   \* changes whenever an admin wipes the log

vars == <<rows, wiped>>

Kept == DOMAIN rows
Settled == {k \in Kept : rows[k].state # "PENDING"}

Init == rows = [k \in {} |-> {}] /\ wiped = FALSE

\* An attempt was made for rec.key, whose row, if it has one, is PENDING.
Put(rec) ==
  /\ rec.key \notin Settled
  /\ rows' = [k \in Kept \cup {rec.key} |-> IF k = rec.key THEN rec ELSE rows[k]]
  /\ UNCHANGED wiped

\* Some of what is settled goes, and nothing else.
Forget ==
  /\ \E gone \in SUBSET Settled : rows' = Restrict(rows, Kept \ gone)
  /\ UNCHANGED wiped

\* An admin wipes the log.
Clear == rows' = [k \in {} |-> {}] /\ wiped' = ~wiped

Next ==
  \/ \E rec \in Row : Put(rec)
  \/ Forget
  \/ Clear

Spec == Init /\ [][Next]_vars
=============================================================================
