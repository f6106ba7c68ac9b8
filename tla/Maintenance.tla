---------------------------- MODULE Maintenance ----------------------------
(***************************************************************************)
(* When the logs are rotated, and with which cutoff: the schedule in NVS,  *)
(* the space thresholds, the arithmetic on epochs, the order in which a    *)
(* rotation is committed.  RotationEngine.cpp, RotationPolicy.cpp,         *)
(* RotationStorage.cpp, and the calls of the sketch.  How a rotation picks *)
(* the rows is in EventLog and NotificationLog.                            *)
(*                                                                         *)
(* A tick of time is kMaintenanceIntervalMs.                               *)
(***************************************************************************)
EXTENDS Integers, FiniteSets

CONSTANTS
  Wrap,            \* epochs are kept modulo this: 2^32 seconds
  Week,            \* kSecondsPerWeek
  retentionWeeks,  \* of the global configuration
  Skew,            \* what an estimated clock may be off by, besides not set
  MaxTime,         \* bound: time passes up to here
  MaxRows,         \* bound: so many concluded events in the log
  Faults           \* disturbances the run lets happen

FaultKinds == {"crash", "rotation"}

ASSUME MaintenanceAssumption ==
  /\ Week \in Nat \ {0} /\ retentionWeeks \in Nat
  /\ MaxTime \in Nat /\ MaxRows \in Nat
  /\ retentionWeeks * Week \in 0..MaxTime
  /\ Skew \subseteq Int
  /\ \A s \in Skew : s >= -Week
  /\ Wrap \in Nat /\ \A s \in Skew \cup {0} : Wrap > MaxTime + s + Week
  /\ Faults \subseteq FaultKinds

Status == {"NORMAL", "ROTATE_EARLY", "DEGRADED"}

VARIABLES
  time,           \* the true epoch
  skew,           \* the clock's error: 0 once synchronized
  up,             \* the board runs
  checked,        \* the check of this tick has been made
  status,         \* g_lastSpaceStatus
  last_rotation,  \* in NVS
  closed,         \* reference timestamps of the concluded events in the log
  phase,          \* where rotateEverything is
  stamp,          \* its nowEpoch, 0 when there is none
  (* History variables: nothing in the code reads them. *)
  idle,           \* ticks since a rotation was completed or disturbed
  calm,           \* ticks since a disturbance
  unread          \* the log could not be opened for a cycle of this rotation

vars == <<time, skew, up, checked, status, last_rotation, closed, phase, stamp,
          idle, calm, unread>>

Epoch == 0..(Wrap - 1)
Retention == retentionWeeks * Week

\* currentEpoch.
nowEpoch == time + skew

-----------------------------------------------------------------------------
(* RotationPolicy.                                                         *)

\* Mutant: reckoned from the last rotation instead of the present one.
retentionCutoff_FromLast(now) == (last_rotation - Retention) % Wrap

retentionCutoff(now) == (now - Retention) % Wrap

\* Mutant: compared as integers, so that a stamp ahead of the clock blocks.
isRotationDue_Signed(last, now) == now - last >= Week

isRotationDue(last, now) == (now - last) % Wrap >= Week

severityOf(s) ==
  CASE s = "NORMAL" -> 0 [] s = "ROTATE_EARLY" -> 1 [] s = "DEGRADED" -> 2

Old(now) == {ts \in closed : ts < retentionCutoff(now)}

-----------------------------------------------------------------------------
(* The check, and the rotation it may start.  Nothing else runs meanwhile. *)

\* performMaintenanceIfDue, at whatever usage evaluateSpaceUsage finds:
\* every kMaintenanceIntervalMs and, once, when Telegram is first reached.
performMaintenanceIfDue ==
  /\ up /\ phase = "none"
  /\ checked' = TRUE
  /\ status' \in Status
  /\ IF \/ severityOf(status') > severityOf(status)
        \/ isRotationDue(last_rotation, nowEpoch)
     THEN phase' = "rotate" /\ stamp' = nowEpoch
     ELSE UNCHANGED <<phase, stamp>>
  /\ UNCHANGED <<time, skew, up, last_rotation, closed, idle, calm, unread>>

\* Mutant: the schedule is advanced first.
rotateEventLog_SavedFirst ==
  /\ phase = "rotate"
  /\ last_rotation' = stamp
  /\ phase' = "save"
  /\ UNCHANGED <<time, skew, up, checked, status, closed, stamp, idle, calm, unread>>

\* rotateEventLog succeeds: all its cycles, each with its rename.
rotateEventLog ==
  /\ phase = "rotate"
  /\ closed' = closed \ Old(stamp)
  /\ phase' = "save"
  /\ UNCHANGED <<time, skew, up, checked, status, last_rotation, stamp, idle, calm, unread>>

\* A file of pass 2, a write or the rename fails, after any number of cycles:
\* rotateEventLog returns -1 and the schedule is not advanced.
RotationFails ==
  /\ "rotation" \in Faults
  /\ phase = "rotate"
  /\ \E gone \in SUBSET Old(stamp) : closed' = closed \ gone
  /\ phase' = "none" /\ stamp' = 0 /\ idle' = 0 /\ calm' = 0
  /\ UNCHANGED <<time, skew, up, checked, status, last_rotation, unread>>

\* The log cannot be opened for pass 1, after any number of cycles:
\* rotateEventLog takes it that there is none and returns the cycles done,
\* so that the caller goes on as after a success.
LogUnread ==
  /\ "rotation" \in Faults
  /\ phase = "rotate"
  /\ \E gone \in SUBSET Old(stamp) : closed' = closed \ gone
  /\ phase' = "save" /\ unread' = TRUE /\ idle' = 0 /\ calm' = 0
  /\ UNCHANGED <<time, skew, up, checked, status, last_rotation, stamp>>

\* After the last rename.  The notification logs follow, with the same
\* cutoff; whether they succeed changes nothing here.
saveLastRotationEpoch ==
  /\ phase = "save"
  /\ last_rotation' = stamp
  /\ phase' = "none" /\ stamp' = 0 /\ idle' = 0 /\ unread' = FALSE
  /\ UNCHANGED <<time, skew, up, checked, status, closed, calm>>

-----------------------------------------------------------------------------
(* Around it.                                                              *)

\* An event is concluded, or one without duration is logged.
EventConcluded ==
  /\ up /\ phase = "none" /\ Cardinality(closed) < MaxRows
  /\ closed' = closed \cup {nowEpoch}
  /\ UNCHANGED <<time, skew, up, checked, status, last_rotation, phase, stamp,
                 idle, calm, unread>>

\* The loop comes round for a check in every tick.
Tick ==
  /\ phase = "none" /\ (up => checked) /\ time < MaxTime
  /\ time' = time + 1
  /\ checked' = FALSE
  /\ IF up /\ skew = 0
     THEN idle' = idle + 1 /\ calm' = calm + 1
     ELSE idle' = 0 /\ calm' = 0
  /\ UNCHANGED <<skew, up, status, last_rotation, closed, phase, stamp, unread>>

\* The clock is synchronized.
Synced ==
  /\ up /\ phase = "none" /\ skew # 0
  /\ skew' = 0 /\ idle' = 0 /\ calm' = 0
  /\ UNCHANGED <<time, up, checked, status, last_rotation, closed, phase, stamp, unread>>

\* A reset, also within a rotation; g_lastSpaceStatus is in RAM.
Crash ==
  /\ "crash" \in Faults
  /\ up
  /\ up' = FALSE /\ phase' = "none" /\ stamp' = 0
  /\ status' = "NORMAL" /\ checked' = FALSE
  /\ idle' = 0 /\ calm' = 0 /\ unread' = FALSE
  /\ UNCHANGED <<time, skew, last_rotation, closed>>

\* The clock starts from the anchor in NVS, or from 0 without one.
Boot ==
  /\ ~up
  /\ up' = TRUE
  /\ skew' \in {s \in Skew : time + s >= 0} \cup {-time}
  /\ UNCHANGED <<time, checked, status, last_rotation, closed, phase, stamp,
                 idle, calm, unread>>

Init ==
  /\ time \in {0, Retention} /\ skew = 0  \* an epoch less than the retention, or not
  /\ up = FALSE /\ checked = FALSE
  /\ status = "NORMAL"
  /\ last_rotation = 0
  /\ closed = {}
  /\ phase = "none" /\ stamp = 0
  /\ idle = 0 /\ calm = 0 /\ unread = FALSE

Next ==
  \/ performMaintenanceIfDue
  \/ rotateEventLog
  \/ RotationFails
  \/ LogUnread
  \/ saveLastRotationEpoch
  \/ EventConcluded
  \/ Tick
  \/ Synced
  \/ Crash
  \/ Boot

Spec == Init /\ [][Next]_vars

-----------------------------------------------------------------------------
(* Properties.                                                             *)

\* The clock shows an epoch, and so do the schedule and the rows.
TypeOK ==
  /\ time \in 0..MaxTime
  /\ skew \in Int /\ nowEpoch \in Epoch
  /\ up \in BOOLEAN /\ checked \in BOOLEAN
  /\ status \in Status
  /\ last_rotation \in Epoch /\ stamp \in Epoch
  /\ closed \subseteq Epoch
  /\ phase \in {"none", "rotate", "save"}
  /\ idle \in Nat /\ calm \in Nat /\ unread \in BOOLEAN

\* The schedule in NVS says that a rotation was done only when it was: no
\* concluded event as old as that was left in the log, wherever a reset, a
\* failed write or a failed rename cut a rotation short (DESIGN.md 9.3.2).
\* Excepted is what LogUnread takes for done.
RotationRecordedWhenDone ==
  [][last_rotation' # last_rotation /\ ~unread =>
       \A ts \in closed' : ts >= retentionCutoff(last_rotation')]_vars

\* While the clock is right and no rotation fails, one is completed every
\* week and one check, also after stamps that a clock ahead of the time or
\* behind it has left (DESIGN.md 9.2).
RotationOnTime == idle <= Week + 1

\* An event stays in the log for no more than a week beyond the retention
\* period (DESIGN.md 9.1), however the schedule stood: a rotation that was
\* cut short, or recorded with the log unread, is made up for within a week
\* and a check of the last such disturbance, with the cutoff of then.
OldRowsGo ==
  calm > Week + 1 => \A ts \in closed : nowEpoch - ts <= Retention + Week
=============================================================================
