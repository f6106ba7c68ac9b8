-------------------------- MODULE MaintenanceProofs --------------------------
(***************************************************************************)
(* Theorems about Maintenance, for any week, retention, clock errors and   *)
(* range of the epochs.                                                    *)
(*                                                                         *)
(* The schedule is advanced after the last rename, so that with a rotation *)
(* to be recorded the log has nothing left that it was to remove.  That a  *)
(* rotation comes in time rests on the age of the stamp: a stamp ahead of  *)
(* the clock looks old, since the difference is taken modulo Wrap, until   *)
(* the clock has reached it.  How old the rows get follows from when the   *)
(* last rotation was done and what it left.                                *)
(***************************************************************************)
EXTENDS Maintenance, TLAPS

\* The age of the stamp, as isRotationDue computes it.
Age == (nowEpoch - last_rotation) % Wrap

\* A clock that has not been synchronized is off by a member of Skew, or
\* stands where it was started from 0.
SkewKnown == skew \in Skew \/ (skew \in Int /\ skew <= 0)

\* What was to be removed is gone when the schedule is to be advanced.
DoneInv ==
  phase = "save" /\ ~unread => \A ts \in closed : ts >= retentionCutoff(stamp)

\* Since the last disturbance a rotation has been completed if calm > idle:
\* at last_rotation, idle ticks ago, and it has left nothing too old.
LeftInv ==
  /\ idle <= calm
  /\ calm > 0 => up /\ skew = 0
  /\ unread => calm = 0 /\ phase = "save"
  /\ phase # "none" => up /\ stamp = nowEpoch
  /\ calm > idle => /\ nowEpoch = last_rotation + idle /\ idle <= Week
                    /\ \A ts \in closed : ts >= last_rotation - Retention

IdleInv ==
  /\ idle > 0 => up /\ skew = 0 /\ idle <= Age + 1
  /\ idle > 0 /\ checked /\ phase = "none" => Age < Week
  /\ idle <= Week + 1

IInv == TypeOK /\ SkewKnown /\ DoneInv /\ IdleInv /\ LeftInv

-----------------------------------------------------------------------------
(* Arithmetic of epochs.                                                   *)

LEMMA RetentionType == Retention \in 0..MaxTime
  BY MaintenanceAssumption DEF Retention

LEMMA EpochMod ==
  ASSUME NEW t \in Int
  PROVE  t % Wrap \in Epoch
  BY MaintenanceAssumption DEF Epoch

LEMMA AgeType == TypeOK => Age \in Nat /\ nowEpoch \in Int
  BY EpochMod DEF Age, TypeOK, Epoch

\* Until the next check the stamp gets older by what the clock advances.
LEMMA AgeTick ==
  ASSUME NEW t \in Epoch, NEW last \in Epoch, t + 1 \in Epoch,
         (t - last) % Wrap < Week
  PROVE  ((t + 1) - last) % Wrap = ((t - last) % Wrap) + 1
  <1>1. \A u \in Epoch : (u - last) % Wrap = IF u >= last THEN u - last ELSE u - last + Wrap
    BY MaintenanceAssumption DEF Epoch
  <1>2. Wrap > Week
    BY MaintenanceAssumption
  <1> QED
    BY <1>1, <1>2, MaintenanceAssumption DEF Epoch
-----------------------------------------------------------------------------
(* Types.                                                                  *)

LEMMA InitIInv == Init => IInv
  <1> SUFFICES ASSUME Init PROVE IInv
    OBVIOUS
  <1>1. time \in 0..MaxTime /\ skew = 0 /\ nowEpoch = time
    BY RetentionType, MaintenanceAssumption DEF Init, nowEpoch
  <1>2. nowEpoch \in Epoch /\ 0 \in Epoch
    BY <1>1, MaintenanceAssumption DEF Epoch
  <1>3. TypeOK
    <2>1. status \in Status /\ phase \in {"none", "rotate", "save"}
      BY DEF Init, Status
    <2>2. skew \in Int /\ closed \subseteq Epoch /\ idle \in Nat /\ calm \in Nat
      BY <1>1 DEF Init
    <2>3. unread \in BOOLEAN
      BY DEF Init
    <2> QED
      BY <1>1, <1>2, <2>1, <2>2, <2>3 DEF Init, TypeOK
  <1>4. SkewKnown /\ DoneInv
    BY <1>1 DEF Init, SkewKnown, DoneInv
  <1>5. IdleInv
    BY MaintenanceAssumption DEF Init, IdleInv
  <1>6. LeftInv
    BY DEF Init, LeftInv
  <1> QED
    BY <1>3, <1>4, <1>5, <1>6 DEF IInv

\* A clock that is known stays within the epochs as time passes.
LEMMA ClockType ==
  ASSUME NEW t \in 0..MaxTime, NEW s \in Int, s \in Skew \/ s <= 0, t + s >= 0
  PROVE  t + s \in Epoch
  BY MaintenanceAssumption DEF Epoch

LEMMA TypeStep == IInv /\ [Next]_vars => TypeOK' /\ SkewKnown'
  <1> SUFFICES ASSUME IInv, [Next]_vars PROVE TypeOK' /\ SkewKnown'
    OBVIOUS
  <1> USE DEF IInv, TypeOK, SkewKnown
  <1>z. 0 \in Epoch
    BY MaintenanceAssumption DEF Epoch
  <1>1. CASE performMaintenanceIfDue
    BY <1>1 DEF performMaintenanceIfDue, nowEpoch
  <1>2. CASE rotateEventLog
    BY <1>2 DEF rotateEventLog, nowEpoch
  <1>3. CASE RotationFails
    BY <1>3, <1>z DEF RotationFails, nowEpoch
  <1>11. CASE LogUnread
    BY <1>11 DEF LogUnread, nowEpoch
  <1>4. CASE saveLastRotationEpoch
    BY <1>4, <1>z DEF saveLastRotationEpoch, nowEpoch
  <1>5. CASE EventConcluded
    BY <1>5 DEF EventConcluded, nowEpoch
  <1>6. CASE Tick
    <2>1. time' \in 0..MaxTime /\ skew' = skew /\ time' + skew' >= 0
      BY <1>6, MaintenanceAssumption DEF Tick, nowEpoch, Epoch
    <2>2. nowEpoch' \in Epoch
      BY <2>1, ClockType DEF nowEpoch
    <2>3. idle' \in Nat /\ calm' \in Nat
      BY <1>6 DEF Tick
    <2> QED
      BY <1>6, <2>1, <2>2, <2>3 DEF Tick
  <1>7. CASE Synced
    <2>1. nowEpoch' \in Epoch
      BY <1>7, ClockType DEF Synced, nowEpoch
    <2> QED
      BY <1>7, <2>1 DEF Synced
  <1>8. CASE Crash
    BY <1>8, <1>z DEF Crash, nowEpoch, Status
  <1>9. CASE Boot
    <2>1. skew' \in Int /\ (skew' \in Skew \/ skew' <= 0) /\ time + skew' >= 0
      <3>1. CASE skew' = -time
        BY <3>1
      <3>2. CASE skew' \in Skew /\ time + skew' >= 0
        BY <3>2, MaintenanceAssumption
      <3> QED
        BY <1>9, <3>1, <3>2 DEF Boot
    <2>2. nowEpoch' \in Epoch
      BY <1>9, <2>1, ClockType DEF Boot, nowEpoch
    <2> QED
      BY <1>9, <2>1, <2>2 DEF Boot
  <1>10. CASE UNCHANGED vars
    BY <1>10 DEF vars, nowEpoch
  <1> QED
    BY <1>1, <1>2, <1>3, <1>4, <1>5, <1>6, <1>7, <1>8, <1>9, <1>10, <1>11
       DEF Next

-----------------------------------------------------------------------------
(* What a rotation leaves, and when one comes.                             *)

LEMMA DoneStep == IInv /\ [Next]_vars => DoneInv'
  <1> SUFFICES ASSUME IInv, [Next]_vars PROVE DoneInv'
    OBVIOUS
  <1> USE DEF IInv, DoneInv
  <1>1. CASE rotateEventLog
    <2>1. retentionCutoff(stamp) \in Epoch
      BY EpochMod, RetentionType DEF TypeOK, Epoch, retentionCutoff
    <2> QED
      BY <1>1, <2>1 DEF rotateEventLog, Old, TypeOK, Epoch, retentionCutoff
  <1>2. CASE performMaintenanceIfDue
    BY <1>2 DEF performMaintenanceIfDue
  <1>3. CASE EventConcluded
    BY <1>3 DEF EventConcluded
  <1>4. CASE Tick \/ Synced \/ Boot \/ UNCHANGED vars
    BY <1>4 DEF Tick, Synced, Boot, vars, retentionCutoff
  <1>5. CASE RotationFails \/ LogUnread \/ saveLastRotationEpoch \/ Crash
    BY <1>5 DEF RotationFails, LogUnread, saveLastRotationEpoch, Crash
  <1> QED
    BY <1>1, <1>2, <1>3, <1>4, <1>5 DEF Next

LEMMA IdleStep == IInv /\ [Next]_vars => IdleInv'
  <1> SUFFICES ASSUME IInv, [Next]_vars PROVE IdleInv'
    OBVIOUS
  <1> USE DEF IInv, IdleInv
  <1>1. CASE performMaintenanceIfDue
    <2>1. Age' = Age /\ UNCHANGED <<idle, up, skew>>
      BY <1>1 DEF performMaintenanceIfDue, Age, nowEpoch
    <2>2. phase' = "none" => Age < Week
      BY <1>1, AgeType, MaintenanceAssumption DEF performMaintenanceIfDue, isRotationDue, Age
    <2> QED
      BY <2>1, <2>2
  <1>2. CASE rotateEventLog
    BY <1>2 DEF rotateEventLog, Age, nowEpoch
  <1>3. CASE RotationFails \/ LogUnread \/ saveLastRotationEpoch \/ Synced \/ Crash
    <2>1. idle' = 0
      BY <1>3 DEF RotationFails, LogUnread, saveLastRotationEpoch, Synced, Crash
    <2> QED
      BY <2>1, MaintenanceAssumption
  <1>4. CASE EventConcluded
    BY <1>4 DEF EventConcluded, Age, nowEpoch
  <1>5. CASE Tick
    <2>1. CASE up /\ skew = 0 /\ idle > 0
      <3>1. idle <= Age + 1 /\ Age < Week
        BY <1>5, <2>1 DEF Tick
      <3>2. Age' = Age + 1
        <4>1. nowEpoch' = nowEpoch + 1
          BY <1>5 DEF Tick, nowEpoch, TypeOK
        <4>2. nowEpoch' \in Epoch
          BY TypeStep DEF TypeOK
        <4> QED
          BY <1>5, <3>1, <4>1, <4>2, AgeTick DEF Tick, Age, TypeOK
      <3> QED
        BY <1>5, <2>1, <3>1, <3>2, AgeType, MaintenanceAssumption DEF Tick, TypeOK
    <2>2. CASE up /\ skew = 0 /\ idle = 0
      <3>1. PICK age \in Nat : age = Age'
        BY TypeStep, EpochMod DEF TypeOK, Age, Epoch
      <3>2. idle' = 1
        BY <1>5, <2>2 DEF Tick
      <3>3. idle' <= age + 1 /\ idle' <= Week + 1
        BY <3>2, MaintenanceAssumption
      <3>4. up' /\ skew' = 0 /\ ~checked'
        BY <1>5, <2>2 DEF Tick
      <3> QED
        BY <3>1, <3>3, <3>4
    <2>3. CASE ~(up /\ skew = 0)
      BY <1>5, <2>3, MaintenanceAssumption DEF Tick
    <2> QED
      BY <2>1, <2>2, <2>3 DEF TypeOK
  <1>6. CASE Boot
    <2>1. idle = 0
      BY <1>6 DEF Boot, TypeOK
    <2> QED
      BY <1>6, <2>1, MaintenanceAssumption DEF Boot
  <1>7. CASE UNCHANGED vars
    BY <1>7 DEF vars, Age, nowEpoch
  <1> QED
    BY <1>1, <1>2, <1>3, <1>4, <1>5, <1>6, <1>7 DEF Next

\* A rotation that is completed leaves what its cutoff allows; until the
\* next one every row that is added is younger than that.
LEMMA LeftStep == IInv /\ [Next]_vars => LeftInv'
  <1> SUFFICES ASSUME IInv, [Next]_vars PROVE LeftInv'
    OBVIOUS
  <1> USE DEF IInv, LeftInv
  <1>r. Retention \in Nat
    BY RetentionType
  <1>1. CASE performMaintenanceIfDue
    BY <1>1 DEF performMaintenanceIfDue, nowEpoch
  <1>2. CASE rotateEventLog
    BY <1>2 DEF rotateEventLog, nowEpoch
  <1>3. CASE RotationFails \/ LogUnread \/ Crash
    BY <1>3 DEF RotationFails, LogUnread, Crash, nowEpoch
  <1>4. CASE saveLastRotationEpoch
    <2>1. CASE unread
      BY <1>4, <2>1 DEF saveLastRotationEpoch, TypeOK
    <2>2. CASE ~unread
      <3>1. \A ts \in closed' : ts >= last_rotation' - Retention
        <4>1. stamp \in Epoch /\ retentionCutoff(stamp) >= stamp - Retention
          BY <1>r, MaintenanceAssumption DEF TypeOK, retentionCutoff, Epoch
        <4> QED
          BY <1>4, <2>2, <4>1, <1>r, EpochMod DEF saveLastRotationEpoch, DoneInv, TypeOK, Epoch, retentionCutoff
      <3>2. nowEpoch' = last_rotation' + idle'
        BY <1>4 DEF saveLastRotationEpoch, nowEpoch, TypeOK
      <3> QED
        BY <1>4, <2>2, <3>1, <3>2, MaintenanceAssumption DEF saveLastRotationEpoch, TypeOK
    <2> QED
      BY <2>1, <2>2
  <1>5. CASE EventConcluded
    <2>1. nowEpoch' = nowEpoch /\ closed' = closed \cup {nowEpoch}
          /\ UNCHANGED <<idle, calm, up, skew, unread, phase, stamp, last_rotation>>
      BY <1>5 DEF EventConcluded, nowEpoch
    <2> QED
      BY <2>1, <1>r DEF TypeOK, Epoch
  <1>6. CASE Tick
    <2>1. nowEpoch' = nowEpoch + 1 /\ phase' = "none"
      BY <1>6 DEF Tick, nowEpoch, TypeOK
    <2>2. CASE up /\ skew = 0 /\ calm > idle
      <3>1. idle + 1 <= Week
        <4>1. Age = idle
          BY <2>2, MaintenanceAssumption DEF Age, TypeOK, Epoch
        <4>2. idle > 0 => Age < Week
          BY <1>6, <2>2 DEF IdleInv, Tick
        <4> QED
          BY <4>1, <4>2, MaintenanceAssumption DEF TypeOK
      <3> QED
        <4>1. idle' = idle + 1 /\ calm' = calm + 1 /\ ~unread /\ idle \in Nat /\ calm \in Nat
          BY <1>6, <2>2 DEF Tick, TypeOK
        <4>2. UNCHANGED <<up, skew, last_rotation, closed, unread>>
          BY <1>6 DEF Tick
        <4>3. nowEpoch' = last_rotation' + idle'
          BY <2>1, <2>2, <4>1, <4>2 DEF TypeOK, Epoch
        <4> QED
          BY <2>1, <2>2, <3>1, <4>1, <4>2, <4>3
    <2>3. CASE up /\ skew = 0 /\ ~(calm > idle)
      BY <1>6, <2>1, <2>3 DEF Tick, TypeOK
    <2>4. CASE ~(up /\ skew = 0)
      BY <1>6, <2>1, <2>4 DEF Tick, TypeOK
    <2> QED
      BY <2>2, <2>3, <2>4
  <1>7. CASE Synced
    BY <1>7 DEF Synced, TypeOK
  <1>8. CASE Boot
    <2>1. calm = 0 /\ idle = 0
      BY <1>8 DEF Boot, IdleInv, TypeOK
    <2>2. phase = "none"
      BY <1>8 DEF Boot
    <2> QED
      BY <1>8, <2>1, <2>2 DEF Boot
  <1>9. CASE UNCHANGED vars
    BY <1>9 DEF vars, nowEpoch
  <1> QED
    BY <1>1, <1>2, <1>3, <1>4, <1>5, <1>6, <1>7, <1>8, <1>9 DEF Next

LEMMA Invariance == Spec => []IInv
  BY InitIInv, TypeStep, DoneStep, IdleStep, LeftStep, PTL DEF Spec, IInv

-----------------------------------------------------------------------------
(* The theorems.                                                           *)

\* The clock always shows an epoch, whatever it was started from, and so do
\* the schedule and the rows.
THEOREM TypeCorrect == Spec => []TypeOK
  <1>1. IInv => TypeOK
    BY DEF IInv
  <1> QED
    BY <1>1, Invariance, PTL

\* The schedule in NVS advances only to a rotation that has left nothing of
\* what it was to remove, wherever resets and failures of its second pass
\* cut others short.  A log that cannot be opened for the first is excepted:
\* the code records such a rotation.
THEOREM RotationRecordedWhenDoneHolds == Spec => RotationRecordedWhenDone
  <1> DEFINE Recorded ==
        last_rotation' # last_rotation /\ ~unread =>
          \A ts \in closed' : ts >= retentionCutoff(last_rotation')
  <1>1. IInv /\ [Next]_vars => [Recorded]_vars
    <2> SUFFICES ASSUME IInv, [Next]_vars PROVE Recorded
      OBVIOUS
    <2>1. CASE saveLastRotationEpoch
      BY <2>1 DEF saveLastRotationEpoch, IInv, DoneInv, retentionCutoff
    <2>2. CASE ~saveLastRotationEpoch
      BY <2>2 DEF Next, performMaintenanceIfDue, rotateEventLog, RotationFails,
                  LogUnread, EventConcluded, Tick, Synced, Crash, Boot, vars
    <2> QED
      BY <2>1, <2>2
  <1> QED
    BY <1>1, Invariance, PTL DEF Spec, RotationRecordedWhenDone

\* With a clock that is right and rotations that succeed no week and check
\* pass without one, whatever an earlier clock has left in NVS.
THEOREM RotationOnTimeHolds == Spec => []RotationOnTime
  <1>1. IInv => RotationOnTime
    BY DEF IInv, IdleInv, RotationOnTime
  <1> QED
    BY <1>1, Invariance, PTL

\* Whatever resets, failures and clocks have come before: a week and a check
\* after the last of them nothing in the log is older than the retention
\* period and a week.
THEOREM OldRowsGoHolds == Spec => []OldRowsGo
  <1>1. IInv => OldRowsGo
    <2> SUFFICES ASSUME IInv, calm > Week + 1, NEW ts \in closed
                 PROVE  nowEpoch - ts <= Retention + Week
      BY DEF OldRowsGo
    <2>1. calm > idle
      BY MaintenanceAssumption DEF IInv, IdleInv, TypeOK
    <2>2. nowEpoch = last_rotation + idle /\ ts >= last_rotation - Retention
      BY <2>1 DEF IInv, LeftInv
    <2>3. idle <= Week
      BY <2>1 DEF IInv, LeftInv
    <2> QED
      BY <2>2, <2>3, RetentionType, MaintenanceAssumption DEF IInv, TypeOK, Epoch
  <1> QED
    BY <1>1, Invariance, PTL
=============================================================================
