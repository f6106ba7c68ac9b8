------------------------------ MODULE Notifier ------------------------------
(***************************************************************************)
(* From a transition to the users: the event log and the notification      *)
(* engine together, as the sketch (Notifier.ino) joins them.  What writes  *)
(* a row (logAndNotifyEvent, closeOpenEvent) calls notifyEvent in the same *)
(* step, if the append is reported to have worked and the policy of the    *)
(* type wants it.  A reset takes the RAM of both, the engine's queue with  *)
(* it; the event log, the notification log and the whitelist are in flash. *)
(* The rotations of the two logs are steps of their own, in either order.  *)
(*                                                                         *)
(* NotificationEngine assumes that no key is notified twice.  Here nothing *)
(* is assumed of the calls: they are those that the event log makes.       *)
(***************************************************************************)
EXTENDS EventLog

CONSTANTS
  User, Admin, NoKey, MaxRetries, AggregateThreshold, MaxQueue,
  EngineFaults,  \* disturbances of the engine that the run lets happen
  NetworkIssue   \* EventType::NETWORK_ISSUE

\* notificationKey: what a row of the event log is to the engine.
NoteKey == Id \X {"START", "END", "INSTANT"}

VARIABLES
  whitelist, booted, queue, active, due, scanInProgress, inFlight, hadPending,
  rows, degraded, systemError, fate, unrecorded, slipped,
  (* A history variable. *)
  removed        \* keys of rows that /resetlog took away, or a rotation rightly

Engine == INSTANCE NotificationEngine WITH Key <- NoteKey, Faults <- EngineFaults

ASSUME NotifierAssumption ==
  /\ IsFiniteSet(User) /\ Admin \subseteq User
  /\ NoKey \notin NoteKey
  /\ MaxRetries \in Nat /\ AggregateThreshold \in Nat /\ MaxQueue \in Nat
  /\ EngineFaults \subseteq Engine!FaultKinds

engine == <<whitelist, booted, queue, active, due, scanInProgress, inFlight, hadPending,
            rows, degraded, systemError, fate, unrecorded, slipped>>
allVars == <<vars, engine, removed>>

Keys(ls) == {KeyOf(rec) : rec \in Readable(ls)}

\* Those of events that are over.
Concluded(ls) ==
  {KeyOf(rec) : rec \in {r \in Readable(ls) :
     \E last \in Readable(ls) : last.id = r.id /\ last.status # "START"}}

-----------------------------------------------------------------------------
(* The calls.                                                              *)

\* notifyEvent, for whoever it addresses, and the recovery scan that follows
\* the end of an outage.
notifyUsers(k, asked) ==
  \E R \in SUBSET whitelist :
    \E s \in SetToSeqs({Engine!EventMessage(u, k) : u \in R}) :
      /\ fate' = [u \in User |-> [j \in NoteKey |->
                    IF u \in R /\ j = k THEN "owed" ELSE fate[u][j]]]
      /\ Engine!runRecoveryScan(asked, queue \o s, rows, << >>)

\* Nothing is notified; alertOnFirstFsError.
alertOnFirstFsError(alert, asked) ==
  /\ \E a \in SetToSeqs(IF alert /\ Len(queue) < MaxQueue THEN Engine!AdminAlerts ELSE {}) :
       Engine!runRecoveryScan(asked, queue \o a, rows, << >>)
  /\ UNCHANGED fate

\* What a step that may have logged a row asks of the engine.  The event log
\* remembers a key that is notified for the second time, not for the third.
Heard(alert, asked) ==
  /\ \/ \E k \in notified' \ notified : notifyUsers(k, asked)
     \/ /\ notified' = notified
        /\ \/ alertOnFirstFsError(alert, asked)
           \/ \E k \in repeated' : notifyUsers(k, asked)
  /\ UNCHANGED <<whitelist, booted, active, due, rows, unrecorded, degraded,
                 systemError, removed>>

\* The append of this step has failed, the first since the boot.
FirstError == errors = 0 /\ errors' = 1

-----------------------------------------------------------------------------
(* The parts of a turn.                                                    *)

\* A pin or the tracker has a transition to log.  When an outage is over a
\* scan is asked for, whether or not there was an event to end.
Transition(type) ==
  /\ LogStart(type) \/ LogEnd(type) \/ LogIgnored(type)
  /\ Heard(FirstError, type = NetworkIssue /\ said'[type] = "END")

\* An arming command, and the REBOOT of setup.
Single ==
  /\ Boot \/ \E type \in Instant \ {Reboot} : LogInstant(type)
  /\ Heard(FirstError, FALSE)

\* Failures of closeOpenEvent are not reported.
ByHand == \E id \in Id : closeOpenEvent(id) /\ Heard(FALSE, FALSE)

\* What rotates the event log or wipes it leaves the engine alone.
Wiped ==
  /\ handleResetLog
  /\ removed' = removed \cup Keys(lines)
  /\ UNCHANGED engine

Rotated ==
  /\ RotationDue \/ RotationCycle \/ RotationFails
  /\ removed' = removed \cup (Concluded(lines) \ Keys(lines'))
  /\ UNCHANGED engine

\* What the engine does by itself, in the turns of the loop.
EngineAlone ==
  /\ Running
  /\ \/ Engine!BootTasks
     \/ Engine!Maintenance
     \/ Engine!AdminAlert
     \/ Engine!WhitelistChange
     \/ \E u \in User : Engine!handleResetNotif(u)
     \/ Engine!tickNotificationEngine
     \/ Engine!TimerElapses
  /\ UNCHANGED <<vars, removed>>

PowerLost == Crash /\ Engine!Crash /\ UNCHANGED removed

NotifierInit == Init /\ Engine!Init /\ removed = {}

NotifierNext ==
  \/ \E type \in Duration : Transition(type)
  \/ Single
  \/ ByHand
  \/ Wiped
  \/ Rotated
  \/ EngineAlone
  \/ PowerLost

NotifierSpec == NotifierInit /\ [][NotifierNext]_allVars

-----------------------------------------------------------------------------
(* Properties.                                                             *)

\* As long as no append was misreported, whatever is logged, closed by hand,
\* rotated, wiped or lost in a reset, the engine is used as
\* NotificationEngine assumes: no key is notified twice, before or after a
\* reset.
EngineUsedAsAssumed ==
  [][misreported' = {} => [Engine!Next]_(Engine!vars)]_allVars

\* So nobody is told twice of an event, and nobody who was to be told of it
\* is forgotten, but for rows of the notification log that were lost.
ToldOnce ==
  misreported = {} =>
    Engine!OneAttemptQueued /\ Engine!NoResend /\ Engine!NothingForgotten

\* What is queued or to be retried is about a row of the event log, where
\* findEventRecordById has its type for the text, or about an event that was
\* over when rotation took it away: that of an event still open is never
\* gone, unless the log was wiped, or its writer misled.
RetriesFindTheirEvent ==
  \A u \in User, k \in NoteKey :
    <<u, k>> \in Engine!TrackedIn(queue) \/ rows[u][k].state = "PENDING" =>
      k \in Keys(lines) \cup removed \cup misreported
=============================================================================
