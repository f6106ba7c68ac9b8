--------------------------- MODULE NotificationLog ---------------------------
(***************************************************************************)
(* The notification log of one user, line by line: what the engine appends *)
(* to it and reads back, and its rotation.  NotificationLogStorage.cpp,    *)
(* NotificationRecord.cpp, NotificationFolder.cpp,                         *)
(* NotificationLogRotation.cpp; of the engine only what reaches the file.  *)
(***************************************************************************)
EXTENDS LineFile

CONSTANT Key  \* notifications of this user: event id and status

(* lines and unterminated are /notif_<chat>.jsonl.  Names that EventLog has *)
(* too are prefixed.                                                       *)
VARIABLES
  fresh,    \* keys with a first attempt in the engine's queue
  scanned,  \* rows with an attempt in the queue
  failed,   \* fsErrorCounter() has counted something
  (* History variables: nothing in the code reads them. *)
  used,     \* keys that were notified
  whole,    \* of each key in the log, the last row that was appended whole
  wiped     \* changes with every /resetnotif

notifVars == <<file, fresh, scanned, failed, used, whole, wiped>>

NotifyState == {"PENDING", "RESOLVED", "ABANDONED"}
NotificationRecord == [key : Key, state : NotifyState, ts : Time]

ASSUME NotifTornAssumption == Torn \notin NotificationRecord

-----------------------------------------------------------------------------
(* Reading.                                                                *)

KeysIn(ls) == {rec.key : rec \in Readable(ls)}

\* The last row of each key.
foldNotificationRecords(ls) ==
  [k \in KeysIn(ls) |->
     ls[Max({i \in Parsed(ls) : ls[i].key = k})]]

\* A file that cannot be opened reads as an empty one.
Loadable(ls) == {ls} \cup (IF "load" \in Faults THEN {<< >>} ELSE {})

pendingFrom(latest) == {k \in DOMAIN latest : latest[k].state = "PENDING"}

-----------------------------------------------------------------------------
(* The engine: attempts are queued for new notifications and by scans, and *)
(* their outcomes append rows.                                             *)

\* appendNotificationRecord.
appendNotificationRecord(rec) ==
  \E o \in Appends(rec) :
    /\ lines' = o.file.lines /\ unterminated' = o.file.unterminated
    /\ failed' = (failed \/ ~o.ok)
    /\ whole' = IF Len(lines') > Len(lines) /\ Last(lines') = rec
                THEN [k \in DOMAIN whole \cup {rec.key} |-> IF k = rec.key THEN rec ELSE whole[k]]
                ELSE whole

NothingWritten == UNCHANGED <<file, failed, whole>>

\* notifyEvent.
notifyEvent(k) ==
  /\ k \notin used
  /\ used' = used \cup {k}
  /\ fresh' = fresh \cup {k}
  /\ UNCHANGED <<file, scanned, failed, whole, wiped>>

\* The outcome of a first attempt: no row if it succeeded, or if a PENDING
\* row is suspended; ts of a PENDING row is the event's, of a final one now.
FirstOutcome(k) ==
  /\ k \in fresh
  /\ fresh' = fresh \ {k}
  /\ \/ NothingWritten
     \/ Room /\ \E state \in {"PENDING", "ABANDONED"}, ts \in Time :
          appendNotificationRecord([key |-> k, state |-> state, ts |-> ts])
  /\ UNCHANGED <<scanned, used, wiped>>

\* A scan, when none is in progress, queues what it finds pending.
runRecoveryScan ==
  /\ scanned = {}
  /\ \E ls \in Loadable(lines) :
       LET latest == foldNotificationRecords(ls)
       IN  scanned' = {latest[k] : k \in pendingFrom(latest)}
  /\ UNCHANGED <<file, fresh, failed, used, whole, wiped>>

\* The outcome of an attempt of a scan.
ScanOutcome(rec) ==
  /\ rec \in scanned
  /\ scanned' = scanned \ {rec}
  /\ \/ NothingWritten
     \/ Room /\ appendNotificationRecord(rec)
     \/ Room /\ \E state \in {"RESOLVED", "ABANDONED"}, ts \in Time :
          appendNotificationRecord([key |-> rec.key, state |-> state, ts |-> ts])
  /\ UNCHANGED <<fresh, used, wiped>>

-----------------------------------------------------------------------------
(* Rotation, a reset by hand, a reset of the board.                        *)

\* Mutant: a line is judged by itself, not by the last one of its key.
Eligible_ByLine(latest, rec, cutoff) == rec.state # "PENDING" /\ rec.ts < cutoff

\* The notification is settled and old.
Eligible(latest, rec, cutoff) ==
  /\ rec.key \in DOMAIN latest
  /\ latest[rec.key].state # "PENDING"
  /\ latest[rec.key].ts < cutoff

\* What the temporary file is given: no torn lines.
RotatedLines(latest, cutoff) ==
  LinesAt(lines, {i \in Parsed(lines) : ~Eligible(latest, lines[i], cutoff)})

\* Mutant: the file is replaced though not all of it could be printed.
rotateNotificationLog_ShortAccepted(cutoff) ==
  /\ \E ls \in Loadable(lines) :
       LET rotated == RotatedLines(foldNotificationRecords(ls), cutoff)
       IN  \E n \in 0..Len(rotated) : lines' = SubSeq(rotated, 1, n)
  /\ unterminated' = FALSE
  /\ whole' = Restrict(whole, KeysIn(lines'))
  /\ UNCHANGED <<fresh, scanned, failed, used, wiped>>

\* rotateNotificationLog: the log is read twice, once for its rows and once
\* line by line; the temporary file replaces it only when it is complete.
rotateNotificationLog(cutoff) ==
  /\ lines # << >>
  /\ \E ls \in Loadable(lines) : lines' = RotatedLines(foldNotificationRecords(ls), cutoff)
  /\ unterminated' = FALSE
  /\ whole' = Restrict(whole, KeysIn(lines'))
  /\ UNCHANGED <<fresh, scanned, failed, used, wiped>>

\* The temporary file cannot be opened, comes short or cannot be renamed:
\* only the last two are counted.
NotifRotationFails ==
  /\ "rename" \in Faults
  /\ lines # << >>
  /\ failed' \in {failed, TRUE}
  /\ UNCHANGED <<file, fresh, scanned, used, whole, wiped>>

\* /resetnotif.
handleResetNotif ==
  /\ "reset" \in Faults
  /\ lines' = << >> /\ unterminated' = FALSE
  /\ whole' = << >>
  /\ wiped' = ~wiped
  /\ UNCHANGED <<fresh, scanned, failed, used>>

\* A reset of the board: the queue is lost, the file is not.  (A temporary
\* file left behind is removed by setup and read by nobody.)
NotifCrash ==
  /\ "crash" \in Faults
  /\ fresh' = {} /\ scanned' = {}
  /\ failed' = FALSE
  /\ UNCHANGED <<file, used, whole, wiped>>

NotifInit ==
  /\ lines = << >> /\ unterminated = FALSE
  /\ fresh = {} /\ scanned = {}
  /\ failed = FALSE
  /\ used = {} /\ whole = << >> /\ wiped = FALSE

NotifNext ==
  \/ \E k \in Key : notifyEvent(k) \/ FirstOutcome(k)
  \/ runRecoveryScan
  \/ \E rec \in NotificationRecord : ScanOutcome(rec)
  \/ \E cutoff \in Time : rotateNotificationLog(cutoff)
  \/ NotifRotationFails
  \/ handleResetNotif
  \/ NotifCrash

NotifSpec == NotifInit /\ [][NotifNext]_notifVars

-----------------------------------------------------------------------------
(* Properties.                                                             *)

\* The variables range over what the engine and the file format allow; a
\* scan queues PENDING rows only.
NotifTypeOK ==
  /\ lines \in Seq(NotificationRecord \cup {Torn})
  /\ unterminated \in BOOLEAN /\ failed \in BOOLEAN
  /\ fresh \subseteq used /\ used \subseteq Key
  /\ scanned \subseteq {rec \in NotificationRecord : rec.state = "PENDING"}
  /\ whole \in [DOMAIN whole -> NotificationRecord] /\ DOMAIN whole \subseteq used
  /\ wiped \in BOOLEAN

\* Whatever becomes of lines, a file that is read back as the last row of
\* each key is the store of rows the engine works with: a write changes one
\* notification or none, a rotation removes settled ones whole and nothing
\* else, and no other step changes anything (DESIGN.md 7.2, 9.3).
Store == INSTANCE RowStore WITH
           rows <- foldNotificationRecords(lines)

ImplementsRowStore == Store!Spec

\* What is read back of a notification is the last row of it that was
\* appended whole: no torn write, and no rotation that removes some lines of
\* it and not the others, lets an older row show through.
ReadsLastWhole == foldNotificationRecords(lines) = whole
=============================================================================
