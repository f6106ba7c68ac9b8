------------------------------ MODULE EventLog ------------------------------
(***************************************************************************)
(* The event log: a JSON Lines file that is only appended to, what is read *)
(* back from it (the open events, the last timestamp), and its rotation.   *)
(* EventLogStorage.cpp, OpenEventsTracker.cpp, OpenEventsManager.cpp,      *)
(* logAndNotifyEvent of the sketch, EventLogRotation.cpp.                  *)
(*                                                                         *)
(* Lines parse or are Torn, as LineFile has it.                            *)
(***************************************************************************)
EXTENDS LineFile

CONSTANTS
  Duration,  \* types that start and end
  OnlyEnd,   \* those of policy ONLY_END; the others are START_AND_END
  Instant,   \* types of policy INSTANT
  Reboot,    \* EventType::REBOOT
  Cap,       \* kMaxDeletableIdsPerPass
  MaxId      \* bound: so many events in a behaviour

ASSUME LogAssumption ==
  /\ IsFiniteSet(Duration) /\ OnlyEnd \subseteq Duration
  /\ Reboot \in Instant /\ Instant \cap Duration = {}
  /\ Cap \in Nat \ {0} /\ MaxId \in Nat \ {0}

(* lines and unterminated are /log.jsonl. *)
VARIABLES
  up,            \* the board runs
  lastWritten,   \* g_lastWrittenTs
  errors,        \* fsErrorCounter().count(), up to 2
  rotation,      \* cutoff of the rotation under way, 0 if there is none
  nextId,        \* the next random id
  (* History variables: nothing in the code reads them. *)
  notified,      \* rows that notifyEvent was called for
  repeated,      \* those it was called for again
  misreported,   \* rows of which appendEventRecord told the wrong thing
  blind,         \* a boot has met a last line that does not parse
  said,          \* the last transition of each type
  astray         \* types whose transition the log has missed or overruled

ram == <<lastWritten, errors>>
history == <<notified, repeated, misreported, blind, said, astray>>
vars == <<file, up, ram, rotation, nextId, history>>

Type == Duration \cup Instant
Id == 1..MaxId
EventRecord == [id : Id, type : Type, status : {"START", "END", "INSTANT"}, ts : Time]
Line == EventRecord \cup {Torn}

KeyOf(rec) == <<rec.id, rec.status>>

ASSUME TornAssumption == Torn \notin EventRecord

\* Between two loop turns, or in setup: a rotation is not interrupted by
\* anything but a reset.
Running == up /\ rotation = 0
RoomToLog == Room /\ nextId \in Id

-----------------------------------------------------------------------------
(* Reading.                                                                *)

\* findOpenEvents: a START without an END of its id after it.
OpenEvents(ls) ==
  {ls[i] : i \in {j \in Parsed(ls) :
    /\ ls[j].status = "START"
    /\ \A h \in Parsed(ls) : h > j /\ ls[h].id = ls[j].id => ls[h].status # "END"}}

\* findOpenEventOfType: the latest one; ids are random, so any of equals.
OpenOfType(ls, type) ==
  LET open == {ev \in OpenEvents(ls) : ev.type = type}
  IN  {ev \in open : \A other \in open : other.ts <= ev.ts}

\* Mutant: the ring makes room for an event before it is full.
observe_EvictsEarly(ring, line, n) ==
  CASE line = Torn -> ring
    [] line # Torn /\ line.status = "END" ->
         [i \in DOMAIN ring |->
            IF ring[i].row.id = line.id THEN [ring[i] EXCEPT !.end = line.ts] ELSE ring[i]]
    [] OTHER ->
         Append(IF Len(ring) + 1 >= n /\ ring # << >> THEN Tail(ring) ELSE ring,
                [row |-> line, end |-> 0])

\* AggregatedEventLog::observe and pushNew, for a ring of n events: an END
\* belongs to the event of its id, unless that has left the ring.
observe(ring, line, n) ==
  CASE line = Torn -> ring
    [] line # Torn /\ line.status = "END" ->
         [i \in DOMAIN ring |->
            IF ring[i].row.id = line.id THEN [ring[i] EXCEPT !.end = line.ts] ELSE ring[i]]
    [] OTHER ->
         Append(IF Len(ring) = n THEN Tail(ring) ELSE ring, [row |-> line, end |-> 0])

\* What /log shows of the last n events, n being at least 1.
handleLog(ls, n) ==
  LET ring[i \in 0..Len(ls)] == IF i = 0 THEN << >> ELSE observe(ring[i - 1], ls[i], n)
  IN  ring[Len(ls)]

\* Mutant: the baseline is not read back at boot.
readLastWrittenTimestamp_Zero(ls) == 0

readLastWrittenTimestamp(ls) ==
  IF ls = << >> \/ Last(ls) = Torn THEN 0 ELSE Last(ls).ts

applyMonotonicClamp(ts) == IF ts < lastWritten THEN lastWritten ELSE ts

\* shouldNotifyForStatus of the type's policy.
shouldNotifyForStatus(type, status) ==
  CASE type \in Instant -> status = "INSTANT"
    [] type \in OnlyEnd -> status = "END"
    [] OTHER            -> status \in {"START", "END"}

-----------------------------------------------------------------------------
(* Writing.                                                                *)

\* fsErrorCounter().recordFailure(); 2 stands for more than one.
recordFailure == IF errors < 2 THEN errors + 1 ELSE 2

callNotifyEvent(rec) ==
  /\ notified' = notified \cup {KeyOf(rec)}
  /\ repeated' = repeated \cup ({KeyOf(rec)} \cap notified)

\* The row rec is appended (appendEventRecord), and notified if that is
\* reported to have worked and the policy wants it.  byHand: for closeOpenEvent.
\* Power lost between the two leaves what it leaves right after the call,
\* which only fills a queue in RAM: that is this step and Crash, and
\* notified then holds a call that nobody has heard.
LogRow(rec, byHand) ==
  \E o \in Appends(rec) :
    LET kept == rec \in Readable(o.file.lines)
    IN  /\ lines' = o.file.lines /\ unterminated' = o.file.unterminated
        /\ IF o.ok
           THEN /\ lastWritten' = rec.ts
                /\ UNCHANGED errors
                /\ IF shouldNotifyForStatus(rec.type, rec.status)
                   THEN callNotifyEvent(rec) ELSE UNCHANGED <<notified, repeated>>
           ELSE /\ errors' = recordFailure
                /\ UNCHANGED <<lastWritten, notified, repeated>>
        /\ misreported' = IF o.ok = kept THEN misreported ELSE misreported \cup {KeyOf(rec)}
        /\ astray' = IF kept /\ ~byHand THEN astray \ {rec.type} ELSE astray \cup {rec.type}

Row(id, type, status, ts) ==
  [id |-> id, type |-> type, status |-> status, ts |-> applyMonotonicClamp(ts)]

-----------------------------------------------------------------------------
(* What the loop and the commands log: logAndNotifyEvent.                  *)

\* Mutant: a START is logged though one is open.
LogStart_Twice(type) ==
  /\ Running /\ RoomToLog
  /\ \E ts \in Time : LogRow(Row(nextId, type, "START", ts), FALSE)
  /\ nextId' = nextId + 1
  /\ said' = [said EXCEPT ![type] = "START"]
  /\ UNCHANGED <<up, rotation, blind>>

\* A START opens an event, unless one of that type is open.
LogStart(type) ==
  /\ Running /\ RoomToLog
  /\ OpenOfType(lines, type) = {}
  /\ \E ts \in Time : LogRow(Row(nextId, type, "START", ts), FALSE)
  /\ nextId' = nextId + 1
  /\ said' = [said EXCEPT ![type] = "START"]
  /\ UNCHANGED <<up, rotation, blind>>

\* An END ends the open event of its type, if there is one.
LogEnd(type) ==
  /\ Running /\ RoomToLog
  /\ \E ev \in OpenOfType(lines, type), ts \in Time :
       LogRow(Row(ev.id, type, "END", ts), FALSE)
  /\ said' = [said EXCEPT ![type] = "END"]
  /\ UNCHANGED <<up, rotation, nextId, blind>>

\* A START with an event open, an END with none: no row is written.
LogIgnored(type) ==
  /\ Running
  /\ said' = [said EXCEPT ![type] = IF OpenOfType(lines, type) = {} THEN "END" ELSE "START"]
  /\ astray' = astray \ {type}
  /\ UNCHANGED <<file, up, ram, rotation, nextId, notified, repeated, misreported,
                 blind>>

\* An arming command.
LogInstant(type) ==
  /\ Running /\ RoomToLog
  /\ \E ts \in Time : LogRow(Row(nextId, type, "INSTANT", ts), FALSE)
  /\ nextId' = nextId + 1
  /\ UNCHANGED <<up, rotation, blind, said>>

\* Mutant: nobody looks whether the event is still open.
closeOpenEvent_Blindly(id) ==
  /\ "close" \in Faults
  /\ Running /\ RoomToLog
  /\ \E ev \in {r \in Readable(lines) : r.id = id /\ r.status = "START"}, ts \in Time :
       LogRow(Row(id, ev.type, "END", ts), TRUE)
  /\ UNCHANGED <<up, rotation, nextId, blind, said>>

\* /closeevent or the button of the summary, pressed at any time later: the
\* event has to be open still.
closeOpenEvent(id) ==
  /\ "close" \in Faults
  /\ Running /\ RoomToLog
  /\ \E ev \in {e \in OpenEvents(lines) : e.id = id}, ts \in Time :
       LogRow(Row(id, ev.type, "END", ts), TRUE)
  /\ UNCHANGED <<up, rotation, nextId, blind, said>>

\* /reset log.
handleResetLog ==
  /\ "reset" \in Faults
  /\ Running
  /\ lines' = << >> /\ unterminated' = FALSE
  /\ lastWritten' = 0
  /\ astray' = Duration
  /\ UNCHANGED <<up, errors, rotation, nextId, notified, repeated, misreported,
                 blind, said>>

-----------------------------------------------------------------------------
(* Rotation: cycles of two passes, with the file replaced by a rename.     *)

\* rotateEverything: cutoff is what the clock and the retention give.
RotationDue ==
  /\ Running /\ lines # << >>
  /\ rotation' \in Time
  /\ UNCHANGED <<file, up, ram, nextId, history>>

\* Mutant: a row is judged by its age, whatever its status.
Closing_AnyStatus(cutoff) ==
  {i \in Parsed(lines) : lines[i].ts < cutoff}

\* DeletableIdCollector::observe, before the cap.
Closing(cutoff) ==
  {i \in Parsed(lines) : lines[i].status \in {"END", "INSTANT"} /\ lines[i].ts < cutoff}

\* Pass 1: the ids of the first Cap of them.
Collected(cutoff) ==
  {lines[i].id : i \in {j \in Closing(cutoff) :
                         Cardinality({h \in Closing(cutoff) : h <= j}) <= Cap}}

capReached(cutoff) == Cardinality(Closing(cutoff)) >= Cap

\* Mutant: pass 2 looks at the age of the row, not at its event.
Kept_ByAge(line, cutoff) == line # Torn /\ line.ts >= cutoff

\* Pass 2: rows of other events; what does not parse is discarded.
Kept(line, cutoff) == line # Torn /\ line.id \notin Collected(cutoff)

\* What the temporary file is given.
Copied(cutoff) == LinesAt(lines, {i \in DOMAIN lines : Kept(lines[i], cutoff)})

\* Mutant: the loop ends only when a pass has stayed below the cap.
RotationCycle_NoBreak ==
  /\ up /\ rotation # 0
  /\ lines' = Copied(rotation)
  /\ unterminated' = FALSE
  /\ rotation' = IF Collected(rotation) = {} \/ capReached(rotation) THEN rotation ELSE 0
  /\ UNCHANGED <<up, ram, nextId, history>>

RotationCycle ==
  /\ up /\ rotation # 0
  /\ IF Collected(rotation) = {}
     THEN rotation' = 0 /\ UNCHANGED file
     ELSE /\ lines' = Copied(rotation)
          /\ unterminated' = FALSE
          /\ rotation' = IF capReached(rotation) THEN rotation ELSE 0
  /\ UNCHANGED <<up, ram, nextId, history>>

\* The log cannot be opened for pass 1 (which the caller takes for a success:
\* Maintenance!LogUnread), a file of pass 2 cannot, or the temporary file
\* comes short or cannot be renamed: only the last two are counted.
RotationFails ==
  /\ "rename" \in Faults
  /\ up /\ rotation # 0 /\ Collected(rotation) # {}
  /\ errors' \in {errors, recordFailure}
  /\ rotation' = 0
  /\ UNCHANGED <<file, up, lastWritten, nextId, history>>

-----------------------------------------------------------------------------
(* The board.                                                              *)

\* A reset, also between the cycles of a rotation or before its rename (the
\* temporary file is removed at boot).  RAM is as setup finds it: the
\* baseline of the clamp is read back from the file.
Crash ==
  /\ "crash" \in Faults
  /\ up /\ RoomToLog
  /\ up' = FALSE
  /\ rotation' = 0
  /\ lastWritten' = readLastWrittenTimestamp(lines)
  /\ blind' = (blind \/ (lines # << >> /\ Last(lines) = Torn))
  /\ errors' = 0
  /\ UNCHANGED <<file, nextId, notified, repeated, misreported, said, astray>>

\* The rest of setup logs REBOOT.
Boot ==
  /\ ~up
  /\ up' = TRUE
  /\ \E ts \in Time : LogRow(Row(nextId, Reboot, "INSTANT", ts), FALSE)
  /\ nextId' = nextId + 1
  /\ UNCHANGED <<rotation, blind, said>>

Init ==
  /\ lines = << >> /\ unterminated = FALSE
  /\ up = FALSE
  /\ lastWritten = 0 /\ errors = 0
  /\ rotation = 0
  /\ nextId = 1
  /\ notified = {} /\ repeated = {} /\ misreported = {}
  /\ blind = FALSE
  /\ said = [type \in Duration |-> "END"]
  /\ astray = {}

Next ==
  \/ \E type \in Duration : LogStart(type) \/ LogEnd(type) \/ LogIgnored(type)
  \/ \E type \in Instant \ {Reboot} : LogInstant(type)
  \/ \E id \in Id : closeOpenEvent(id)
  \/ handleResetLog
  \/ RotationDue
  \/ RotationCycle
  \/ RotationFails
  \/ Crash
  \/ Boot

Spec == Init /\ [][Next]_vars

\* A rotation, once begun, runs to its end in the same loop turn.
FairSpec == Spec /\ WF_vars(RotationCycle)

-----------------------------------------------------------------------------
(* Properties.                                                             *)

\* The variables range over what the code and the file format allow, and
\* the file holds no id that has not been generated.
TypeOK ==
  /\ lines \in Seq(Line)
  /\ \A i \in Parsed(lines) : lines[i].id < nextId
  /\ unterminated \in BOOLEAN /\ up \in BOOLEAN
  /\ lastWritten \in Time \cup {0}
  /\ errors \in 0..2
  /\ rotation \in Time \cup {0}
  /\ nextId \in 1..(MaxId + 1)
  /\ notified \cup repeated \cup misreported \subseteq Id \X {"START", "END", "INSTANT"}
  /\ blind \in BOOLEAN
  /\ said \in [Duration -> {"START", "END"}]
  /\ astray \subseteq Type

\* However writes fail, the board resets and logs rotate, no two events of a
\* type are open at once: an END has one event to end.
OneOpenPerType ==
  \A ev, other \in OpenEvents(lines) : ev.type = other.type => ev = other

\* An END row always has its START, of the same type, before it.
EndHasStart ==
  \A j \in Parsed(lines) : lines[j].status = "END" =>
    \E i \in Parsed(lines) :
      /\ i < j
      /\ lines[i] = [lines[i] EXCEPT !.id = lines[j].id, !.type = lines[j].type,
                                     !.status = "START"]

\* The log has an event of a type open exactly if START was the last
\* transition of that type, unless that transition's row was lost or the log
\* was changed by hand since: no rotation and no reset opens or closes one.
LogAgreesWithTransitions ==
  \A type \in Duration \ astray :
    said[type] = "START" <=> OpenOfType(lines, type) # {}

\* Timestamps never go back along the file, whatever the clock does, unless
\* a boot could not read the last one or a row was kept without being
\* reported (DESIGN.md 5.4.3).
MonotonicLog ==
  ~blind /\ misreported = {}
    => \A i, j \in Parsed(lines) : i < j => lines[i].ts <= lines[j].ts

\* Every row in the log has been notified, and by one call, as the
\* notification log, which is keyed by id and status, needs it: closed by hand
\* or by the pin, before or after a reset.  Only the START of a type that
\* notifies its END alone has not (DESIGN.md 3.2.1); a row of which the writer
\* was told the wrong thing is excepted.
NotifiedExactlyOnce ==
  /\ repeated \subseteq misreported
  /\ \A rec \in Readable(lines) :
       KeyOf(rec) \notin misreported =>
         (KeyOf(rec) \in notified <=> (rec.status = "START" => rec.type \notin OnlyEnd))

\* /log shows the last n events that began, in the order in which they did,
\* whatever was rotated, reset or torn: APERTO those that the open events of
\* the summary and of /status are, and no other; and a duration is the
\* difference of two timestamps in order, where those of the log are.
LogShowsLatest ==
  \A n \in 1..MaxLines :
    LET shown == handleLog(lines, n)
        begun == LinesAt(lines, {i \in Parsed(lines) : lines[i].status # "END"})
        hidden == IF Len(begun) > n THEN Len(begun) - n ELSE 0
    IN  /\ Len(shown) = Len(begun) - hidden
        /\ \A i \in DOMAIN shown :
             /\ shown[i].row = begun[hidden + i]
             /\ shown[i].row.status = "START" =>
                  (shown[i].end = 0 <=> shown[i].row \in OpenEvents(lines))
             /\ ~blind /\ misreported = {} =>
                  shown[i].end = 0 \/ shown[i].end >= shown[i].row.ts

\* A rotation ends: every cycle that is repeated has removed something
\* (DESIGN.md 9.3.1).
RotationEnds == rotation # 0 ~> rotation = 0
=============================================================================
