------------------------- MODULE NotificationEngine -------------------------
(***************************************************************************)
(* The notification engine: NotificationEngine.cpp with the retry timer    *)
(* (RetryTimer.cpp), the per-user notification log folded to its latest    *)
(* rows (NotificationLogStorage.cpp, NotificationFolder.cpp), and what the *)
(* main loop, the maintenance cycle, the admin commands and a reset of the *)
(* board do to it.                                                         *)
(*                                                                         *)
(* A Key stands for one row of the event log as notifications see it, the  *)
(* (event id, status) pair of notificationKey.  A pair <<user, key>> is    *)
(* one notification.                                                       *)
(*                                                                         *)
(* Time is abstracted to what the engine compares: `due' says that millis  *)
(* has passed dueAtMillis_.  The rate limiter decides when a tick sends,   *)
(* so a tick with a non-empty queue may also send nothing.                 *)
(***************************************************************************)
EXTENDS Naturals, SequencesExt

CONSTANTS
  User,                \* chat ids that are ever on the whitelist
  Admin,               \* those that carry the admin flag while listed
  Key,                 \* (event id, status) pairs
  NoKey,               \* the zeroed eventId of an untracked message
  MaxRetries,          \* globalConfig().maxRetries
  AggregateThreshold,  \* globalConfig().aggregateThreshold
  MaxQueue,            \* bound: admin alerts are not raised on a longer queue
  Faults               \* disturbances the run lets happen

FaultKinds == {"crash", "write", "read", "degraded", "system", "reset", "whitelist"}

ASSUME EngineAssumption ==
  /\ IsFiniteSet(User) /\ IsFiniteSet(Key)
  /\ Admin \subseteq User
  /\ NoKey \notin Key
  /\ MaxRetries \in Nat
  /\ AggregateThreshold \in Nat
  /\ MaxQueue \in Nat
  /\ Faults \subseteq FaultKinds

VARIABLES
  whitelist,       \* g_users
  booted,          \* g_bootTasksDone
  queue,           \* g_queue
  active,          \* RetryTimer::active_
  due,             \* millis() has passed RetryTimer::dueAtMillis_
  scanInProgress,  \* RetryTimer::scanInProgress_
  inFlight,        \* g_scanMessagesInFlight
  hadPending,      \* g_scanHadPendingResult
  rows,            \* the notification log, folded: the last row of each key
  degraded,        \* isFilesystemDegraded()
  systemError,     \* g_lastSystemError is set
  (* History variables: nothing in the engine reads them. *)
  fate,            \* what has become of each notification
  unrecorded,      \* notifications whose row was lost, suspended or erased
  slipped          \* PENDING rows that the last scan has not carried

timer == <<active, due, scanInProgress>>
scan == <<inFlight, hadPending>>
log == <<rows, unrecorded>>
vars == <<whitelist, booted, queue, timer, scan, log, degraded, systemError,
          fate, slipped>>

Notification == User \X Key

RowState == {"NONE", "PENDING", "RESOLVED", "ABANDONED"}
Row == [state : RowState, n : Nat]
NoRow == [state |-> "NONE", n |-> 0]
Terminal == {"RESOLVED", "ABANDONED"}

TrackedMessage ==
  [chatId : User, trackDelivery : {TRUE}, isScanMessage : BOOLEAN, key : Key,
   attemptCountBefore : Nat, lists : SUBSET Key]
UntrackedMessage ==
  [chatId : User, trackDelivery : {FALSE}, isScanMessage : {FALSE},
   key : {NoKey}, attemptCountBefore : {0}, lists : {{}}]
Message == TrackedMessage \cup UntrackedMessage

About(m) == <<m.chatId, m.key>>

-----------------------------------------------------------------------------
(* Messages.  `lists' is what the text talks about: one event, or every    *)
(* pending one when the recovery text is aggregated (sec. 6.7).            *)

EventMessage(u, k) ==
  [chatId |-> u, trackDelivery |-> TRUE, isScanMessage |-> FALSE, key |-> k,
   attemptCountBefore |-> 0, lists |-> {k}]

AlertMessage(u) ==
  [chatId |-> u, trackDelivery |-> FALSE, isScanMessage |-> FALSE,
   key |-> NoKey, attemptCountBefore |-> 0, lists |-> {}]

\* notifyAdmins: one untracked message to each admin on the list.
AdminAlerts == {AlertMessage(u) : u \in whitelist \cap Admin}

\* Mutant: the filter of pendingFrom lets abandoned rows through.
PendingIn_KeepsAbandoned(rs, u) ==
  {k \in Key : rs[u][k].state \in {"PENDING", "ABANDONED"}}

\* pendingFrom(loadNotificationState(u)) on the log rs, if it can be opened.
PendingIn(rs, u) == {k \in Key : rs[u][k].state = "PENDING"}

shouldAggregate(count) == count > AggregateThreshold

\* Mutant: the attempts recorded in the log are not carried over.
ScanMessage_FreshCount(rs, u, k) ==
  [EventMessage(u, k) EXCEPT !.isScanMessage = TRUE]

ScanMessage(rs, u, k) ==
  [chatId |-> u, trackDelivery |-> TRUE, isScanMessage |-> TRUE, key |-> k,
   attemptCountBefore |-> rs[u][k].n,
   lists |-> IF shouldAggregate(Cardinality(PendingIn(rs, u)))
             THEN PendingIn(rs, u) ELSE {k}]

\* The users of the list whose logs a scan can open: that of another is
\* empty to it.
Legible == IF "read" \in Faults THEN SUBSET whitelist ELSE {whitelist}

ScanMessages(rs, seen) ==
  UNION {{ScanMessage(rs, u, k) : k \in PendingIn(rs, u)} : u \in seen}

-----------------------------------------------------------------------------
(* Writing a row (sec. 7.2).  appendNotificationRecord retries once and    *)
(* gives up; in degraded mode PENDING rows are not written at all.         *)

WriteOutcomes(state) ==
  IF state = "PENDING" /\ degraded THEN {FALSE}
  ELSE IF "write" \in Faults THEN BOOLEAN ELSE {TRUE}

writeNotificationState(m, state, n) ==
  \E written \in WriteOutcomes(state) :
    IF written
    THEN /\ rows' = [rows EXCEPT ![m.chatId][m.key] = [state |-> state, n |-> n]]
         /\ UNCHANGED unrecorded
    ELSE /\ unrecorded' = unrecorded \cup {About(m)}
         /\ UNCHANGED rows

-----------------------------------------------------------------------------
(* runRecoveryScan, asked for or not, over the log rs, when q is what the  *)
(* queue holds by then.  A request that meets a scan in progress is        *)
(* discarded; one that finds nothing leaves the timer as it is.            *)

\* Mutant: the guard of sec. 6.3.1 is missing.
CanScan_Reentrant == TRUE

CanScan == ~scanInProgress

Waiting(rs) == {p \in Notification : rs[p[1]][p[2]].state = "PENDING"}

BeginScan(q, rs, after) ==
  \E seen \in Legible :
    /\ \E s \in SetToSeqs(ScanMessages(rs, seen)) : queue' = q \o s \o after
    /\ IF ScanMessages(rs, seen) = {}
       THEN UNCHANGED <<scanInProgress, scan>>
       ELSE /\ scanInProgress' = TRUE
            /\ inFlight' = Cardinality(ScanMessages(rs, seen))
            /\ hadPending' = FALSE
    /\ slipped' = Waiting(rs) \ {About(m) : m \in ScanMessages(rs, seen)}

NoScan(q, after) ==
  /\ queue' = q \o after
  /\ UNCHANGED <<scanInProgress, scan, slipped>>

runRecoveryScan(asked, q, rs, after) ==
  \/ asked /\ CanScan /\ BeginScan(q, rs, after)
  \/ ~(asked /\ CanScan) /\ NoScan(q, after)

\* RetryTimer::isDue
isDue == active /\ due /\ ~scanInProgress

-----------------------------------------------------------------------------
(* What the main loop and the commands ask of the engine.                  *)

\* notifyEvent: one message to each user R of the whitelist that the
\* added_ts filter and the user's own configuration let through, s in the
\* order they are queued.
notifyEvent(k, R, s) ==
  /\ \A u \in User : fate[u][k] = "unsent"
  /\ R # {} /\ R \subseteq whitelist
  /\ s \in SetToSeqs({EventMessage(u, k) : u \in R})
  /\ fate' = [u \in User |-> [j \in Key |->
                IF u \in R /\ j = k THEN "owed" ELSE fate[u][j]]]

\* logAndNotifyEvent or closeOpenEvent has written a row of the event log.
EventLogged ==
  \E k \in Key, R \in SUBSET whitelist :
    \E s \in SetToSeqs({EventMessage(u, k) : u \in R}) :
      /\ notifyEvent(k, R, s)
      /\ queue' = queue \o s
      /\ UNCHANGED <<whitelist, booted, timer, scan, log, degraded,
                     systemError, slipped>>

\* The outage is over: its END is logged, and notified if there was an open
\* event to end and the row could be written, or else, if it is the first
\* that could not, the admins are told; a recovery scan is asked for in any
\* case (sec. 6.2).
NetworkRestored ==
  /\ \/ \E k \in Key, R \in SUBSET whitelist :
          \E s \in SetToSeqs({EventMessage(u, k) : u \in R}) :
            /\ notifyEvent(k, R, s)
            /\ runRecoveryScan(TRUE, queue \o s, rows, << >>)
     \/ \E alert \in BOOLEAN :
          /\ alert => Len(queue) < MaxQueue
          /\ \E a \in SetToSeqs(IF alert THEN AdminAlerts ELSE {}) :
               runRecoveryScan(TRUE, queue \o a, rows, << >>)
          /\ UNCHANGED fate
  /\ UNCHANGED <<whitelist, booted, active, due, log, degraded, systemError>>

\* Mutant: rotation judges a row by its age alone.
Settled_AnyRow ==
  {p \in whitelist \X Key : rows[p[1]][p[2]].state # "NONE"}

\* Rows that rotation may drop: settled ones, of listed users.
Settled ==
  {p \in whitelist \X Key : rows[p[1]][p[2]].state \in Terminal}

\* performMaintenanceIfDue: the space status is read again; a worsening is
\* told to the admins, and it or the calendar may rotate the logs, which
\* drops the settled rows `gone' that are past retention.
performMaintenanceIfDue(worsened, gone) ==
  /\ degraded' \in (IF "degraded" \in Faults THEN BOOLEAN ELSE {FALSE})
  /\ degraded' /\ ~degraded => worsened
  /\ worsened => ~degraded
  /\ rows' = [u \in User |-> [k \in Key |->
                IF <<u, k>> \in gone THEN NoRow ELSE rows[u][k]]]

\* The periodic check of the loop.
Maintenance ==
  \E worsened \in BOOLEAN, gone \in SUBSET Settled :
    /\ performMaintenanceIfDue(worsened, gone)
    /\ worsened => Len(queue) < MaxQueue
    /\ \E a \in SetToSeqs(IF worsened THEN AdminAlerts ELSE {}) : queue' = queue \o a
    /\ UNCHANGED <<whitelist, booted, timer, scan, unrecorded, systemError,
                   fate, slipped>>

\* The one-time tasks of the loop once Telegram is reachable: recovery scan,
\* summary of the open events (direct sends, nothing queued), the alert
\* about a reformatted file system or a filling one, first maintenance.
BootTasks ==
  /\ ~booted
  /\ booted' = TRUE
  /\ \E worsened, alert \in BOOLEAN, gone \in SUBSET Settled :
       /\ performMaintenanceIfDue(worsened, gone)
       /\ worsened => alert
       /\ \E a \in SetToSeqs(IF alert THEN AdminAlerts ELSE {}) :
            runRecoveryScan(TRUE, queue, rows, a)
  /\ UNCHANGED <<whitelist, active, due, unrecorded, systemError, fate>>

\* Another component tells the admins of something: notifyAdmins.
AdminAlert ==
  /\ Len(queue) < MaxQueue
  /\ \E a \in SetToSeqs(AdminAlerts) : queue' = queue \o a
  /\ UNCHANGED <<whitelist, booted, timer, scan, log, degraded, systemError,
                 fate, slipped>>

\* /add, /remove and /reset users change whom notifyEvent and the scans
\* address; nobody's log or queued message is touched.
WhitelistChange ==
  /\ "whitelist" \in Faults
  /\ whitelist' \in SUBSET User
  /\ UNCHANGED <<booted, queue, timer, scan, log, degraded, systemError, fate, slipped>>

\* /reset notif <chat>: the user's log file is removed.
handleResetNotif(u) ==
  /\ "reset" \in Faults
  /\ rows' = [rows EXCEPT ![u] = [k \in Key |-> NoRow]]
  /\ unrecorded' = unrecorded \cup ({u} \X PendingIn(rows, u))
  /\ UNCHANGED <<whitelist, booted, queue, timer, scan, degraded, systemError,
                 fate, slipped>>

-----------------------------------------------------------------------------
(* tickNotificationEngine.  A tick sends the head of the queue, or nothing *)
(* if the queue is empty or the rate limiter says no, and ends by looking  *)
(* at the retry timer.                                                     *)

Settle(m, f) == fate' = [fate EXCEPT ![m.chatId][m.key] = f]

\* Mutant: endScan takes the outcome of the last message for the scan's.
ScanMessageDone_LastOutcome(stillPending) ==
  LET left == IF inFlight > 0 THEN inFlight - 1 ELSE 0
  IN  /\ inFlight' = left
      /\ hadPending' = stillPending
      /\ IF left = 0 /\ scanInProgress
         THEN /\ scanInProgress' = FALSE
              /\ active' = stillPending
              /\ due' = FALSE
         ELSE UNCHANGED timer

\* The end of handleSendOutcome for a scan message, and endScan if it was
\* the last one in flight.
ScanMessageDone(stillPending) ==
  LET had  == hadPending \/ stillPending
      left == IF inFlight > 0 THEN inFlight - 1 ELSE 0
  IN  /\ inFlight' = left
      /\ hadPending' = had
      /\ IF left = 0 /\ scanInProgress
         THEN /\ scanInProgress' = FALSE
              /\ active' = had
              /\ due' = FALSE
         ELSE UNCHANGED timer

\* The tick after a message that is not going to be PENDING: the end of the
\* scan if it was one, else the early scan if asked, else the retry timer.
FinishTick(m, asked, rest) ==
  IF m.isScanMessage
  THEN /\ ScanMessageDone(FALSE)
       /\ queue' = rest
       /\ UNCHANGED slipped
  ELSE /\ runRecoveryScan(asked, rest, rows', << >>)
       /\ UNCHANGED <<active, due>>

\* No send in this tick.
QuietTick ==
  /\ runRecoveryScan(isDue, queue, rows, << >>)
  /\ UNCHANGED <<whitelist, booted, active, due, log, degraded, systemError,
                 fate>>

\* An untracked message: whatever its outcome, it is gone.
SendAlert(m) ==
  /\ ~m.trackDelivery
  /\ UNCHANGED <<whitelist, booted, log, degraded, systemError, fate>>
  /\ FinishTick(m, isDue, Tail(queue))

\* Mutant: a recovered notification leaves no RESOLVED row.
SendSuccess_NoRow(m) ==
  /\ m.trackDelivery
  /\ Settle(m, "delivered")
  /\ UNCHANGED <<whitelist, booted, log, degraded, systemError>>
  /\ FinishTick(m, active, Tail(queue))

\* SUCCESS.  Only a notification that had a PENDING row needs a RESOLVED
\* one; in the normal flow, and outside a scan, a success with the timer
\* running asks for an early scan (sec. 6.3).
SendSuccess(m) ==
  /\ m.trackDelivery
  /\ Settle(m, "delivered")
  /\ IF m.attemptCountBefore > 0
     THEN writeNotificationState(m, "RESOLVED", 0) ELSE UNCHANGED log
  /\ FinishTick(m, active, Tail(queue))
  /\ UNCHANGED <<whitelist, booted, degraded, systemError>>

\* PERMANENT_RECIPIENT: abandoned at once, the admins are told.
SendPermanent(m) ==
  /\ m.trackDelivery
  /\ Settle(m, "abandoned")
  /\ writeNotificationState(m, "ABANDONED", m.attemptCountBefore + 1)
  /\ \E a \in SetToSeqs(AdminAlerts) : FinishTick(m, isDue, Tail(queue) \o a)
  /\ UNCHANGED <<whitelist, booted, degraded, systemError>>

\* TRANSIENT_NETWORK, TRANSIENT_SERVER, THROTTLING or SYSTEM_ERROR; the last
\* one is remembered for /status.
SystemErrorSeen ==
  systemError' \in {systemError} \cup (IF "system" \in Faults THEN {TRUE} ELSE {})

\* Mutant: the attempt that has just failed is not counted.
exceedsMaxRetries_OffByOne(count) == count - 1 > MaxRetries

exceedsMaxRetries(count) == count > MaxRetries

\* The retries are used up: abandoned, nobody is told.
SendExhausted(m) ==
  /\ m.trackDelivery
  /\ SystemErrorSeen
  /\ exceedsMaxRetries(m.attemptCountBefore + 1)
  /\ Settle(m, "abandoned")
  /\ writeNotificationState(m, "ABANDONED", m.attemptCountBefore + 1)
  /\ FinishTick(m, isDue, Tail(queue))
  /\ UNCHANGED <<whitelist, booted, degraded>>

\* Mutant: a failure pushes the timer back but does not start it.
SendRetry_NotArmed(m) ==
  /\ m.trackDelivery
  /\ SystemErrorSeen
  /\ ~exceedsMaxRetries(m.attemptCountBefore + 1)
  /\ writeNotificationState(m, "PENDING", m.attemptCountBefore + 1)
  /\ queue' = Tail(queue)
  /\ due' = FALSE
  /\ IF m.isScanMessage
     THEN ScanMessageDone(TRUE) ELSE UNCHANGED <<active, scanInProgress, scan>>
  /\ UNCHANGED <<whitelist, booted, degraded, fate, slipped>>

\* Another attempt will follow: PENDING, and in the normal flow the timer is
\* armed or pushed back, so this tick's isDue is false.  A row that becomes
\* PENDING while a scan runs is not among the ones that scan has read.
SendRetry(m) ==
  /\ m.trackDelivery
  /\ SystemErrorSeen
  /\ ~exceedsMaxRetries(m.attemptCountBefore + 1)
  /\ writeNotificationState(m, "PENDING", m.attemptCountBefore + 1)
  /\ queue' = Tail(queue)
  /\ IF m.isScanMessage
     THEN ScanMessageDone(TRUE) /\ UNCHANGED slipped
     ELSE /\ active' = TRUE
          /\ due' = FALSE
          /\ slipped' = IF scanInProgress THEN slipped \cup {About(m)} ELSE slipped
          /\ UNCHANGED <<scanInProgress, scan>>
  /\ UNCHANGED <<whitelist, booted, degraded, fate>>

SendHead ==
  /\ queue # << >>
  /\ LET m == Head(queue)
     IN  SendAlert(m) \/ SendSuccess(m) \/ SendPermanent(m)
           \/ SendExhausted(m) \/ SendRetry(m)

tickNotificationEngine == SendHead \/ QuietTick

-----------------------------------------------------------------------------
(* The environment: the clock, and the board.                              *)

\* retryIntervalMinutes have passed since the timer was last armed.
TimerElapses ==
  /\ active /\ ~due
  /\ due' = TRUE
  /\ UNCHANGED <<whitelist, booted, queue, active, scanInProgress, scan, log,
                 degraded, systemError, fate, slipped>>

\* Notifications with a message in q, and those with one from the normal flow.
TrackedIn(q) == {About(m) : m \in {x \in Range(q) : x.trackDelivery}}
FlowIn(q) ==
  {About(m) : m \in {x \in Range(q) : x.trackDelivery /\ ~x.isScanMessage}}

\* The notification being sent.
InHand == IF queue # << >> /\ Head(queue).trackDelivery
          THEN {About(Head(queue))} ELSE {}

\* Power loss or a watchdog reset: RAM is gone, flash stays.  The reset may
\* come when Telegram has taken the message being sent and its row is not
\* written yet.
Crash ==
  /\ "crash" \in Faults
  /\ \E sent \in SUBSET InHand :
       /\ fate' = [u \in User |-> [k \in Key |->
                     IF <<u, k>> \in sent THEN "delivered" ELSE fate[u][k]]]
       /\ unrecorded' = unrecorded \cup sent \cup FlowIn(queue)
  /\ booted' = FALSE
  /\ queue' = << >>
  /\ active' = FALSE /\ due' = FALSE /\ scanInProgress' = FALSE
  /\ inFlight' = 0 /\ hadPending' = FALSE
  /\ degraded' = FALSE /\ systemError' = FALSE
  /\ slipped' = {}
  /\ UNCHANGED <<whitelist, rows>>

Init ==
  /\ whitelist = User
  /\ booted = FALSE
  /\ queue = << >>
  /\ active = FALSE /\ due = FALSE /\ scanInProgress = FALSE
  /\ inFlight = 0 /\ hadPending = FALSE
  /\ rows = [u \in User |-> [k \in Key |-> NoRow]]
  /\ degraded = FALSE
  /\ systemError = FALSE
  /\ fate = [u \in User |-> [k \in Key |-> "unsent"]]
  /\ unrecorded = {}
  /\ slipped = {}

Next ==
  \/ EventLogged
  \/ NetworkRestored
  \/ BootTasks
  \/ Maintenance
  \/ AdminAlert
  \/ WhitelistChange
  \/ \E u \in User : handleResetNotif(u)
  \/ tickNotificationEngine
  \/ TimerElapses
  \/ Crash

Spec == Init /\ [][Next]_vars

\* The loop calls the tick for ever and the rate limiter lets a send through
\* every 1.1 s; minutes pass; Telegram is reachable sooner or later.
Fairness ==
  /\ WF_vars(SendHead)
  /\ WF_vars(QuietTick)
  /\ WF_vars(TimerElapses)
  /\ WF_vars(BootTasks)

FairSpec == Spec /\ Fairness

-----------------------------------------------------------------------------
(* Properties.                                                             *)

ScanIndices(q) == {i \in DOMAIN q : q[i].isScanMessage}
RowOf(p) == rows[p[1]][p[2]]
FateOf(p) == fate[p[1]][p[2]]
IsPending(p) == RowOf(p).state = "PENDING"

\* No two tracked messages of q are about the same notification.
Distinct(q) ==
  \A i, j \in DOMAIN q :
    q[i].trackDelivery /\ q[j].trackDelivery /\ About(q[i]) = About(q[j]) => i = j

\* What the log holds about the notification m carries.
RowMatches(m) ==
  \/ RowOf(About(m)) = NoRow
  \/ /\ m.isScanMessage
     /\ RowOf(About(m)) = [state |-> "PENDING", n |-> m.attemptCountBefore]

\* The variables range over what their C++ types and the protocol allow.
TypeOK ==
  /\ whitelist \in SUBSET User
  /\ booted \in BOOLEAN
  /\ queue \in Seq(Message)
  /\ active \in BOOLEAN /\ due \in BOOLEAN /\ scanInProgress \in BOOLEAN
  /\ inFlight \in Nat /\ hadPending \in BOOLEAN
  /\ rows \in [User -> [Key -> Row]]
  /\ degraded \in BOOLEAN
  /\ systemError \in BOOLEAN
  /\ fate \in [User -> [Key -> {"unsent", "owed", "delivered", "abandoned"}]]
  /\ unrecorded \in SUBSET Notification
  /\ slipped \in SUBSET Notification

\* g_scanMessagesInFlight is exactly the number of scan messages still
\* queued, and a scan is in progress exactly while there are some: a scan
\* always ends, and no message outlives its scan to end the next one early.
ScanAccounting ==
  /\ inFlight = Cardinality(ScanIndices(queue))
  /\ scanInProgress <=> inFlight > 0

\* At most one queued message carries a given notification, whatever the
\* order in which retries, early scans, reconnections and boots ask for it.
OneAttemptQueued == Distinct(queue)

\* The attempt counter of the log and that of the message under way agree,
\* and stay within the retry limit: a row is PENDING for attempts
\* 1..MaxRetries, ABANDONED for up to one more.
AttemptsWithinLimit ==
  /\ \A m \in Range(queue) : m.trackDelivery => RowMatches(m)
  /\ \A p \in Notification :
       /\ IsPending(p) => RowOf(p).n \in 1..MaxRetries
       /\ RowOf(p).state = "ABANDONED" => RowOf(p).n \in 1..(MaxRetries + 1)

\* A notification that was queued for a user is delivered, given up, still
\* queued, or PENDING in the log, unless its row could not be kept (write
\* failed or suspended, power lost before the first attempt, log reset).
NothingForgotten ==
  \A p \in Notification :
    FateOf(p) = "owed" /\ p \notin unrecorded => p \in TrackedIn(queue) \/ IsPending(p)

\* What has been delivered or given up is not sent again, on the same
\* condition.
NoResend ==
  \A p \in Notification :
    FateOf(p) \in {"delivered", "abandoned"} /\ p \notin unrecorded
      => p \notin TrackedIn(queue) /\ ~IsPending(p)

\* RESOLVED and ABANDONED are final: such a row may be rotated or reset away
\* but never turns into another.
TerminalRowsFinal ==
  [][\A p \in Notification :
       RowOf(p).state \in Terminal => RowOf(p)' \in {RowOf(p), NoRow}]_vars

\* Once the boot tasks are done, a PENDING notification has the retry timer
\* or a scan to come back for it, unless the last scan has passed it by: it
\* began before the notification failed, or could not open its user's log,
\* or ran while its user was not listed.  Rows that are not what the engine
\* meant to write are excepted.
PendingHasRetry ==
  \A p \in Notification :
    booted /\ IsPending(p) /\ p \notin slipped \cup unrecorded
      => active \/ scanInProgress

\* Under the loop's fairness, once the board stays up, every notification
\* queued for a user is in the end delivered or given up, unless the user
\* leaves the list, or a scan passes it by, or its row could not be kept.
EventuallySettled ==
  <>[]booted =>
    \A u \in User, k \in Key :
      fate[u][k] = "owed"
        ~> \/ fate[u][k] \in {"delivered", "abandoned"}
           \/ <<u, k>> \in slipped \cup unrecorded
           \/ u \notin whitelist

\* The engine keeps the promise of Delivery: a try is counted by the PENDING
\* row it leaves.
Promise == INSTANCE Delivery WITH
  Limit <- MaxRetries,
  fate <- [p \in Notification |-> FateOf(p)],
  tries <- [p \in Notification |-> IF IsPending(p) THEN RowOf(p).n ELSE 0],
  disturbed <- unrecorded

\* Every step of the engine, with its queue, scans and timer, is a step of
\* Delivery or changes nothing that Delivery sees.
KeepsPromise == Promise!Spec

\* NotificationEngine.h:26-28: a scan request that meets a scan in progress
\* may be discarded because that scan re-reads the complete state anyway; so
\* whatever is PENDING has a timer or a scan to come back for it.
ScanCoversEverything ==
  \A p \in Notification :
    booted /\ IsPending(p) => active \/ scanInProgress
=============================================================================
