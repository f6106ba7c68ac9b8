---------------------------- MODULE NetworkIssue ----------------------------
(***************************************************************************)
(* How the loop judges the network, and what follows from the judgement:   *)
(* TelegramReachability.cpp, NetworkIssueTracker.cpp, lines 350-385 of the *)
(* sketch, and as much of the notification engine as decides when the next *)
(* send is tried, since nothing else tells that Telegram is reachable.     *)
(*                                                                         *)
(* Notifications are counted, not told apart; NotificationEngine has them  *)
(* in full.  Time is counted in ticks.  A moment is kept as the number of  *)
(* ticks since then: a turn comes at least every MaxBlock ticks, so that   *)
(* the differences of millis() are compared long before they could wrap.   *)
(***************************************************************************)
EXTENDS Integers

CONSTANTS
  FailureLimit,    \* kConsecutiveFailureThreshold
  IssueThreshold,  \* globalConfig().networkIssueThresholdSec
  RetryInterval,   \* globalConfig().retryIntervalMinutes
  MaxBlock,        \* the watchdog ends a longer turn
  MaxOwed          \* bound: notifications that are queued or PENDING

ASSUME NetworkAssumption ==
  /\ FailureLimit \in Nat \ {0}
  /\ IssueThreshold \in Nat \ {0}
  /\ RetryInterval \in Nat \ {0}
  /\ MaxBlock \in Nat \ {0}
  /\ MaxOwed \in Nat \ {0}

VARIABLES
  connected,    \* isWifiConnected()
  answers,      \* a request that gets out is answered by Telegram
  failures,     \* consecutiveFailures_, up to FailureLimit
  unreachable,  \* unreachable_
  confirmed,    \* confirmed_
  since,        \* ticks since unreachableSinceMillis_
  open,         \* the log has a NETWORK_ISSUE without an END
  booted,       \* g_bootTasksDone
  fresh,        \* queued messages of the normal flow, admin alerts included
  rescans,      \* queued messages of the scan in progress
  hadPending,   \* g_scanHadPendingResult
  pending,      \* PENDING rows, those being sent again included
  active,       \* RetryTimer::active_
  left,         \* ticks until dueAtMillis_
  (* History variables: nothing in the code reads them. *)
  turn,         \* ticks since the last turn of the loop
  fine,         \* ticks for which a send would have worked, and one was to come
  bad,          \* ticks since a turn last found Telegram reachable
  astray        \* something else than the tracker has decided on the row

world == <<connected, answers>>
tracker == <<unreachable, confirmed, since>>
engine == <<fresh, rescans, hadPending, pending, active, left>>
ages == <<turn, fine, bad>>
vars == <<world, failures, tracker, open, booted, engine, ages, astray>>

Long == RetryInterval + IssueThreshold + 4 * MaxBlock
Older(age) == IF age < Long THEN age + 1 ELSE Long

-----------------------------------------------------------------------------
(* TelegramReachability.cpp.                                               *)

\* Any answer counts as reached, an error too.
recordOutcome(reached) ==
  failures' = IF reached THEN 0
              ELSE IF failures < FailureLimit THEN failures + 1 ELSE FailureLimit

reachable == connected /\ failures < FailureLimit

-----------------------------------------------------------------------------
(* NetworkIssueTracker::update.                                            *)

Ended == reachable /\ confirmed

\* Mutant: the threshold is measured from one observation to the next.
Started_FirstLook == ~reachable /\ unreachable /\ ~confirmed

Started ==
  ~reachable /\ unreachable /\ ~confirmed /\ since >= IssueThreshold

\* Mutant: what has been reported is not remembered.
update_NotRemembered ==
  \/ /\ reachable
     /\ unreachable' = FALSE /\ confirmed' = FALSE
     /\ UNCHANGED since
  \/ /\ ~reachable /\ ~unreachable
     /\ unreachable' = TRUE /\ since' = 0
     /\ UNCHANGED confirmed
  \/ /\ ~reachable /\ unreachable
     /\ UNCHANGED tracker

update ==
  \/ /\ reachable
     /\ unreachable' = FALSE /\ confirmed' = FALSE
     /\ UNCHANGED since
  \/ /\ ~reachable /\ ~unreachable
     /\ unreachable' = TRUE /\ since' = 0
     /\ UNCHANGED confirmed
  \/ /\ ~reachable /\ unreachable
     /\ confirmed' = (confirmed \/ Started)
     /\ UNCHANGED <<unreachable, since>>

-----------------------------------------------------------------------------
(* The engine: what a turn does to the counts.  S is the state of the      *)
(* engine as a record, so that a turn can pass it from step to step.       *)

Now == [fresh |-> fresh, rescans |-> rescans, hadPending |-> hadPending,
        pending |-> pending, active |-> active, left |-> left]

Become(S) ==
  /\ fresh' = S.fresh /\ rescans' = S.rescans /\ hadPending' = S.hadPending
  /\ pending' = S.pending /\ active' = S.active /\ left' = S.left

\* runRecoveryScan
Scan(S) ==
  IF S.rescans = 0 /\ S.pending > 0
  THEN [S EXCEPT !.rescans = S.pending, !.hadPending = FALSE] ELSE S

ScanIf(asked, S) == IF asked THEN Scan(S) ELSE S

Armed(S) == [S EXCEPT !.active = TRUE, !.left = RetryInterval]

FreshFailed(S) == Armed([S EXCEPT !.fresh = @ - 1, !.pending = @ + 1])

\* The row was not written: suspended on a full file system, or an error.
FreshFailedUnrecorded(S) == Armed([S EXCEPT !.fresh = @ - 1])

\* An alert, or a recipient who cannot be reached.
FreshGone(S) == [S EXCEPT !.fresh = @ - 1]

\* A success with the timer running asks for an early scan.
FreshDelivered(S) ==
  ScanIf(S.active /\ S.rescans = 0, [S EXCEPT !.fresh = @ - 1])

\* A message of the scan, still PENDING after this attempt or not; endScan
\* after the last one.
Rescanned(S, still) ==
  LET had == S.hadPending \/ still
      T   == [S EXCEPT !.rescans = @ - 1, !.hadPending = had,
                       !.pending = IF still THEN @ ELSE @ - 1]
  IN  IF T.rescans > 0 THEN T
      ELSE IF had THEN Armed(T) ELSE [T EXCEPT !.active = FALSE]

\* What the head of the queue may leave, if its request is answered or not.
\* An answered one may still be refused: abandoned, or PENDING after 429 or
\* 5xx.  One that fails in a scan may have used up its retries.
Sent(S, reached) ==
  (IF S.fresh = 0 THEN {} ELSE
     {FreshFailed(S), FreshFailedUnrecorded(S), FreshGone(S)}
       \cup IF reached THEN {FreshDelivered(S)} ELSE {})
  \cup
  (IF S.rescans = 0 THEN {} ELSE {Rescanned(S, still) : still \in BOOLEAN})

\* The retry timer, at the end of the tick.
TimerScan(S) == ScanIf(S.active /\ S.left = 0, S)

\* Mutant: nothing is sent as long as Telegram counts as unreachable.
tickNotificationEngine_IfReachable(S) ==
  \/ /\ S.fresh + S.rescans > 0 /\ reachable
     /\ recordOutcome(connected /\ answers)
     /\ \E T \in Sent(S, connected /\ answers) : Become(TimerScan(T))
  \/ /\ S.fresh + S.rescans = 0 \/ turn = 0 \/ ~reachable
     /\ Become(TimerScan(S))
     /\ UNCHANGED failures

\* tickNotificationEngine from S.  A tick of time is longer than the rate
\* limiter's interval, so that only a turn within it may have to hold back.
tickNotificationEngine(S) ==
  \/ /\ S.fresh + S.rescans > 0
     /\ recordOutcome(connected /\ answers)
     /\ \E T \in Sent(S, connected /\ answers) : Become(TimerScan(T))
  \/ /\ S.fresh + S.rescans = 0 \/ turn = 0
     /\ Become(TimerScan(S))
     /\ UNCHANGED failures

-----------------------------------------------------------------------------
(* The loop.                                                               *)

Room == fresh + pending < MaxOwed

\* The END is notified if the log has an open START to end and takes the
\* row, and unless all users have it switched off.
EndNotified(written, told) == told => Ended /\ open /\ written /\ Room

ScanAsked == Ended \/ (reachable /\ ~booted)

\* logAndNotifyEvent for what the tracker says: a START is ignored if an
\* older one is open, an END if none is.
LogIssue(written) ==
  /\ open' = IF written /\ Started THEN TRUE
             ELSE IF written /\ Ended THEN FALSE ELSE open
  /\ astray' = IF Started \/ Ended THEN ~written ELSE astray

Turn ==
  /\ update
  /\ booted' = (booted \/ reachable)
  /\ \E written, told \in BOOLEAN :
       /\ LogIssue(written)
       /\ EndNotified(written, told)
       /\ tickNotificationEngine(
            ScanIf(ScanAsked, IF told THEN [Now EXCEPT !.fresh = @ + 1] ELSE Now))
  /\ turn' = 0
  /\ bad' = IF reachable THEN 0 ELSE bad
  /\ UNCHANGED <<world, fine>>

\* logAndNotifyEvent for a pin, REBOOT or a command.
EventLogged ==
  /\ Room
  /\ fresh' = fresh + 1
  /\ UNCHANGED <<world, failures, tracker, open, booted, rescans, hadPending,
                 pending, active, left, ages, astray>>

\* A user's command is answered: commands arrive only if Telegram can be
\* reached, their replies are direct sends.
Reply ==
  /\ connected /\ answers
  /\ recordOutcome(TRUE)
  /\ UNCHANGED <<world, tracker, open, booted, engine, ages, astray>>

\* /closeevent or the button of the summary, which notify the END, or
\* /reset log.
CloseByHand ==
  /\ connected /\ answers /\ open
  /\ open' = FALSE
  /\ astray' = confirmed
  /\ fresh' \in {fresh} \cup (IF Room THEN {fresh + 1} ELSE {})
  /\ UNCHANGED <<world, failures, tracker, booted, rescans, hadPending,
                 pending, active, left, ages>>

-----------------------------------------------------------------------------
(* The world.                                                              *)

\* Nothing to send, and no timer that will bring something.
Silent == fresh + rescans = 0 /\ (~active \/ pending = 0)

Tick ==
  /\ turn < MaxBlock
  /\ turn' = turn + 1
  /\ since' = Older(since)
  /\ left' = IF left > 0 THEN left - 1 ELSE 0
  /\ fine' = IF connected /\ answers /\ ~Silent THEN Older(fine) ELSE 0
  /\ bad' = Older(bad)
  /\ UNCHANGED <<world, failures, unreachable, confirmed, open, booted, fresh,
                 rescans, hadPending, pending, active, astray>>

NetworkChanges ==
  /\ connected' \in BOOLEAN /\ answers' \in BOOLEAN
  /\ world' # world
  /\ fine' = 0
  /\ UNCHANGED <<failures, tracker, open, booted, engine, turn, bad, astray>>

\* A reset: RAM is lost, the log and the PENDING rows are not.
Crash ==
  /\ connected' = FALSE
  /\ failures' = 0
  /\ unreachable' = FALSE /\ confirmed' = FALSE /\ since' = 0
  /\ booted' = FALSE
  /\ fresh' = 0 /\ rescans' = 0 /\ hadPending' = FALSE
  /\ active' = FALSE /\ left' = 0
  /\ turn' = 0 /\ fine' = 0 /\ bad' = 0
  /\ astray' = open
  /\ UNCHANGED <<answers, open, pending>>

Init ==
  /\ connected = FALSE /\ answers = TRUE
  /\ failures = 0
  /\ unreachable = FALSE /\ confirmed = FALSE /\ since = 0
  /\ open = FALSE /\ astray = FALSE
  /\ booted = FALSE
  /\ fresh = 0 /\ rescans = 0 /\ hadPending = FALSE /\ pending = 0
  /\ active = FALSE /\ left = 0
  /\ turn = 0 /\ fine = 0 /\ bad = 0

Next ==
  \/ Turn
  \/ EventLogged
  \/ Reply
  \/ CloseByHand
  \/ Tick
  \/ NetworkChanges
  \/ Crash

Spec == Init /\ [][Next]_vars

-----------------------------------------------------------------------------
(* Properties.                                                             *)

\* The counts stay within what the code allows: in particular no row has two
\* messages of a scan in the queue.
TypeOK ==
  /\ connected \in BOOLEAN /\ answers \in BOOLEAN
  /\ failures \in 0..FailureLimit
  /\ unreachable \in BOOLEAN /\ confirmed \in BOOLEAN /\ since \in 0..Long
  /\ open \in BOOLEAN /\ astray \in BOOLEAN /\ booted \in BOOLEAN
  /\ fresh \in 0..MaxOwed /\ pending \in 0..MaxOwed /\ rescans \in 0..pending
  /\ hadPending \in BOOLEAN /\ active \in BOOLEAN /\ left \in 0..RetryInterval
  /\ turn \in 0..MaxBlock /\ fine \in 0..Long /\ bad \in 0..Long

\* The log has an open NETWORK_ISSUE exactly while the tracker holds one
\* confirmed.  Only a reset in between, which forgets the outage and leaves
\* its row open, a failed write, or closing it by hand sets them apart, and
\* no longer than to the next outage.
RowFollowsTracker == ~astray => (open <=> confirmed)

\* An outage is confirmed if and only if it has lasted for the threshold,
\* to a turn or two; what recovers earlier leaves no trace.
ConfirmedInTime ==
  /\ confirmed => bad >= IssueThreshold
  /\ bad > IssueThreshold + 2 * MaxBlock => confirmed

\* The end of a trouble is noticed, at the latest when the retry timer
\* brings the next send, unless there is nothing to send at all: scans wait
\* for the judgement that Telegram is reachable, which only sends can bring.
ReturnNoticed ==
  fine > RetryInterval + 3 * MaxBlock => reachable
=============================================================================
