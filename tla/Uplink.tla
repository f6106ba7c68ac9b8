------------------------------- MODULE Uplink -------------------------------
(***************************************************************************)
(* The WiFi link with its backoff (WifiManager.cpp, WifiBackoff.cpp), the  *)
(* clock that depends on it (Clock.cpp, TimeAnchor.cpp), and the two       *)
(* places that drive them: the wait for NTP in setup and the loop.         *)
(*                                                                         *)
(* Time is counted in ticks.  An epoch is kept as its distance from the    *)
(* true time: anchorAge is how long ago g_anchorEpoch was, so that the     *)
(* estimate anchor + millis() is ahead of the true time by ms - anchorAge. *)
(***************************************************************************)
EXTENDS Integers, Sequences

CONSTANTS
  Delays,           \* backoffDelayMs of the attempts 1, 2, ...; the last one is the cap
  SyncTimeout,      \* kRebootNtpWaitTimeoutMs
  PersistInterval,  \* globalConfig().anchorPersistIntervalMinutes
  MaxBlock,         \* the watchdog ends a longer turn
  Wrap              \* 2^32: millis() counts modulo Wrap

Cap == Delays[Len(Delays)]
Half == Wrap \div 2

ASSUME UplinkAssumption ==
  /\ Delays \in Seq(Nat \ {0}) /\ Len(Delays) > 0
  /\ \A i, j \in DOMAIN Delays : i <= j => Delays[i] <= Delays[j]
  /\ SyncTimeout \in Nat /\ PersistInterval \in Nat /\ MaxBlock \in Nat \ {0}
  /\ Wrap \in Nat /\ Wrap = 2 * Half
  /\ Cap < Half /\ MaxBlock < Half
  /\ SyncTimeout + MaxBlock < Wrap /\ PersistInterval + MaxBlock < Wrap

VARIABLES
  connected,    \* WiFi.status() == WL_CONNECTED
  sntp,         \* configTime() was called: the SNTP client of the SDK runs
  plausible,    \* time() gives the true time, not one near 1970
  ms,           \* millis()
  stored,       \* how long ago the epoch kept in NVS was
  pc,           \* "wait": waitForNtpSyncOrTimeout, "loop": after setup
  ntpStarted,   \* of waitForNtpSyncOrTimeout
  wasConnected, \* g_wifiWasConnected
  attempt,      \* g_attemptNumber, up to the first that waits for Cap
  next,         \* g_nextAttemptMillis
  synced,       \* g_synced
  anchorAge,    \* how long ago g_anchorEpoch was
  lastPersist,  \* g_lastAnchorPersistMillis
  (* History variables: nothing in the code reads them. *)
  turn,         \* ticks since the last turn of the loop, or of the wait
  waited,       \* ticks without a link since it was lost or last asked for
  misled        \* the clock fell back on the anchor after it had been synced

radio == <<connected, plausible>>
backoff == <<attempt, next, waited>>
clock == <<stored, synced, anchorAge, lastPersist, misled>>
setup == <<pc, ntpStarted, wasConnected>>
vars == <<radio, sntp, ms, backoff, clock, setup, turn>>

Least(a, b) == IF a < b THEN a ELSE b

\* A 32-bit difference of two readings of millis().
Elapsed(t, since) == (t - since) % Wrap

-----------------------------------------------------------------------------
(* Pure functions.                                                         *)

\* initWifi has attempt 1 under way; 0 is treated as 1.
backoffDelay(n) == Delays[IF n = 0 THEN 1 ELSE Least(n, Len(Delays))]

\* Mutant: the moment has to be met exactly.
BackingOff_Exact == ms # next

\* The difference is negative as an int32_t.
BackingOff == Elapsed(ms, next) >= Half

\* Mutant: the readings of millis() are compared, not their difference.
shouldPersistAnchor_NoWrap == ms >= lastPersist + PersistInterval

shouldPersistAnchor == Elapsed(ms, lastPersist) >= PersistInterval

-----------------------------------------------------------------------------
(* Steps of a turn.                                                        *)

\* tickWifi.  Every tenth attempt takes the link down first; the static
\* address is configured again.
tickWifi ==
  \/ /\ connected
     /\ attempt' = 0
     /\ UNCHANGED <<next, waited>>
  \/ /\ ~connected /\ BackingOff
     /\ UNCHANGED <<attempt, next, waited>>
  \/ /\ ~connected /\ ~BackingOff
     /\ attempt' = Least(attempt + 1, Len(Delays))
     /\ next' = (ms + backoffDelay(attempt')) % Wrap
     /\ waited' = 0

saveLastEpoch == stored' = 0 /\ anchorAge' = 0 /\ lastPersist' = ms

\* Mutant: the clock is only set during the wait in setup.
tickClock_InSetupOnly(s) ==
  \/ /\ s /\ shouldPersistAnchor
     /\ saveLastEpoch /\ synced' = TRUE
  \/ /\ s /\ ~shouldPersistAnchor
     /\ synced' = TRUE /\ UNCHANGED <<stored, anchorAge, lastPersist>>
  \/ /\ ~s /\ plausible /\ pc = "wait"
     /\ saveLastEpoch /\ synced' = TRUE
  \/ /\ ~s /\ ~(plausible /\ pc = "wait")
     /\ synced' = FALSE /\ UNCHANGED <<stored, anchorAge, lastPersist>>

\* Mutant: the anchor is moved on though the time is not valid.
tickClock_AnyTime(s) ==
  \/ /\ ~s /\ plausible
     /\ saveLastEpoch /\ synced' = TRUE
  \/ /\ s \/ ~plausible
     /\ synced' = s
     /\ IF shouldPersistAnchor
        THEN /\ stored' = anchorAge - ms /\ anchorAge' = anchorAge - ms
             /\ lastPersist' = ms
        ELSE UNCHANGED <<stored, anchorAge, lastPersist>>

\* tickClock, if g_synced is s when it is called.
tickClock(s) ==
  \/ /\ ~s /\ ~plausible
     /\ synced' = FALSE /\ UNCHANGED <<stored, anchorAge, lastPersist>>
  \/ /\ ~s /\ plausible
     /\ saveLastEpoch /\ synced' = TRUE
  \/ /\ s /\ shouldPersistAnchor
     /\ saveLastEpoch /\ synced' = TRUE
  \/ /\ s /\ ~shouldPersistAnchor
     /\ synced' = TRUE /\ UNCHANGED <<stored, anchorAge, lastPersist>>

\* What a call of currentEpoch leaves of g_synced.
StillSynced == synced /\ plausible

\* currentEpoch has fallen back on g_anchorEpoch.
FallsBack == misled' = (misled \/ (synced /\ ~plausible))

-----------------------------------------------------------------------------
(* setup, from initWifi on.                                                *)

\* One round of waitForNtpSyncOrTimeout, up to its delay.
WaitRound ==
  /\ pc = "wait" /\ ~synced /\ ms < SyncTimeout
  /\ tickWifi
  /\ ntpStarted' = (ntpStarted \/ connected)
  /\ sntp' = (sntp \/ connected)
  /\ tickClock(synced)
  /\ turn' = 0
  /\ UNCHANGED <<connected, plausible, ms, misled, pc, wasConnected>>

\* The wait is over; REBOOT is dated.
FinishSetup ==
  /\ pc = "wait" /\ (synced \/ ms >= SyncTimeout)
  /\ pc' = "loop"
  /\ wasConnected' = connected
  /\ synced' = StillSynced /\ FallsBack
  /\ UNCHANGED <<radio, sntp, ms, backoff, stored, anchorAge, lastPersist,
                 ntpStarted, turn>>

-----------------------------------------------------------------------------
(* loop.                                                                   *)

Turn ==
  /\ pc = "loop"
  /\ FallsBack
  /\ tickWifi
  /\ tickClock(StillSynced)
  /\ sntp' = (sntp \/ (connected /\ ~wasConnected))
  /\ wasConnected' = connected
  /\ turn' = 0
  /\ UNCHANGED <<connected, plausible, ms, pc, ntpStarted>>

-----------------------------------------------------------------------------
(* The world.                                                              *)

Older(age) == Least(age + 1, Wrap)

Tick ==
  /\ turn < MaxBlock
  /\ turn' = turn + 1
  /\ ms' = (ms + 1) % Wrap
  /\ stored' = Older(stored) /\ anchorAge' = Older(anchorAge)
  /\ waited' = IF connected THEN 0 ELSE Older(waited)
  /\ UNCHANGED <<radio, sntp, attempt, next, synced, lastPersist, misled, setup>>

\* The radio associates, having been asked to or by itself.
LinkUp ==
  /\ ~connected
  /\ connected' = TRUE /\ waited' = 0
  /\ UNCHANGED <<plausible, sntp, ms, attempt, next, clock, setup, turn>>

LinkDown ==
  /\ connected
  /\ connected' = FALSE
  /\ UNCHANGED <<plausible, sntp, ms, backoff, clock, setup, turn>>

\* An NTP server answers.
NtpAnswer ==
  /\ connected /\ sntp /\ ~plausible
  /\ plausible' = TRUE
  /\ UNCHANGED <<connected, sntp, ms, backoff, clock, setup, turn>>

\* A server answers with a time that is not plausible.
Glitch ==
  /\ connected /\ sntp /\ synced /\ plausible
  /\ plausible' = FALSE
  /\ UNCHANGED <<connected, sntp, ms, backoff, clock, setup, turn>>

\* A reset, and setup up to initWifi.  The system time outlives some resets.
Crash ==
  /\ connected' = FALSE /\ sntp' = FALSE
  /\ plausible' \in {FALSE, plausible}
  /\ ms' = 0 /\ turn' = 0
  /\ pc' = "wait" /\ ntpStarted' = FALSE /\ wasConnected' = FALSE
  /\ attempt' = 1 /\ next' = backoffDelay(1) /\ waited' = 0
  /\ synced' = FALSE /\ misled' = FALSE
  /\ anchorAge' = stored /\ lastPersist' = 0
  /\ UNCHANGED stored

Init ==
  /\ connected = FALSE /\ sntp = FALSE /\ plausible = FALSE
  /\ ms = 0 /\ turn = 0
  /\ pc = "wait" /\ ntpStarted = FALSE /\ wasConnected = FALSE
  /\ attempt = 1 /\ next = backoffDelay(1) /\ waited = 0
  /\ synced = FALSE /\ misled = FALSE
  /\ stored = Wrap /\ anchorAge = Wrap /\ lastPersist = 0

Next ==
  \/ WaitRound
  \/ FinishSetup
  \/ Turn
  \/ Tick
  \/ LinkUp
  \/ LinkDown
  \/ NtpAnswer
  \/ Glitch
  \/ Crash

Spec == Init /\ [][Next]_vars

\* The program runs and time passes; an NTP server answers if it is asked.
Fairness ==
  /\ WF_vars(WaitRound) /\ WF_vars(FinishSetup) /\ WF_vars(Turn)
  /\ WF_vars(Tick)
  /\ WF_vars(NtpAnswer)

FairSpec == Spec /\ Fairness

-----------------------------------------------------------------------------
(* Properties.                                                             *)

\* The counters are readings of millis(), the ages bounded by its range, and
\* attempt is one that backoffDelay knows.
TypeOK ==
  /\ connected \in BOOLEAN /\ sntp \in BOOLEAN
  /\ plausible \in BOOLEAN
  /\ ms \in 0..(Wrap - 1)
  /\ stored \in 0..Wrap
  /\ pc \in {"wait", "loop"}
  /\ ntpStarted \in BOOLEAN /\ wasConnected \in BOOLEAN
  /\ attempt \in 0..Len(Delays)
  /\ next \in 0..(Wrap - 1)
  /\ synced \in BOOLEAN
  /\ anchorAge \in 0..Wrap
  /\ lastPersist \in 0..(Wrap - 1)
  /\ turn \in 0..MaxBlock
  /\ waited \in 0..Wrap
  /\ misled \in BOOLEAN

\* Without a link a new attempt is made in the end: a stale
\* g_nextAttemptMillis holds it up for at most half the range of millis().
AttemptsResume == waited <= Half + 2 * MaxBlock

\* While the time is valid the epoch in NVS is as fresh as configured
\* (DESIGN.md 5.4.1), across the wrap of millis().
AnchorFresh == synced => stored <= PersistInterval + MaxBlock

\* The estimate used without NTP is never ahead of the true time, so that
\* the first sync of a boot does not turn the log back; except after a
\* fallback from NTP, which adds all of millis() to a recent anchor.
EstimateNeverAhead == ~synced /\ ~misled => ms <= anchorAge

\* With a link and the SNTP client running the clock gets set, in setup or
\* later, at first or after a fallback.
EventuallySynced == <>[](connected /\ sntp) => []<>synced
=============================================================================
