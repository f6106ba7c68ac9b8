------------------------------ MODULE Outputs ------------------------------
(***************************************************************************)
(* What the loop drives: the pulses of /setalarm on the panel's inputs and *)
(* the status LED.  AlarmCommandOutput.cpp, AlarmPulseTimer.cpp,           *)
(* StatusLedPolicy.cpp, handleSetAlarm, loop of the sketch.                *)
(*                                                                         *)
(* Both are timed by one reading of millis() at the start of a turn, which *)
(* then blocks for as long as the watchdog allows: a pulse begins, and the *)
(* log changes, at later moments of the turn.                              *)
(***************************************************************************)
EXTENDS Integers

CONSTANTS
  Pin,          \* the pins of ALARM_COMMANDS
  NoPin,        \* -1
  PulseTicks,   \* kAlarmCommandPulseMs
  LedInterval,  \* kLedAlarmCheckIntervalMs
  MaxBlock,     \* the watchdog ends a longer turn
  Wrap          \* 2^32: millis() counts modulo Wrap

ASSUME OutputsAssumption ==
  /\ NoPin \notin Pin
  /\ PulseTicks \in Nat \ {0} /\ LedInterval \in Nat \ {0}
  /\ MaxBlock \in Nat \ {0}
  /\ Wrap \in Nat
  /\ Wrap > PulseTicks + MaxBlock /\ Wrap > LedInterval + MaxBlock

VARIABLES
  up,           \* the loop runs
  busy,         \* it is past the polls of a turn
  now,          \* millis()
  nowMillis,    \* its reading at the start of the turn
  driven,       \* pins that are HIGH
  active,       \* AlarmPulseTimer: active_,
  startMillis,  \*   startMillis_
  activePin,    \* g_activePin
  open,         \* the log has an alarm or a power loss open
  shownOpen,    \* g_ledAlarmOrPowerLossOpen
  lastCheck,    \* g_lastLedAlarmCheckMillis
  led,          \* what the LED shows
  (* History variables: nothing in the code reads them. *)
  waited,       \* ticks since the turn began
  held,         \* ticks since the pulse began
  settled       \* ticks since the log changed or the board started, up to LedDelay

panel == <<driven, active, startMillis, activePin, held>>
light == <<shownOpen, lastCheck, led>>
vars == <<up, busy, now, nowMillis, panel, open, light, waited, settled>>

\* A difference of two readings of millis().
Elapsed(t, since) == (t - since) % Wrap

\* The LED follows the log within so many ticks.
LedDelay == LedInterval + 2 * MaxBlock

-----------------------------------------------------------------------------
(* The LED's state.                                                        *)

decideStatusLedState(reachable, synced, alarm, degraded) ==
  LET networkOrTimeIssue == ~reachable \/ ~synced
  IN  IF alarm
      THEN IF networkOrTimeIssue THEN "ALARM_AND_NETWORK_OR_TIME" ELSE "ALARM"
      ELSE IF degraded THEN "DEGRADED"
      ELSE IF networkOrTimeIssue THEN "NETWORK_OR_TIME" ELSE "OK"

AlarmColours == {"ALARM", "ALARM_AND_NETWORK_OR_TIME"}

-----------------------------------------------------------------------------
(* A turn of the loop.                                                     *)

\* Mutant: the readings of millis() are compared, not their difference.
shouldRelease_NoWrap(t) == active /\ t >= startMillis + PulseTicks

\* AlarmPulseTimer::shouldRelease.
shouldRelease(t) == active /\ Elapsed(t, startMillis) >= PulseTicks

\* tickAlarmCommandOutput.
tickAlarmCommandOutput(t) ==
  IF shouldRelease(t)
  THEN /\ driven' = driven \ {activePin}
       /\ activePin' = NoPin
       /\ active' = FALSE
       /\ held' = 0
       /\ UNCHANGED startMillis
  ELSE UNCHANGED panel

\* The clock is read, the pins are polled, a pulse may end.
TurnBegins ==
  /\ up /\ ~busy
  /\ busy' = TRUE
  /\ nowMillis' = now /\ waited' = 0
  /\ tickAlarmCommandOutput(nowMillis')
  /\ UNCHANGED <<up, now, open, light, settled>>

\* Mutant: the pulse is timed from the reading of the turn.
handleSetAlarm_TurnReading(pin) ==
  /\ up /\ busy
  /\ ~active
  /\ driven' = driven \cup {pin}
  /\ activePin' = pin
  /\ active' = TRUE /\ startMillis' = nowMillis
  /\ held' = 0
  /\ UNCHANGED <<up, busy, now, nowMillis, open, light, waited, settled>>

\* /setalarm, unless another pulse is on.  (Its row is LogInstant of
\* EventLog, its reply a part of what the turn blocks for.)
handleSetAlarm(pin) ==
  /\ up /\ busy
  /\ ~active
  /\ driven' = driven \cup {pin}
  /\ activePin' = pin
  /\ active' = TRUE /\ startMillis' = now
  /\ held' = 0
  /\ UNCHANGED <<up, busy, now, nowMillis, open, light, waited, settled>>

\* Mutant: the moment of the check is written whether one was made or not.
TurnEnds_AlwaysStamped ==
  /\ up /\ busy
  /\ busy' = FALSE
  /\ shownOpen' = IF Elapsed(nowMillis, lastCheck) >= LedInterval THEN open ELSE shownOpen
  /\ lastCheck' = nowMillis
  /\ \E reachable, synced, degraded \in BOOLEAN :
       led' = decideStatusLedState(reachable, synced, shownOpen', degraded)
  /\ UNCHANGED <<up, now, nowMillis, panel, open, waited, settled>>

\* The LED at the end of the turn: the log is read every LedInterval only.
TurnEnds ==
  /\ up /\ busy
  /\ busy' = FALSE
  /\ IF Elapsed(nowMillis, lastCheck) >= LedInterval
     THEN shownOpen' = open /\ lastCheck' = nowMillis
     ELSE UNCHANGED <<shownOpen, lastCheck>>
  /\ \E reachable, synced, degraded \in BOOLEAN :
       led' = decideStatusLedState(reachable, synced, shownOpen', degraded)
  /\ UNCHANGED <<up, now, nowMillis, panel, open, waited, settled>>

-----------------------------------------------------------------------------
(* Around it.                                                              *)

Tick ==
  /\ up /\ busy /\ waited < MaxBlock
  /\ now' = (now + 1) % Wrap
  /\ waited' = waited + 1
  /\ held' = IF active THEN held + 1 ELSE 0
  /\ settled' = IF settled < LedDelay THEN settled + 1 ELSE settled
  /\ UNCHANGED <<up, busy, nowMillis, driven, active, startMillis, activePin, open, light>>

\* A pin, a button, a command or a reset of the log.
LogChanges ==
  /\ up
  /\ open' = ~open
  /\ settled' = 0
  /\ UNCHANGED <<up, busy, now, nowMillis, panel, light, waited>>

\* A reset, by the watchdog too.
Crash ==
  /\ up
  /\ up' = FALSE /\ busy' = FALSE
  /\ driven' = {} /\ active' = FALSE /\ activePin' = NoPin
  /\ held' = 0
  /\ startMillis' = 0
  /\ led' = "off" /\ shownOpen' = FALSE /\ lastCheck' = 0
  /\ now' = 0 /\ nowMillis' = 0 /\ waited' = 0 /\ settled' = 0
  /\ UNCHANGED open

\* setup ends, somewhen: the wait for NTP takes a while.
Boot ==
  /\ ~up
  /\ up' = TRUE
  /\ now' \in 0..(Wrap - 1)
  /\ UNCHANGED <<busy, nowMillis, panel, open, light, waited, settled>>

Init ==
  /\ up = FALSE /\ busy = FALSE
  /\ now = 0 /\ nowMillis = 0
  /\ driven = {} /\ active = FALSE /\ startMillis = 0 /\ activePin = NoPin
  /\ open \in BOOLEAN
  /\ shownOpen = FALSE /\ lastCheck = 0 /\ led = "off"
  /\ waited = 0 /\ held = 0 /\ settled = 0

Next ==
  \/ TurnBegins
  \/ \E pin \in Pin : handleSetAlarm(pin)
  \/ TurnEnds
  \/ Tick
  \/ LogChanges
  \/ Crash
  \/ Boot

Spec == Init /\ [][Next]_vars

-----------------------------------------------------------------------------
(* Properties.                                                             *)

\* The variables range over what the code allows.
TypeOK ==
  /\ up \in BOOLEAN /\ busy \in BOOLEAN /\ active \in BOOLEAN
  /\ now \in 0..(Wrap - 1) /\ nowMillis \in 0..(Wrap - 1)
  /\ startMillis \in 0..(Wrap - 1) /\ lastCheck \in 0..(Wrap - 1)
  /\ driven \subseteq Pin /\ activePin \in Pin \cup {NoPin}
  /\ open \in BOOLEAN /\ shownOpen \in BOOLEAN
  /\ waited \in 0..MaxBlock /\ held \in Nat /\ settled \in 0..LedDelay

\* No two commands are given to the panel at once, a pin is HIGH only while
\* the timer runs that will release it, and it is released at the latest
\* PulseTicks and one turn after it was driven, wherever in the turn that
\* was and wherever the counter wrapped.
PulseInTime ==
  IF active THEN driven = {activePin} /\ held <= PulseTicks + MaxBlock ELSE driven = {}

\* The panel sees a command for its full length (DESIGN.md 16), unless the
\* board is reset.
PulseLongEnough ==
  [][\A pin \in driven \ driven' : held >= PulseTicks \/ ~up']_vars

\* The LED shows an open alarm, and shows none when none is open, as soon as
\* the log has stayed the same for the interval and two turns
\* (docs/architecture.md, "Status LED").
LedFollowsLog ==
  settled = LedDelay => (led \in AlarmColours <=> open)
=============================================================================
