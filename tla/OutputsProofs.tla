---------------------------- MODULE OutputsProofs ----------------------------
(***************************************************************************)
(* Theorems about the pulses and the status LED of Outputs, for any pins,  *)
(* lengths and turns, and wherever the millisecond counter wraps.          *)
(*                                                                         *)
(* The timer only knows a 32-bit difference of two readings.  The proof    *)
(* shows that while a pulse is on this difference is the true age of the   *)
(* pulse: the age stays below PulseTicks plus what the present turn has    *)
(* blocked for, which is far from a whole round of the counter.            *)
(*                                                                         *)
(* The LED is judged by the last reading of the log.  While that is stale, *)
(* the log is younger than the time since the reading, as long as no check *)
(* is due, and a check that is due is made at the end of the same turn.    *)
(***************************************************************************)
EXTENDS Outputs, TLAPS

\* What drives the panel and the age of its pulse.
PulseInv ==
  /\ active => /\ up
               /\ activePin \in Pin /\ driven = {activePin}
               /\ Elapsed(now, startMillis) = held
               /\ held < PulseTicks + waited
  /\ ~active => driven = {} /\ held = 0

IInv == TypeOK /\ PulseInv

-----------------------------------------------------------------------------
(* Differences of readings of the counter.                                 *)

LEMMA ElapsedSelf ==
  ASSUME NEW t \in 0..(Wrap - 1)
  PROVE  Elapsed(t, t) = 0
  BY OutputsAssumption DEF Elapsed

\* A tick makes a difference one larger, short of a whole round.
LEMMA ElapsedTick ==
  ASSUME NEW t \in 0..(Wrap - 1), NEW since \in 0..(Wrap - 1),
         Elapsed(t, since) + 1 < Wrap
  PROVE  /\ (t + 1) % Wrap \in 0..(Wrap - 1)
         /\ Elapsed((t + 1) % Wrap, since) = Elapsed(t, since) + 1
  <1>1. (t + 1) % Wrap = IF t = Wrap - 1 THEN 0 ELSE t + 1
    BY OutputsAssumption
  <1>2. \A u \in 0..(Wrap - 1) :
          (u - since) % Wrap = IF u >= since THEN u - since ELSE u - since + Wrap
    BY OutputsAssumption
  <1>3. (t + 1) % Wrap \in 0..(Wrap - 1)
    BY <1>1, OutputsAssumption
  <1> QED
    BY <1>1, <1>2, <1>3, OutputsAssumption DEF Elapsed

LEMMA LedDelayType == LedDelay \in Nat
  BY OutputsAssumption DEF LedDelay

LEMMA ZeroType == 0 \in 0..(Wrap - 1) /\ 0 \in 0..LedDelay /\ 0 \in 0..MaxBlock /\ 0 \in Nat
  BY OutputsAssumption, LedDelayType

-----------------------------------------------------------------------------
(* The invariant.                                                          *)

LEMMA InitIInv == Init => IInv
  <1> SUFFICES ASSUME Init PROVE IInv
    OBVIOUS
  <1>1. TypeOK
    BY ZeroType DEF Init, TypeOK
  <1>2. PulseInv
    BY DEF Init, PulseInv
  <1> QED
    BY <1>1, <1>2 DEF IInv

LEMMA TypeStep == IInv /\ [Next]_vars => TypeOK'
  <1> SUFFICES ASSUME IInv, [Next]_vars PROVE TypeOK'
    OBVIOUS
  <1> USE DEF IInv, TypeOK
  <1>1. CASE TurnBegins
    <2>1. nowMillis' \in 0..(Wrap - 1) /\ waited' \in 0..MaxBlock /\ busy' \in BOOLEAN
      BY <1>1, ZeroType DEF TurnBegins
    <2>2. /\ driven' \subseteq Pin /\ activePin' \in Pin \cup {NoPin}
          /\ active' \in BOOLEAN /\ startMillis' \in 0..(Wrap - 1) /\ held' \in Nat
      BY <1>1, ZeroType DEF TurnBegins, tickAlarmCommandOutput, panel
    <2> QED
      BY <1>1, <2>1, <2>2 DEF TurnBegins, light
  <1>2. CASE \E pin \in Pin : handleSetAlarm(pin)
    BY <1>2, ZeroType DEF handleSetAlarm, light
  <1>3. CASE TurnEnds
    BY <1>3 DEF TurnEnds, panel
  <1>4. CASE Tick
    <2>1. now' \in 0..(Wrap - 1)
      BY <1>4, OutputsAssumption DEF Tick
    <2>2. settled' \in 0..LedDelay /\ waited' \in 0..MaxBlock /\ held' \in Nat
      BY <1>4, OutputsAssumption, LedDelayType DEF Tick
    <2> QED
      BY <1>4, <2>1, <2>2 DEF Tick, light
  <1>5. CASE LogChanges
    BY <1>5, ZeroType DEF LogChanges, panel, light
  <1>6. CASE Crash
    BY <1>6, ZeroType DEF Crash
  <1>7. CASE Boot
    BY <1>7 DEF Boot, panel, light
  <1>8. CASE UNCHANGED vars
    BY <1>8 DEF vars, panel, light
  <1> QED
    BY <1>1, <1>2, <1>3, <1>4, <1>5, <1>6, <1>7, <1>8 DEF Next

LEMMA PulseStep == IInv /\ [Next]_vars => PulseInv'
  <1> SUFFICES ASSUME IInv, [Next]_vars PROVE PulseInv'
    OBVIOUS
  <1> USE DEF IInv, TypeOK, PulseInv
  <1>1. CASE TurnBegins
    <2>1. CASE shouldRelease(nowMillis')
      BY <1>1, <2>1 DEF TurnBegins, tickAlarmCommandOutput, shouldRelease
    <2>2. CASE ~shouldRelease(nowMillis')
      <3>1. UNCHANGED panel /\ now' = now /\ waited' = 0 /\ nowMillis' = now /\ up' = up
        BY <1>1, <2>2 DEF TurnBegins, tickAlarmCommandOutput
      <3>2. active => held < PulseTicks
        BY <2>2, <3>1, OutputsAssumption DEF shouldRelease, panel
      <3> QED
        BY <3>1, <3>2, OutputsAssumption DEF panel
    <2> QED
      BY <2>1, <2>2
  <1>2. ASSUME NEW pin \in Pin, handleSetAlarm(pin)
        PROVE  PulseInv'
    <2>1. Elapsed(now', startMillis') = 0
      BY <1>2, ElapsedSelf DEF handleSetAlarm
    <2> QED
      BY <1>2, <2>1, OutputsAssumption DEF handleSetAlarm
  <1>3. CASE TurnEnds
    BY <1>3 DEF TurnEnds, panel
  <1>4. CASE Tick
    <2>1. CASE active
      <3>1. Elapsed(now, startMillis) + 1 < Wrap
        BY <1>4, <2>1, OutputsAssumption DEF Tick
      <3>2. Elapsed(now', startMillis) = held + 1
        BY <1>4, <2>1, <3>1, ElapsedTick DEF Tick
      <3> QED
        BY <1>4, <2>1, <3>2, OutputsAssumption DEF Tick
    <2>2. CASE ~active
      BY <1>4, <2>2 DEF Tick
    <2> QED
      BY <2>1, <2>2
  <1>5. CASE LogChanges
    BY <1>5 DEF LogChanges, panel
  <1>6. CASE Crash
    BY <1>6 DEF Crash
  <1>7. CASE Boot
    BY <1>7 DEF Boot, panel
  <1>8. CASE UNCHANGED vars
    BY <1>8 DEF vars, panel
  <1> QED
    BY <1>1, <1>2, <1>3, <1>4, <1>5, <1>6, <1>7, <1>8 DEF Next

LEMMA Invariance == Spec => []IInv
  BY InitIInv, TypeStep, PulseStep, PTL DEF Spec, IInv

-----------------------------------------------------------------------------
(* The theorems.                                                           *)

\* Every variable ranges over what the code allows; the history of the LED
\* stays within its bound.
THEOREM TypeCorrect == Spec => []TypeOK
  <1>1. IInv => TypeOK
    BY DEF IInv
  <1> QED
    BY <1>1, Invariance, PTL

\* At no time are two commands given to the panel, and no pin stays HIGH for
\* longer than the pulse and one turn of the loop: whenever in a turn the
\* command came, and wherever the counter wrapped.
THEOREM PulseInTimeHolds == Spec => []PulseInTime
  <1>1. IInv => PulseInTime
    BY OutputsAssumption DEF IInv, TypeOK, PulseInv, PulseInTime
  <1> QED
    BY <1>1, Invariance, PTL

\* A pulse that a turn of the loop ends has lasted for its full length.
THEOREM PulseLongEnoughHolds == Spec => PulseLongEnough
  <1> DEFINE Long == \A pin \in driven \ driven' : held >= PulseTicks \/ ~up'
  <1>1. IInv /\ [Next]_vars => [Long]_vars
    <2> SUFFICES ASSUME IInv, [Next]_vars, NEW pin \in driven \ driven'
                 PROVE  held >= PulseTicks \/ ~up'
      OBVIOUS
    <2>1. CASE TurnBegins
      BY <2>1, OutputsAssumption
      DEF TurnBegins, tickAlarmCommandOutput, shouldRelease, panel, IInv, TypeOK, PulseInv
    <2>2. CASE Crash
      BY <2>2 DEF Crash
    <2>3. CASE \E p \in Pin : handleSetAlarm(p)
      BY <2>3 DEF handleSetAlarm
    <2>4. CASE TurnEnds \/ Tick \/ LogChanges \/ Boot \/ UNCHANGED vars
      BY <2>4 DEF TurnEnds, Tick, LogChanges, Boot, vars, panel
    <2> QED
      BY <2>1, <2>2, <2>3, <2>4 DEF Next
  <1> QED
    BY <1>1, Invariance, PTL DEF Spec, PulseLongEnough

-----------------------------------------------------------------------------
(* The LED.                                                                *)

\* The colour shows the last reading of the log; the moment of the turn's
\* reading is known; and while the reading is stale, the log is no older
\* than the reading, until the check is due.
LedInv ==
  /\ led \in AlarmColours <=> shownOpen
  /\ busy => up /\ Elapsed(now, nowMillis) = waited
  /\ ~up => settled = 0
  /\ shownOpen # open =>
       /\ settled < LedInterval + MaxBlock + (IF busy THEN waited ELSE 0)
       /\ busy /\ Elapsed(nowMillis, lastCheck) < LedInterval =>
            settled <= Elapsed(nowMillis, lastCheck) + waited
       /\ ~busy /\ Elapsed(now, lastCheck) < LedInterval =>
            settled <= Elapsed(now, lastCheck)

LEMMA ElapsedType ==
  ASSUME NEW t \in 0..(Wrap - 1), NEW since \in 0..(Wrap - 1)
  PROVE  Elapsed(t, since) \in 0..(Wrap - 1)
  BY OutputsAssumption DEF Elapsed

\* Two differences of readings add up, short of a whole round.
LEMMA ElapsedSum ==
  ASSUME NEW t \in 0..(Wrap - 1), NEW mid \in 0..(Wrap - 1), NEW since \in 0..(Wrap - 1),
         Elapsed(t, mid) + Elapsed(mid, since) < Wrap
  PROVE  Elapsed(t, since) = Elapsed(t, mid) + Elapsed(mid, since)
  <1>1. \A u, v \in 0..(Wrap - 1) :
          (u - v) % Wrap = IF u >= v THEN u - v ELSE u - v + Wrap
    BY OutputsAssumption
  <1>2. Elapsed(t, mid) = IF t >= mid THEN t - mid ELSE t - mid + Wrap
    BY <1>1 DEF Elapsed
  <1>3. Elapsed(mid, since) = IF mid >= since THEN mid - since ELSE mid - since + Wrap
    BY <1>1 DEF Elapsed
  <1>4. Elapsed(t, since) = IF t >= since THEN t - since ELSE t - since + Wrap
    BY <1>1 DEF Elapsed
  <1> QED
    BY <1>2, <1>3, <1>4, OutputsAssumption

\* Whatever the network, the clock and the queue are like, the LED has an
\* alarm's colour for an open alarm only.
LEMMA ColourShows ==
  ASSUME NEW reachable \in BOOLEAN, NEW synced \in BOOLEAN,
         NEW alarm \in BOOLEAN, NEW degraded \in BOOLEAN
  PROVE  decideStatusLedState(reachable, synced, alarm, degraded) \in AlarmColours <=> alarm
  BY DEF decideStatusLedState, AlarmColours

LEMMA LedInit == Init => LedInv
  <1> SUFFICES ASSUME Init PROVE LedInv
    OBVIOUS
  <1>1. Elapsed(now, lastCheck) = 0 /\ 0 < LedInterval + MaxBlock
    BY ZeroType, ElapsedSelf, OutputsAssumption DEF Init
  <1>2. led \notin AlarmColours /\ ~shownOpen /\ ~busy /\ settled = 0
    BY DEF Init, AlarmColours
  <1> QED
    BY <1>1, <1>2, OutputsAssumption DEF LedInv

LEMMA LedStep == TypeOK /\ LedInv /\ [Next]_vars => LedInv'
  <1> SUFFICES ASSUME TypeOK, LedInv, [Next]_vars PROVE LedInv'
    OBVIOUS
  <1>0. /\ now \in 0..(Wrap - 1) /\ nowMillis \in 0..(Wrap - 1) /\ lastCheck \in 0..(Wrap - 1)
        /\ waited \in 0..MaxBlock /\ settled \in 0..LedDelay
        /\ open \in BOOLEAN /\ shownOpen \in BOOLEAN /\ busy \in BOOLEAN /\ up \in BOOLEAN
        /\ MaxBlock \in Nat \ {0} /\ LedInterval \in Nat \ {0} /\ Wrap \in Nat
        /\ Wrap > LedInterval + MaxBlock
    BY OutputsAssumption DEF TypeOK
  <1>1. CASE TurnBegins
    <2>1. /\ ~busy /\ busy' /\ up /\ up' /\ nowMillis' = now /\ now' = now /\ waited' = 0
          /\ UNCHANGED <<open, light, settled>>
      BY <1>1 DEF TurnBegins
    <2>2. Elapsed(now', nowMillis') = waited'
      BY <1>0, <2>1, ElapsedSelf
    <2>3. Elapsed(nowMillis', lastCheck') = Elapsed(now, lastCheck)
      BY <2>1 DEF light
    <2>4. Elapsed(now, lastCheck) \in 0..(Wrap - 1)
      BY <1>0, ElapsedType
    <2> QED
      BY <1>0, <2>1, <2>2, <2>3, <2>4 DEF LedInv, light
  <1>2. CASE \E pin \in Pin : handleSetAlarm(pin)
    BY <1>2 DEF handleSetAlarm, LedInv, light
  <1>3. CASE TurnEnds
    <2>1. /\ up /\ busy /\ busy' = FALSE
          /\ UNCHANGED <<up, now, nowMillis, open, waited, settled>>
      BY <1>3 DEF TurnEnds
    <2>2. shownOpen' \in BOOLEAN
      BY <1>0, <1>3 DEF TurnEnds
    <2>3. led' \in AlarmColours <=> shownOpen'
      BY <1>3, <2>2, ColourShows DEF TurnEnds
    <2>4. CASE Elapsed(nowMillis, lastCheck) >= LedInterval
      BY <1>3, <2>1, <2>3, <2>4 DEF TurnEnds, LedInv
    <2>5. CASE ~(Elapsed(nowMillis, lastCheck) >= LedInterval)
      <3>1. shownOpen' = shownOpen /\ lastCheck' = lastCheck
        BY <1>3, <2>5 DEF TurnEnds
      <3>2. Elapsed(nowMillis, lastCheck) \in 0..(Wrap - 1) /\ Elapsed(now, nowMillis) = waited
        BY <1>0, <2>1, ElapsedType DEF LedInv
      <3>3. Elapsed(now, lastCheck) = waited + Elapsed(nowMillis, lastCheck)
        BY <1>0, <2>5, <3>2, ElapsedSum
      <3>4. shownOpen # open => settled <= Elapsed(nowMillis, lastCheck) + waited
        BY <1>0, <2>1, <2>5, <3>2 DEF LedInv
      <3>5. shownOpen # open => settled < LedInterval + MaxBlock
        BY <1>0, <2>5, <3>2, <3>4
      <3> QED
        BY <1>0, <2>1, <2>3, <3>1, <3>2, <3>3, <3>4, <3>5 DEF LedInv
    <2> QED
      BY <2>4, <2>5
  <1>4. CASE Tick
    <2>1. /\ up /\ up' /\ busy /\ busy' /\ waited < MaxBlock /\ waited' = waited + 1
          /\ now' = (now + 1) % Wrap
          /\ settled' <= settled + 1 /\ settled' \in Int
          /\ UNCHANGED <<nowMillis, open, light>>
      BY <1>0, <1>4, LedDelayType DEF Tick
    <2>2. Elapsed(now, nowMillis) + 1 < Wrap
      BY <1>0, <2>1 DEF LedInv
    <2>3. Elapsed(now', nowMillis') = waited'
      BY <1>0, <2>1, <2>2, ElapsedTick DEF LedInv
    <2>4. Elapsed(nowMillis, lastCheck) \in 0..(Wrap - 1)
          /\ Elapsed(nowMillis', lastCheck') = Elapsed(nowMillis, lastCheck)
      BY <1>0, <2>1, ElapsedType DEF light
    <2>5. shownOpen' = shownOpen /\ open' = open /\ led' = led
      BY <2>1 DEF light
    <2>6. shownOpen # open => settled' < LedInterval + MaxBlock + waited'
      BY <1>0, <2>1 DEF LedInv
    <2>7. shownOpen # open /\ Elapsed(nowMillis, lastCheck) < LedInterval =>
            settled' <= Elapsed(nowMillis, lastCheck) + waited'
      BY <1>0, <2>1, <2>4 DEF LedInv
    <2> QED
      BY <2>1, <2>3, <2>4, <2>5, <2>6, <2>7 DEF LedInv
  <1>5. CASE LogChanges
    <2>1. /\ up /\ settled' = 0
          /\ UNCHANGED <<up, busy, now, nowMillis, light, waited>>
      BY <1>5 DEF LogChanges
    <2>2. /\ Elapsed(nowMillis, lastCheck) \in 0..(Wrap - 1)
          /\ Elapsed(now, lastCheck) \in 0..(Wrap - 1)
      BY <1>0, ElapsedType
    <2> QED
      BY <1>0, <2>1, <2>2 DEF LedInv, light
  <1>6. CASE Crash
    <2>1. /\ up' = FALSE /\ busy' = FALSE /\ settled' = 0 /\ led' = "off" /\ shownOpen' = FALSE
          /\ now' = 0 /\ lastCheck' = 0
      BY <1>6 DEF Crash
    <2>2. Elapsed(now', lastCheck') = 0
      BY <1>0, <2>1, ElapsedSelf
    <2> QED
      BY <1>0, <2>1, <2>2 DEF LedInv, AlarmColours
  <1>7. CASE Boot
    <2>1. /\ ~up /\ up' /\ now' \in 0..(Wrap - 1) /\ ~busy
          /\ settled = 0
          /\ UNCHANGED <<busy, nowMillis, open, light, waited, settled>>
      BY <1>7 DEF Boot, LedInv
    <2>2. Elapsed(now', lastCheck) \in 0..(Wrap - 1)
      BY <1>0, <2>1, ElapsedType
    <2> QED
      BY <1>0, <2>1, <2>2 DEF LedInv, light
  <1>8. CASE UNCHANGED vars
    BY <1>8 DEF vars, panel, light, LedInv
  <1> QED
    BY <1>1, <1>2, <1>3, <1>4, <1>5, <1>6, <1>7, <1>8 DEF Next

\* Once the log has been the same for the interval and two turns, the LED
\* shows whether it has an alarm open: whatever the turns blocked for, after
\* any boot, and wherever the counter of the interval wrapped.
THEOREM LedFollowsLogHolds == Spec => []LedFollowsLog
  <1>1. TypeOK /\ LedInv => LedFollowsLog
    <2> SUFFICES ASSUME TypeOK, LedInv, settled = LedDelay, shownOpen # open PROVE FALSE
      BY DEF LedFollowsLog, LedInv, TypeOK
    <2>1. settled < LedInterval + MaxBlock + (IF busy THEN waited ELSE 0)
      BY DEF LedInv
    <2>2. waited \in 0..MaxBlock /\ MaxBlock \in Nat \ {0} /\ LedInterval \in Nat \ {0}
      BY OutputsAssumption DEF TypeOK
    <2> QED
      BY <2>1, <2>2 DEF LedDelay
  <1>2. IInv => TypeOK
    BY DEF IInv
  <1>3. Spec => []TypeOK
    BY <1>2, Invariance, PTL
  <1> QED
    BY <1>1, <1>3, LedInit, LedStep, PTL DEF Spec
=============================================================================
